-------------------------- MODULE KernelFakesProofs --------------------------
(***************************************************************************)
(* The fakes of kernel facilities: the ticket lock, for any number of      *)
(* threads; the zone registry, for any length of zone_array and zones of   *)
(* any size; and the use of elements, for any number of threads and        *)
(* elements.                                                               *)
(***************************************************************************)
EXTENDS HwTicketLock, KernelZones, KernelElements, SequenceTheorems,
        FiniteSetTheorems, WellFoundedInduction, TLAPS

(* The ticket lock.                                                        *)

LEMMA InitTicketInv == Init => TicketInv
BY NoneAssumption
   DEF Init, TicketInv, TypeOK, WaitersAwake, SetsOfMutex, OwnerWasTold,
       OneDestroyer

LEMMA AllocateInv ==
  ASSUME TicketInv, NEW t \in Thread, NEW l \in BOOLEAN, Allocate(t, l)
  PROVE  TicketInv'
<1>1. acquired \subseteq {} \/ LocksInvalid
  BY NoneAssumption
     DEF Allocate, TicketInv, TypeOK, SetsOfMutex, OwnerWasTold
<1> QED
  BY <1>1, NoneAssumption
     DEF Allocate, TicketInv, TypeOK, WaitersAwake, SetsOfMutex, OwnerWasTold,
         OneDestroyer

LEMMA InvalidateInv ==
  ASSUME TicketInv, NEW t \in Thread, Invalidate(t)
  PROVE  TicketInv'
BY DEF Invalidate, TicketInv, TypeOK, WaitersAwake, SetsOfMutex, OwnerWasTold,
       OneDestroyer

(* Lock, by a thread that returns at once or that begins to wait.          *)
LEMMA LockInv ==
  ASSUME TicketInv, NEW t \in Thread, NEW a \in BOOLEAN,
         LockInvalid(t, a) \/ Lock(t) \/ TryLock(t)
  PROVE  TicketInv'
<1>1. CASE LockInvalid(t, a)
  BY <1>1 DEF LockInvalid, TicketInv, TypeOK, WaitersAwake, SetsOfMutex,
              OwnerWasTold, OneDestroyer
<1>2. CASE Lock(t)
  <2>1. CASE owner_ = None
    BY <1>2, <2>1, NoneAssumption
       DEF Lock, Idle, TicketInv, TypeOK, WaitersAwake, SetsOfMutex,
           OwnerWasTold, OneDestroyer
  <2>2. CASE owner_ # None
    BY <1>2, <2>2
       DEF Lock, Idle, TicketInv, TypeOK, WaitersAwake, SetsOfMutex,
           OwnerWasTold, OneDestroyer
  <2> QED BY <2>1, <2>2
<1>3. CASE TryLock(t)
  BY <1>3, NoneAssumption
     DEF TryLock, TicketInv, TypeOK, WaitersAwake, SetsOfMutex, OwnerWasTold,
         OneDestroyer
<1> QED BY <1>1, <1>2, <1>3

LEMMA LockResumesInv ==
  ASSUME TicketInv, NEW t \in Thread, LockResumes(t)
  PROVE  TicketInv'
<1>1. CASE owner_ # None
  BY <1>1 DEF LockResumes, TicketInv, TypeOK, WaitersAwake, SetsOfMutex,
              OwnerWasTold, OneDestroyer
<1>2. CASE owner_ = None
  <2>1. TypeOK' /\ WaitersAwake'
    BY <1>2, NoneAssumption DEF LockResumes, TicketInv, TypeOK, WaitersAwake
  <2>2. SetsOfMutex' /\ OwnerWasTold'
    BY <1>2, NoneAssumption
       DEF LockResumes, TicketInv, TypeOK, WaitersAwake, SetsOfMutex, OwnerWasTold
  <2>3. OneDestroyer'
    BY <1>2 DEF LockResumes, TicketInv, TypeOK, OneDestroyer
  <2> QED BY <2>1, <2>2, <2>3 DEF TicketInv
<1> QED BY <1>1, <1>2

LEMMA UnlockInv ==
  ASSUME TicketInv, NEW t \in Thread, Unlock(t)
  PROVE  TicketInv'
BY NoneAssumption
   DEF Unlock, TicketInv, TypeOK, WaitersAwake, SetsOfMutex, OwnerWasTold,
       OneDestroyer

LEMMA DestroyInv ==
  ASSUME TicketInv, NEW t \in Thread, NEW s \in BOOLEAN,
         Destroy(t, s) \/ WaitersLeft(t)
  PROVE  TicketInv'
<1>1. CASE Destroy(t, s) /\ waiters_ = {}
  <2>1. \A u \in Thread : pc[u] # "Destroy" /\ pc[u] # "Lock"
    BY <1>1 DEF Destroy, Destroying, TicketInv, WaitersAwake
  <2>2. /\ live_locks_' = FALSE /\ invalidated_locks_' = FALSE /\ mutex' = FALSE
        /\ owner_' = None /\ waiters_' = {} /\ awake' = {} /\ pc' = pc
        /\ acquired' = {}
    BY <1>1 DEF Destroy, Free
  <2> QED
    BY <2>1, <2>2 DEF TicketInv, TypeOK, WaitersAwake, SetsOfMutex,
                      OwnerWasTold, OneDestroyer
<1>2. CASE Destroy(t, s) /\ waiters_ # {}
  <2>1. /\ \A u \in Thread : pc[u] # "Destroy"
        /\ pc[t] = "idle" /\ owner_ \in {t, None} /\ invalidated_locks_
    BY <1>2 DEF Destroy, Destroying, Idle, TicketInv, OwnerWasTold
  <2>2. /\ live_locks_' = FALSE /\ invalidated_locks_' = invalidated_locks_
        /\ mutex' = mutex /\ mutex /\ owner_' = None /\ waiters_' = waiters_
        /\ pc' = [pc EXCEPT ![t] = "Destroy"] /\ acquired' = {}
        /\ awake' = IF owner_ = t THEN waiters_ ELSE awake
    BY <1>2, <2>1 DEF Destroy
  <2>3. TypeOK' /\ WaitersAwake'
    BY <2>1, <2>2, NoneAssumption DEF TicketInv, TypeOK, WaitersAwake
  <2> QED
    BY <2>1, <2>2, <2>3 DEF TicketInv, TypeOK, SetsOfMutex, OwnerWasTold,
                            OneDestroyer
<1>3. CASE WaitersLeft(t)
  <2>1. /\ pc[t] = "Destroy" /\ \A u \in Thread : pc[u] # "Lock"
        /\ \A u \in Thread : pc[u] = "Destroy" => u = t
        /\ owner_ = None /\ invalidated_locks_ /\ ~live_locks_
    BY <1>3 DEF WaitersLeft, TicketInv, WaitersAwake, OneDestroyer, SetsOfMutex
  <2>2. /\ live_locks_' = live_locks_ /\ invalidated_locks_' = FALSE
        /\ mutex' = FALSE /\ owner_' = None /\ waiters_' = {} /\ awake' = {}
        /\ pc' = [pc EXCEPT ![t] = "idle"] /\ acquired' = acquired
    BY <1>3 DEF WaitersLeft, Free
  <2>3. OwnerWasTold'
    BY <2>1, <2>2, NoneAssumption DEF TicketInv, TypeOK, OwnerWasTold
  <2> QED
    BY <2>1, <2>2, <2>3 DEF TicketInv, TypeOK, WaitersAwake, SetsOfMutex,
                            OneDestroyer
<1> QED BY <1>1, <1>2, <1>3

LEMMA NextTicketInv == TicketInv /\ [Next]_vars => TicketInv'
<1>1. ASSUME TicketInv, UNCHANGED vars PROVE TicketInv'
  BY <1>1 DEF vars, TicketInv, TypeOK, WaitersAwake, SetsOfMutex,
              OwnerWasTold, OneDestroyer
<1> QED BY <1>1, AllocateInv, InvalidateInv, LockInv, LockResumesInv,
           UnlockInv, DestroyInv DEF Next

(* The invariant of the ticket lock.                                       *)
THEOREM TicketSafe == Spec => []TicketInv
BY InitTicketInv, NextTicketInv, PTL DEF Spec

(* HwTicketLockManager::Destroy frees no mutex that a thread waits in.     *)
THEOREM TicketNoUseAfterFree == Spec => []NoUseAfterFree
<1>1. TicketInv => NoUseAfterFree
  BY DEF TicketInv, WaitersAwake, SetsOfMutex, NoUseAfterFree
<1> QED BY <1>1, TicketSafe, PTL

(* Whoever got HW_LOCK_ACQUIRED owns the mutex, for callers that do not    *)
(* use a plain Lock on an invalidated lock.                                *)
THEOREM TicketExcludes == Spec => [](LocksInvalid \/ AcquiredMeansHeld)
<1>1. TicketInv => LocksInvalid \/ AcquiredMeansHeld
  BY NoneAssumption
     DEF TicketInv, TypeOK, SetsOfMutex, OwnerWasTold, AcquiredMeansHeld
<1> QED BY <1>1, TicketSafe, PTL

(* Once Destroy waits, the waiters only leave: the lock is invalid, so     *)
(* none joins, none finds an owner, and Destroy goes on after the last.    *)
LEMMA DrainStep ==
  ASSUME TicketInv, TicketInv', [Next]_vars, NEW t \in Thread,
         pc[t] = "Destroy"
  PROVE  /\ waiters_' \subseteq waiters_
         /\ \A u \in Thread : LockResumes(u) => waiters_' = waiters_ \ {u}
         /\ pc'[t] = "Destroy" => waiters_' \subseteq awake'
         /\ pc'[t] # "Destroy" => waiters_ = {}
<1>1. /\ invalidated_locks_ /\ ~live_locks_ /\ mutex /\ owner_ = None
      /\ \A u \in Thread : pc[u] = "Destroy" => u = t
  BY DEF TicketInv, SetsOfMutex, OneDestroyer
<1>2. pc'[t] = "Destroy" => waiters_' \subseteq awake'
  BY DEF TicketInv, OneDestroyer, WaitersAwake
<1>3. \A u \in Thread : LockResumes(u) => waiters_' = waiters_ \ {u}
  BY <1>1 DEF LockResumes
<1>4. waiters_' \subseteq waiters_ /\ (pc'[t] # "Destroy" => waiters_ = {})
  <2>1. CASE UNCHANGED vars
    BY <2>1 DEF vars
  <2>2. ASSUME NEW u \in Thread,
               \/ \E l \in BOOLEAN : Allocate(u, l)
               \/ Invalidate(u) \/ Lock(u) \/ TryLock(u)
               \/ \E s \in BOOLEAN : Destroy(u, s)
        PROVE  FALSE
    BY <1>1, <2>2
       DEF Allocate, Invalidate, Lock, TryLock, Destroy, Destroying
  <2>3. ASSUME NEW u \in Thread,
               (\E a \in BOOLEAN : LockInvalid(u, a)) \/ Unlock(u)
        PROVE  waiters_' = waiters_ /\ pc' = pc
    BY <2>3 DEF LockInvalid, Unlock
  <2>4. ASSUME NEW u \in Thread, LockResumes(u)
        PROVE  waiters_' \subseteq waiters_ /\ pc'[t] = "Destroy"
    BY <1>1, <2>4 DEF LockResumes, TicketInv, TypeOK
  <2>5. ASSUME NEW u \in Thread, WaitersLeft(u)
        PROVE  waiters_ = {} /\ waiters_' = {}
    BY <2>5 DEF WaitersLeft, Free
  <2> QED BY <2>1, <2>2, <2>3, <2>4, <2>5 DEF Next
<1> QED BY <1>2, <1>3, <1>4

(* HwTicketLockManager::Destroy, in the loop of WakeupWaiters, waits for   *)
(* threads that can all run and leave one by one, and for no other: with   *)
(* a fair scheduler it returns.                                            *)
THEOREM TicketDestroyDrains == Spec => DestroyDrains
<1>1. TicketInv /\ TicketInv' /\ [Next]_vars
      => [\A t \in Thread : pc[t] = "Destroy" =>
             /\ waiters_' \subseteq waiters_
             /\ \A u \in Thread : LockResumes(u) => waiters_' = waiters_ \ {u}
             /\ pc'[t] = "Destroy" => waiters_' \subseteq awake'
             /\ pc'[t] # "Destroy" => waiters_ = {}]_vars
  BY DrainStep
<1> QED BY <1>1, TicketSafe, PTL DEF Spec, DestroyDrains

(* A thread is told HW_LOCK_ACQUIRED only when no other thread has the     *)
(* lock: Allocate(locked), Lock, a resumed Lock and TryLock acquire it.    *)
LEMMA TicketRWStep ==
  ASSUME TicketInv, [Next]_vars, ~LocksInvalid
  PROVE  [RW!Next]_(RW!vars)
<1> DEFINE Acq(t) == acquired = {} /\ acquired' = {t}
           Rel(t) == t \in acquired /\ acquired' = acquired \ {t}
<1>1. /\ acquired \subseteq {owner_}
      /\ acquired \subseteq Thread
      /\ ~mutex => owner_ = None
  BY DEF TicketInv, TypeOK, OwnerWasTold, SetsOfMutex
<1>2. owner_ = None => acquired = {}
  BY <1>1, NoneAssumption
<1>3. ASSUME NEW t \in Thread, Acq(t) PROVE RW!Next
  BY <1>3 DEF RW!Next, RW!AcquireExclusive
<1>4. ASSUME NEW t \in Thread, Rel(t) PROVE RW!Next
  BY <1>4 DEF RW!Next, RW!Release
<1>5. ASSUME acquired' = acquired PROVE [RW!Next]_(RW!vars)
  BY <1>5 DEF RW!vars
<1>6. ASSUME NEW t \in Thread, NEW l \in BOOLEAN, Allocate(t, l)
      PROVE  acquired' = acquired \/ Acq(t)
  BY <1>1, <1>2, <1>6 DEF Allocate
<1>7. ASSUME NEW t \in Thread, NEW a \in BOOLEAN, LockInvalid(t, a)
      PROVE  acquired' = acquired
  BY <1>7 DEF LockInvalid
<1>8. ASSUME NEW t \in Thread, Lock(t) \/ LockResumes(t) \/ TryLock(t)
      PROVE  acquired' = acquired \/ Acq(t)
  BY <1>2, <1>8 DEF Lock, LockResumes, TryLock
<1>9. ASSUME NEW t \in Thread, NEW s \in BOOLEAN, Unlock(t) \/ Destroy(t, s)
      PROVE  acquired' = acquired \/ Rel(t)
  BY <1>9 DEF Unlock, Destroy
<1>10. ASSUME NEW t \in Thread, Invalidate(t) \/ WaitersLeft(t)
       PROVE  acquired' = acquired
  BY <1>10 DEF Invalidate, WaitersLeft
<1>11. CASE UNCHANGED vars
  BY <1>5, <1>11 DEF vars
<1>12. CASE Next
  <2> HIDE DEF Acq, Rel
  <2>1. PICK t \in Thread : acquired' = acquired \/ Acq(t) \/ Rel(t)
    BY <1>6, <1>7, <1>8, <1>9, <1>10, <1>12 DEF Next
  <2> QED BY <2>1, <1>3, <1>4, <1>5
<1> QED BY <1>11, <1>12

(* The ticket lock, over its whole life, is a lock that excludes: to       *)
(* callers that use the allow-invalid Lock once it may be invalid, the     *)
(* results of Allocate, Lock and TryLock and the calls of Unlock and       *)
(* Destroy are the steps of a lock with one holder at a time.              *)
THEOREM TicketImplementsRW ==
  ASSUME ~LocksInvalid
  PROVE  Spec => ImplementsRW
<1>1. Init => RW!Init
  BY DEF Init, RW!Init
<1>2. TicketInv /\ [Next]_vars => [RW!Next]_(RW!vars)
  BY TicketRWStep
<1> QED BY <1>1, <1>2, TicketSafe, PTL DEF Spec, ImplementsRW, RW!Spec
-----------------------------------------------------------------------------
(* Zones.                                                                  *)

LEMMA LeastOf ==
  ASSUME NEW T \in SUBSET Nat, T # {}
  PROVE  \E m \in T : \A k \in T : m <= k
<1>1. ASSUME NEW k \in Nat, NEW m \in Nat, k < m
      PROVE  <<k, m>> \in OpToRel(<, Nat)
  BY <1>1, Zenon DEF OpToRel
<1>2. PICK m \in T : \A k \in T : ~(<<k, m>> \in OpToRel(<, Nat))
  BY WFMin, NatLessThanWellFounded
<1>3. \A k \in T : ~(k < m)
  BY <1>1, <1>2, Zenon
<1> QED BY <1>3

(* Arithmetic of the chunks.                                               *)
LEMMA MinOf ==
  ASSUME NEW T \in SUBSET Nat, T # {}
  PROVE  Min(T) \in T /\ \A k \in T : Min(T) <= k
BY LeastOf DEF Min

LEMMA DivMod ==
  ASSUME NEW a \in Nat, NEW b \in Nat, b > 0
  PROVE  /\ a \div b \in Nat /\ a % b \in Nat /\ a % b < b
         /\ a = b * (a \div b) + (a % b)
OBVIOUS

LEMMA ElemSize ==
  ASSUME NEW size \in Nat
  PROVE  LET e == zone_elem_adjust_size(size)
         IN  /\ e \in Nat /\ e >= 8 /\ e % 8 = 0
             /\ size <= ZONE_MAX_ALLOC_SIZE => e <= ZONE_MAX_ALLOC_SIZE
<1> DEFINE x == ((size + 7) \div 8) * 8
<1>1. /\ x \in Nat /\ x % 8 = 0
      /\ size <= 32768 => x <= 32768
  OBVIOUS
<1>2. Max({8, x}) = IF x > 8 THEN x ELSE 8
  <2>1. Max({8, x}) = CHOOSE y \in {8, x} : \A z \in {8, x} : y >= z
    BY DEF Max
  <2> HIDE DEF x
  <2>2. (IF x > 8 THEN x ELSE 8) \in {8, x}
        /\ \A z \in {8, x} : (IF x > 8 THEN x ELSE 8) >= z
    BY <1>1
  <2>3. \A y \in {8, x} : (\A z \in {8, x} : y >= z) => y = IF x > 8 THEN x ELSE 8
    BY <1>1
  <2> QED BY <2>1, <2>2, <2>3
<1>3. zone_elem_adjust_size(size) = Max({8, x})
  BY DEF zone_elem_adjust_size, ZONE_MIN_ELEM_SIZE
<1> HIDE DEF x
<1> QED BY <1>1, <1>2, <1>3 DEF ZONE_MAX_ALLOC_SIZE

LEMMA GranuleSizes ==
  /\ Granules \in SUBSET Nat /\ Granules # {}
  /\ \A n \in 1..8 : PAGE_SIZE * n \in Granules
  /\ \A g \in Granules : \E n \in 1..8 : g = PAGE_SIZE * n
BY DEF Granules, ZONE_MAX_ALLOC_SIZE, PAGE_SIZE

LEMMA FragmentationIsNat ==
  ASSUME NEW e \in Nat, e >= 8, NEW g \in Granules
  PROVE  Fragmentation(g, e) \in Nat
<1>1. g \in Nat /\ g > 0
  BY GranuleSizes DEF PAGE_SIZE
<1>2. (g % e) * 100 \in Nat
  BY <1>1, DivMod
<1> QED BY <1>1, <1>2, DivMod DEF Fragmentation

(* The chunk with the least waste has room for an element.                 *)
LEMMA LeastFragmentedFacts ==
  ASSUME NEW e \in Nat, e >= 8, e <= ZONE_MAX_ALLOC_SIZE
  PROVE  /\ LeastFragmented(e) \in Granules /\ LeastFragmented(e) >= e
         /\ \A h \in Granules :
               Fragmentation(LeastFragmented(e), e) <= Fragmentation(h, e)
<1> DEFINE F == {Fragmentation(g, e) : g \in Granules}
           least == Min(F)
           G == {g \in Granules : Fragmentation(g, e) = least}
           g == Min(G)
<1>1. F \in SUBSET Nat /\ F # {}
  BY FragmentationIsNat, GranuleSizes
<1> HIDE DEF F
<1>2. least \in F /\ \A k \in F : least <= k
  BY <1>1, MinOf
<1> HIDE DEF least
<1>3. G \in SUBSET Nat /\ G # {}
  BY <1>2, GranuleSizes DEF F
<1>4. g \in G
  BY <1>3, MinOf
<1>5. LeastFragmented(e) = g
  BY DEF LeastFragmented, g, G, least, F
<1>6. g \in Granules /\ \A h \in Granules : Fragmentation(g, e) <= Fragmentation(h, e)
  BY <1>2, <1>4 DEF F
<1> HIDE DEF g
<1>7. g >= e
  <2>1. 32768 \in Granules
    BY GranuleSizes DEF PAGE_SIZE
  <2>2. Fragmentation(32768, e) <= 99
    BY DivMod DEF Fragmentation, ZONE_MAX_ALLOC_SIZE
  <2>3. ASSUME g < e PROVE Fragmentation(g, e) = 100
    <3>1. g \in Nat /\ g > 0
      BY <1>6, GranuleSizes DEF PAGE_SIZE
    <3>2. g % e = g
      BY <2>3, <3>1
    <3> QED BY <3>1, <3>2 DEF Fragmentation
  <2>4. Fragmentation(g, e) <= 99
    BY <1>6, <2>1, <2>2, FragmentationIsNat
  <2> QED BY <1>6, <2>3, <2>4, GranuleSizes
<1> QED BY <1>5, <1>6, <1>7

(* Rounding: a percentage that is not larger, rounded down, is larger by   *)
(* less than one.                                                          *)
LEMMA LessWaste ==
  ASSUME NEW a \in Nat, NEW g \in Nat, NEW b \in Nat, NEW h \in Nat,
         g > 0, h > 0, a \div g <= b \div h
  PROVE  a * h <= b * g + g * h
<1> DEFINE q == a \div g
           r == b \div h
<1>1. q \in Nat /\ r \in Nat /\ q <= r /\ a <= g * q + g /\ h * r <= b
  BY DivMod
<1> HIDE DEF q, r
<1>2. a * h <= (g * q + g) * h
  BY <1>1
<1>3. (g * q + g) * h = g * h * q + g * h
  BY <1>1
<1>4. g * h * q <= g * h * r
  BY <1>1
<1>5. g * h * r = (h * r) * g /\ (h * r) * g <= b * g
  BY <1>1
<1> QED BY <1>1, <1>2, <1>3, <1>4, <1>5

LEMMA ScaledDown ==
  ASSUME NEW x \in Nat, NEW y \in Nat, NEW m \in Nat, NEW n \in Nat,
         (x * 100) * (4096 * m) <= (y * 100) * (4096 * n) + (4096 * n) * (4096 * m)
  PROVE  100 * m * x <= 100 * n * y + m * n * 4096
<1>1. /\ (x * 100) * (4096 * m) = 4096 * (100 * m * x)
      /\ (y * 100) * (4096 * n) = 4096 * (100 * n * y)
      /\ (4096 * n) * (4096 * m) = 4096 * (m * n * 4096)
  OBVIOUS
<1> DEFINE a == 100 * m * x
           b == 100 * n * y
           c == m * n * 4096
<1>2. a \in Nat /\ b \in Nat /\ c \in Nat /\ 4096 * a <= 4096 * b + 4096 * c
  BY <1>1
<1> HIDE DEF a, b, c
<1>3. a <= b + c
  BY <1>2
<1> QED BY <1>3 DEF a, b, c

(* The sizes fit the 16 bits of the fields.                                *)
LEMMA FieldsHold ==
  ASSUME NEW e \in Nat, e >= 8, e <= 32768, NEW n \in 1..8
  PROVE  LET chunk == PAGE_SIZE * n
         IN  /\ e % 65536 = e
             /\ (chunk \div PAGE_SIZE) % 65536 = n
             /\ (chunk \div e) % 65536 = chunk \div e
             /\ (chunk % e) % 65536 = chunk % e
             /\ chunk \div e \in Nat /\ chunk % e \in Nat
             /\ (chunk \div e) * e + (chunk % e) = n * PAGE_SIZE
             /\ e <= chunk => chunk \div e > 0
<1> DEFINE c == 4096 * n
<1>1. c \in Nat /\ c <= 32768 /\ (c \div 4096) % 65536 = n /\ c = n * 4096
  OBVIOUS
<1> HIDE DEF c
<1>2. /\ c \div e \in Nat /\ c % e \in Nat /\ c % e < e
      /\ c = e * (c \div e) + (c % e)
  BY <1>1, DivMod
<1>3. c \div e <= c
  <2>1. 1 * (c \div e) <= e * (c \div e)
    BY <1>2
  <2> QED BY <1>1, <1>2, <2>1
<1>4. e <= c => c \div e > 0
  BY <1>1, <1>2
<1>5. (c \div e) % 65536 = c \div e /\ (c % e) % 65536 = c % e /\ e % 65536 = e
  BY <1>1, <1>2, <1>3
<1>6. (c \div e) * e + (c % e) = n * 4096
  BY <1>1, <1>2
<1> QED BY <1>1, <1>2, <1>4, <1>5, <1>6 DEF c, PAGE_SIZE

(* zone_get_min_alloc_granule gives a zone that is not per-cpu or          *)
(* read-only a chunk without waste, or one with the least.                 *)
LEMMA PlainGranule ==
  ASSUME NEW e \in Nat, e >= 8, e <= 32768, NEW flags \in {"plain", "destructible"}
  PROVE  LET alloc == zone_get_min_alloc_granule(e, flags)
         IN  /\ \E n \in 1..8 : alloc = PAGE_SIZE * n
             /\ alloc >= e
             /\ \A h \in Granules :
                   alloc % e = 0 \/ Fragmentation(alloc, e) <= Fragmentation(h, e)
<1> DEFINE alloc == zone_get_min_alloc_granule(e, flags)
<1>1. CASE e % PAGE_SIZE = 0
  <2>1. e \div 4096 \in 1..8 /\ e = 4096 * (e \div 4096) /\ e % e = 0
    BY <1>1 DEF PAGE_SIZE
  <2>2. alloc = e
    BY <1>1 DEF zone_get_min_alloc_granule
  <2> QED BY <2>1, <2>2 DEF PAGE_SIZE
<1>2. CASE e % PAGE_SIZE # 0 /\ PAGE_SIZE % e = 0
  <2>1. 4096 >= e /\ 1 \in 1..8 /\ PAGE_SIZE = PAGE_SIZE * 1
    BY <1>2 DEF PAGE_SIZE
  <2>2. alloc = PAGE_SIZE
    BY <1>2 DEF zone_get_min_alloc_granule
  <2> QED BY <1>2, <2>1, <2>2 DEF PAGE_SIZE
<1>3. CASE e % PAGE_SIZE # 0 /\ PAGE_SIZE % e # 0
  <2>1. alloc = LeastFragmented(e)
    BY <1>3 DEF zone_get_min_alloc_granule
  <2>2. /\ alloc \in Granules /\ alloc >= e
        /\ \A h \in Granules : Fragmentation(alloc, e) <= Fragmentation(h, e)
    BY <2>1, LeastFragmentedFacts DEF ZONE_MAX_ALLOC_SIZE
  <2> HIDE DEF alloc
  <2>3. \E n \in 1..8 : alloc = PAGE_SIZE * n
    BY <2>2, GranuleSizes
  <2> QED BY <2>2, <2>3 DEF alloc
<1> QED BY <1>1, <1>2, <1>3

LEMMA ZoneHoldsElements ==
  ASSUME NEW size \in Nat, size <= ZONE_MAX_ALLOC_SIZE, NEW flags \in Flags,
         ~TooFragmented(size, flags)
  PROVE  /\ Zone(size, flags) \in
              [flags : Flags, z_elem_size : Nat, z_chunk_pages : Nat,
               z_chunk_elems : Nat, z_elem_offs : Nat]
         /\ Zone(size, flags).flags = flags
         /\ HoldsElements(Zone(size, flags))
<1> DEFINE e == zone_elem_adjust_size(size)
           alloc == zone_get_min_alloc_granule(e, flags)
           chunk == IF flags = "percpu" THEN PAGE_SIZE ELSE alloc
           zone == Zone(size, flags)
<1>1. e \in Nat /\ e >= 8 /\ e % 8 = 0 /\ e <= 32768
  BY ElemSize DEF ZONE_MAX_ALLOC_SIZE
<1>2. zone = [flags |-> flags, z_elem_size |-> e % 65536,
              z_chunk_pages |-> (alloc \div PAGE_SIZE) % 65536,
              z_chunk_elems |-> (chunk \div e) % 65536,
              z_elem_offs |-> (chunk % e) % 65536]
  BY DEF Zone
<1>3. flags = "percpu" => PAGE_SIZE % e <= 256
  BY <1>1, DivMod DEF TooFragmented, PAGE_SIZE
<1>4. /\ (alloc \div PAGE_SIZE) % 65536 \in Nat
      /\ \E n \in 1..8 : /\ chunk = PAGE_SIZE * n
                         /\ flags = "percpu" => n = 1
                         /\ flags # "percpu" => (alloc \div PAGE_SIZE) % 65536 = n
      /\ flags # "readonly" => e <= chunk
  <2>1. CASE flags = "percpu"
    <3>1. alloc = PAGE_SIZE * NumCpus /\ NumCpus \in Nat
      BY <2>1, ZonesAssumption DEF zone_get_min_alloc_granule
    <3>2. chunk = PAGE_SIZE * 1 /\ 1 \in 1..8
      BY <2>1 DEF PAGE_SIZE
    <3>3. e <= PAGE_SIZE
      BY <1>1, <1>3, <2>1 DEF PAGE_SIZE
    <3> QED BY <2>1, <3>1, <3>2, <3>3 DEF PAGE_SIZE
  <2>2. CASE flags = "readonly"
    <3>1. alloc = PAGE_SIZE * 1 /\ chunk = alloc /\ 1 \in 1..8
      BY <2>2 DEF zone_get_min_alloc_granule, PAGE_SIZE
    <3> QED BY <2>2, <3>1 DEF PAGE_SIZE
  <2>3. CASE flags \in {"plain", "destructible"}
    <3>1. PICK n \in 1..8 : alloc = PAGE_SIZE * n
      BY <1>1, <2>3, PlainGranule
    <3>2. alloc >= e /\ chunk = alloc
      BY <1>1, <2>3, PlainGranule
    <3> QED BY <2>3, <3>1, <3>2 DEF PAGE_SIZE
  <2> QED BY <2>1, <2>2, <2>3 DEF Flags
<1>5. flags \in {"plain", "destructible"} => \A h \in Granules :
         chunk % e = 0 \/ Fragmentation(chunk, e) <= Fragmentation(h, e)
  BY <1>1, PlainGranule
<1> HIDE DEF e, alloc, chunk, zone
<1>6. PICK n \in 1..8 : /\ chunk = PAGE_SIZE * n
                        /\ flags = "percpu" => n = 1
                        /\ flags # "percpu" => (alloc \div PAGE_SIZE) % 65536 = n
  BY <1>4
<1>7. /\ e % 65536 = e
      /\ (chunk \div e) % 65536 = chunk \div e
      /\ (chunk % e) % 65536 = chunk % e
      /\ chunk \div e \in Nat /\ chunk % e \in Nat
      /\ (chunk \div e) * e + (chunk % e) = n * PAGE_SIZE
      /\ e <= chunk => chunk \div e > 0
  BY <1>1, <1>6, FieldsHold
<1>8. /\ zone.flags = flags /\ zone.z_elem_size = e
      /\ flags # "percpu" => zone.z_chunk_pages = n
      /\ zone.z_chunk_elems = chunk \div e /\ zone.z_elem_offs = chunk % e
  BY <1>2, <1>4, <1>6, <1>7
<1>9. zone \in [flags : Flags, z_elem_size : Nat, z_chunk_pages : Nat,
                z_chunk_elems : Nat, z_elem_offs : Nat]
  BY <1>1, <1>2, <1>4, <1>7
<1>10. ASSUME flags \in {"plain", "destructible"}, NEW m \in 1..8
       PROVE  100 * m * (chunk % e) <=
                 100 * n * ((m * PAGE_SIZE) % e) + m * n * PAGE_SIZE
  <2> DEFINE h == PAGE_SIZE * m
  <2>1. CASE chunk % e = 0
    <3>1. (m * 4096) % e \in Nat
      BY <1>1, DivMod
    <3> DEFINE y == (m * 4096) % e
    <3> HIDE DEF y
    <3>2. 100 * m * 0 <= 100 * n * y + m * n * 4096
      <4>1. y \in Nat /\ 100 * n * y \in Nat /\ m * n * 4096 \in Nat
        BY <3>1 DEF y
      <4> QED BY <4>1
    <3> QED BY <2>1, <3>2 DEF y, PAGE_SIZE
  <2>2. CASE Fragmentation(chunk, e) <= Fragmentation(h, e)
    <3>1. ((chunk % e) * 100) * h <= ((h % e) * 100) * chunk + chunk * h
      BY <1>1, <1>6, <1>7, <2>2, LessWaste, DivMod DEF Fragmentation, PAGE_SIZE
    <3> DEFINE x == chunk % e
               y == h % e
    <3>2. x \in Nat /\ y \in Nat /\ m \in Nat /\ n \in Nat /\ h = m * PAGE_SIZE
      BY <1>1, <1>7, DivMod DEF PAGE_SIZE
    <3>3. (x * 100) * (4096 * m) <= (y * 100) * (4096 * n) + (4096 * n) * (4096 * m)
      BY <1>6, <3>1 DEF PAGE_SIZE
    <3> HIDE DEF x, y
    <3>4. 100 * m * x <= 100 * n * y + m * n * 4096
      BY <3>2, <3>3, ScaledDown
    <3>5. y = (m * PAGE_SIZE) % e
      BY <3>2 DEF y
    <3> QED BY <3>4, <3>5 DEF x, PAGE_SIZE
  <2> QED BY <1>5, <1>10, <2>1, <2>2, GranuleSizes
<1>11. HoldsElements(zone)
  <2> DEFINE pages == IF zone.flags = "percpu" THEN 1 ELSE zone.z_chunk_pages
  <2>1. pages = n
    BY <1>6, <1>8
  <2> HIDE DEF pages
  <2>2. /\ zone.z_elem_size % 8 = 0
        /\ zone.z_chunk_elems * zone.z_elem_size + zone.z_elem_offs =
              pages * PAGE_SIZE
    BY <1>1, <1>7, <1>8, <2>1
  <2>3. zone.flags # "readonly" => zone.z_chunk_elems > 0
    BY <1>4, <1>7, <1>8
  <2>4. zone.flags \notin {"readonly", "percpu"} =>
           \A m \in 1..8 : 100 * m * zone.z_elem_offs <=
              100 * pages * ((m * PAGE_SIZE) % zone.z_elem_size)
              + m * pages * PAGE_SIZE
    BY <1>8, <1>10, <2>1 DEF Flags
  <2> QED BY <2>2, <2>3, <2>4 DEF HoldsElements, ZONE_MIN_ELEM_SIZE, pages
<1> QED BY <1>8, <1>9, <1>11 DEF zone
-----------------------------------------------------------------------------
(* The registry.                                                           *)

LEMMA InitZonesInv == ZonesInit => ZonesInv
<1> SUFFICES ASSUME ZonesInit PROVE ZonesInv
  OBVIOUS
<1>1. DOMAIN zone_array = {} /\ zone_array \in [{} -> {}]
  BY DEF ZonesInit
<1>2. Views = {}
  BY DEF ZonesInit, Views
<1>3. FIRST_DYNAMIC..(0 - 1) = {} /\ 0 <= MAX_ZONES
  BY ZonesAssumption
<1>4. Cardinality({}) = 0
  BY FS_EmptySet
<1>5. ZonesRegistered
  BY <1>1, <1>2, <1>3, <1>4 DEF ZonesInit, ZonesRegistered
<1>6. ZonesTypeOK
  <2>1. z_views \in [Id -> 0..MaxViews] /\ zone_security_array \in [Id -> KheapId]
    BY ZonesAssumption DEF ZonesInit, KheapId
  <2> QED BY <1>1, <2>1 DEF ZonesInit, ZonesTypeOK
<1> QED BY <1>1, <1>5, <1>6 DEF ZonesInv, ChunksHoldElements

LEMMA PanicInv == ASSUME ZonesInv, Panic PROVE ZonesInv'
BY DEF ZonesInv, Panic, ZonesTypeOK, ZonesRegistered, Views, ChunksHoldElements

LEMMA CreateZoneInv ==
  ASSUME ZonesInv, NEW size \in Nat, NEW flags \in Flags,
         NEW zid \in {ANY} \union Id, NEW kheap \in KheapId,
         zone_create_ext(size, flags, zid, kheap)
  PROVE  ZonesInv'
<1> DEFINE nzones == Reserved(num_zones)
           id == IF zid = ANY THEN nzones ELSE zid
           zone == Zone(size, flags)
           D == DOMAIN zone_array
<1>1. CASE Panic
  BY <1>1, PanicInv
<1>2. CASE ~Panic
  <2>1. /\ size <= ZONE_MAX_ALLOC_SIZE /\ num_zones < MAX_ZONES
        /\ ~InvalidId(flags, zid) /\ ~TooFragmented(size, flags)
    BY <1>2, ZonesAssumption
       DEF zone_create_ext, ZonesInv, ZonesTypeOK, ZONE_MAX_ALLOC_SIZE
  <2>2. /\ zone_array' = [z \in D \union {id} |->
                            IF z = id THEN zone ELSE zone_array[z]]
        /\ num_zones' = IF zid = ANY THEN nzones + 1 ELSE nzones
        /\ num_zones_in_use' = num_zones_in_use + 1
        /\ zone_security_array' = [zone_security_array EXCEPT ![id] = kheap]
        /\ UNCHANGED <<z_views, zone_view_count, panicked>>
    BY <1>2 DEF zone_create_ext, zone_create_find
  <2>3. /\ zone \in [flags : Flags, z_elem_size : Nat, z_chunk_pages : Nat,
                     z_chunk_elems : Nat, z_elem_offs : Nat]
        /\ zone.flags = flags /\ HoldsElements(zone)
    BY <2>1, ZoneHoldsElements
  <2> HIDE DEF zone
  <2>4. /\ num_zones \in Nat /\ nzones \in Nat /\ nzones >= FIRST_DYNAMIC
        /\ num_zones <= nzones /\ nzones < MAX_ZONES
        /\ FIRST_DYNAMIC \in Nat /\ MAX_ZONES \in Nat
        /\ num_zones >= FIRST_DYNAMIC => nzones = num_zones
        /\ num_zones < FIRST_DYNAMIC => nzones = FIRST_DYNAMIC
    BY <2>1, ZonesAssumption DEF ZonesInv, ZonesTypeOK, Reserved
  <2>5. /\ ZonesTypeOK /\ D \subseteq 0..(num_zones - 1)
        /\ {z \in D : z >= FIRST_DYNAMIC} = FIRST_DYNAMIC..(num_zones - 1)
        /\ Cardinality(D) = num_zones_in_use
    BY DEF ZonesInv, ZonesRegistered
  <2>6. /\ zid # ANY => /\ zid \in Nat /\ zid < FIRST_DYNAMIC
                        /\ flags # "destructible" /\ zid \notin D
    BY <2>1, ZonesAssumption DEF InvalidId, Id
  <2>7. id \in Nat /\ id \notin D /\ id \in 0..(num_zones' - 1) /\ num_zones' \in Nat
        /\ num_zones' >= nzones /\ num_zones' <= MAX_ZONES
    BY <2>2, <2>4, <2>5, <2>6
  <2>8. DOMAIN zone_array' = D \union {id}
    BY <2>2
  <2>9. /\ \A z \in D : zone_array'[z] = zone_array[z]
        /\ zone_array'[id] = zone
    BY <2>2, <2>7
  <2>10. Cardinality(D \union {id}) = num_zones_in_use + 1
    <3>1. IsFiniteSet(D)
      <4>1. IsFiniteSet(0..(num_zones - 1))
        BY <2>4, FS_Interval
      <4> QED BY <2>5, <4>1, FS_Subset
    <3> QED BY <2>5, <2>7, <3>1, FS_AddElement
  <2>11. D \union {id} \subseteq 0..(num_zones' - 1)
    BY <2>4, <2>5, <2>7
  <2>12. {z \in D \union {id} : z >= FIRST_DYNAMIC} =
            FIRST_DYNAMIC..(num_zones' - 1)
    <3>1. CASE zid = ANY
      <4>1. id = nzones /\ num_zones' = nzones + 1
        BY <2>2, <3>1
      <4>2. FIRST_DYNAMIC..nzones = FIRST_DYNAMIC..(num_zones - 1) \union {nzones}
        BY <2>4
      <4> QED BY <2>4, <2>5, <4>1, <4>2
    <3>2. CASE zid # ANY
      <4>1. id < FIRST_DYNAMIC /\ num_zones' = nzones
        BY <2>2, <2>6, <3>2
      <4>2. FIRST_DYNAMIC..(nzones - 1) = FIRST_DYNAMIC..(num_zones - 1)
        BY <2>4
      <4> QED BY <2>4, <2>5, <2>6, <4>1, <4>2
    <3> QED BY <3>1, <3>2
  <2>13. \A z \in D \union {id} :
            zone_array'[z].flags = "destructible" => z >= FIRST_DYNAMIC
    BY <2>3, <2>4, <2>6, <2>9 DEF ZonesInv, ZonesRegistered
  <2>17. /\ id \in Id /\ z_views[id] = 0
         /\ zone_security_array' \in [Id -> KheapId]
         /\ \A z \in Id \ {id} : zone_security_array'[z] = zone_security_array[z]
    <3>1. id \in Id
      BY <2>4, <2>7 DEF Id
    <3>2. z_views[id] \in Nat /\ ~(z_views[id] > 0)
      BY <2>5, <2>7, <3>1, ZonesAssumption DEF ZonesInv, ZonesRegistered, ZonesTypeOK
    <3> QED BY <2>2, <2>5, <3>1, <3>2 DEF ZonesTypeOK
  <2>18. Views' = Views
    BY <2>2, <2>17 DEF Views
  <2>19. \A z \in Id : z_views'[z] > 0 \/ zone_security_array'[z] # "NONE"
                      => z \in D \union {id}
    BY <2>2, <2>17 DEF ZonesInv, ZonesRegistered
  <2>14. ZonesRegistered'
    BY <2>2, <2>7, <2>8, <2>10, <2>11, <2>12, <2>13, <2>18, <2>19
       DEF ZonesInv, ZonesRegistered
  <2>15. ZonesTypeOK'
    BY <2>2, <2>3, <2>5, <2>7, <2>17 DEF ZonesTypeOK
  <2>16. ChunksHoldElements'
    BY <2>3, <2>8, <2>9 DEF ZonesInv, ChunksHoldElements
  <2> QED BY <2>14, <2>15, <2>16 DEF ZonesInv
<1> QED BY <1>1, <1>2

(* The first view of a zone of no heap adds two to the count, every other  *)
(* view adds one.                                                          *)
LEMMA ViewInv ==
  ASSUME ZonesInv, NEW heapid, NEW zv_zone, NEW size \in Nat,
         heapid = "DATA_BUFFERS" \/ zv_zone \in Id,
         zone_view_startup_init(heapid, zv_zone, size)
  PROVE  ZonesInv'
<1>1. CASE Panic
  BY <1>1, PanicInv
<1>2. CASE ~Panic
  <2>0. PICK z \in Id :
           /\ z_views[z] < MaxViews /\ HoldsSize(z, size)
           /\ zone_view_count' = zone_view_count + AddedViews(z)
           /\ z_views' = [z_views EXCEPT ![z] = @ + 1]
           /\ UNCHANGED <<zone_array, num_zones, num_zones_in_use,
                          zone_security_array, panicked>>
    <3>1. kalloc_zone_for_size(size) \subseteq Id
      BY DEF kalloc_zone_for_size
    <3> QED BY <1>2, <3>1 DEF zone_view_startup_init
  <2> DEFINE n == z_views[z]
             first == n = 0 /\ zone_security_array[z] = "NONE"
  <2>1. /\ zone_view_count' = zone_view_count + (IF first THEN 2 ELSE 1)
        /\ z \in DOMAIN zone_array
    BY <2>0 DEF AddedViews, HoldsSize, zone_by_id
  <2>2. n \in Nat /\ n + 1 \in 0..MaxViews /\ MaxViews \in Nat /\ MAX_ZONES \in Nat
    BY <2>0, ZonesAssumption DEF ZonesInv, ZonesTypeOK
  <2>3. z_views' \in [Id -> 0..MaxViews]
        /\ \A y \in Id : z_views'[y] = IF y = z THEN n + 1 ELSE z_views[y]
    BY <2>0, <2>2 DEF ZonesInv, ZonesTypeOK
  <2>4. Views' = Views \union {<<z, n + 1>>} \union (IF first THEN {<<z, 0>>} ELSE {})
    BY <2>0, <2>2, <2>3 DEF Views, ZonesInv, ZonesTypeOK
  <2>5. /\ <<z, n + 1>> \notin Views
        /\ first => <<z, 0>> \notin Views
    BY <2>2 DEF Views
  <2>6. IsFiniteSet(Views)
    <3>1. IsFiniteSet(Id) /\ IsFiniteSet(0..MaxViews)
      BY <2>2, FS_Interval DEF Id
    <3>2. IsFiniteSet(Id \X (0..MaxViews))
      BY <3>1, FS_Product
    <3>3. Views \subseteq Id \X (0..MaxViews)
      BY DEF Views
    <3> QED BY <3>2, <3>3, FS_Subset
  <2>7. Cardinality(Views') = Cardinality(Views) + (IF first THEN 2 ELSE 1)
    <3>1. /\ IsFiniteSet(Views \union {<<z, n + 1>>})
          /\ Cardinality(Views \union {<<z, n + 1>>}) = Cardinality(Views) + 1
          /\ Cardinality(Views) \in Nat
      BY <2>5, <2>6, FS_AddElement, FS_CardinalityType
    <3>2. CASE first
      <4>1. <<z, 0>> \notin Views \union {<<z, n + 1>>}
        BY <2>2, <2>5, <3>2
      <4>2. Cardinality((Views \union {<<z, n + 1>>}) \union {<<z, 0>>}) =
               Cardinality(Views \union {<<z, n + 1>>}) + 1
        BY <3>1, <4>1, FS_AddElement
      <4> QED BY <2>4, <3>1, <3>2, <4>2
    <3>3. CASE ~first
      BY <2>4, <3>1, <3>3
    <3> QED BY <3>2, <3>3
  <2>8. ZonesRegistered'
    <3> HIDE DEF first
    <3> QED BY <2>0, <2>1, <2>3, <2>7 DEF ZonesInv, ZonesRegistered
  <2>9. ZonesTypeOK' /\ ChunksHoldElements'
    BY <2>0, <2>1, <2>3 DEF ZonesInv, ZonesTypeOK, ChunksHoldElements
  <2> QED BY <2>8, <2>9 DEF ZonesInv
<1> QED BY <1>1, <1>2

LEMMA NextZonesInv == ZonesInv /\ [ZonesNext]_zones => ZonesInv'
<1> SUFFICES ASSUME ZonesInv, [ZonesNext]_zones PROVE ZonesInv'
  OBVIOUS
<1>1. CASE UNCHANGED zones
  BY <1>1 DEF ZonesInv, ZonesTypeOK, ZonesRegistered, Views,
              ChunksHoldElements, zones
<1>2. CASE ZonesNext
  BY <1>2, CreateZoneInv, ViewInv, ZonesAssumption DEF ZonesNext, KheapId, Flags
<1> QED BY <1>1, <1>2

(* zalloc.c: for any length of zone_array, any number of fixed identifiers *)
(* and of processors, and zones and views of any size.                     *)
THEOREM ZonesSafe == ZonesSpec => []ZonesInv
BY InitZonesInv, NextZonesInv, PTL DEF ZonesSpec

(* Every zone that zone_create_ext made has an identifier of its own,      *)
(* where the kernel looks for it, and zone_view_count counts the views,    *)
(* whether zones are of a heap or not.                                     *)
THEOREM ZonesStayRegistered == ZonesSpec => []ZonesRegistered
<1>1. ZonesInv => ZonesRegistered
  BY DEF ZonesInv
<1> QED BY <1>1, ZonesSafe, PTL

(* Chunks hold whole elements and waste as little as they can.             *)
THEOREM ZonesHoldElements == ZonesSpec => []ChunksHoldElements
<1>1. ZonesInv => ChunksHoldElements
  BY DEF ZonesInv
<1> QED BY <1>1, ZonesSafe, PTL
-----------------------------------------------------------------------------
(* Sequences without repetition, as stacks and as lists.                   *)
LEMMA SeqSet ==
  ASSUME NEW S, NEW s \in Seq(S)
  PROVE  /\ Len(s) \in Nat
         /\ \A x : x \in ToSet(s) <=> \E i \in 1..Len(s) : x = s[i]
         /\ IsInjective(s) <=> \A i, j \in 1..Len(s) : s[i] = s[j] => i = j
         /\ s = <<>> <=> Len(s) = 0
         /\ ToSet(s) \subseteq S
<1>1. Len(s) \in Nat /\ DOMAIN s = 1..Len(s) /\ s \in [1..Len(s) -> S]
  BY LenProperties
<1>2. s = <<>> <=> Len(s) = 0
  BY EmptySeq
<1> QED BY <1>1, <1>2 DEF ToSet, IsInjective

LEMMA OneMore ==
  ASSUME NEW S, NEW r \in Seq(S), NEW s \in Seq(S), Len(r) = Len(s) + 1,
         \A i \in 1..Len(s) : r[i] = s[i]
  PROVE  /\ ToSet(r) = ToSet(s) \union {r[Len(r)]}
         /\ IsInjective(r) <=> IsInjective(s) /\ r[Len(r)] \notin ToSet(s)
<1>1. Len(s) \in Nat /\ \A i \in 1..Len(r) : i \in 1..Len(s) \/ i = Len(r)
  BY SeqSet
<1>2. \A x : x \in ToSet(r) <=> x \in ToSet(s) \/ x = r[Len(r)]
  BY <1>1, SeqSet
<1>3. IsInjective(r) <=> IsInjective(s) /\ r[Len(r)] \notin ToSet(s)
  BY <1>1, SeqSet
<1> QED BY <1>2, <1>3

LEMMA AppendSet ==
  ASSUME NEW S, NEW s \in Seq(S), NEW e \in S
  PROVE  /\ Append(s, e) \in Seq(S) /\ Append(s, e) # <<>>
         /\ Len(Append(s, e)) = Len(s) + 1
         /\ ToSet(Append(s, e)) = ToSet(s) \union {e}
         /\ IsInjective(s) /\ e \notin ToSet(s) => IsInjective(Append(s, e))
<1> DEFINE r == Append(s, e)
<1>1. /\ r \in Seq(S) /\ r # <<>> /\ Len(r) = Len(s) + 1
      /\ \A i \in 1..Len(s) : r[i] = s[i]
      /\ r[Len(r)] = e
  BY AppendProperties
<1> HIDE DEF r
<1>2. /\ ToSet(r) = ToSet(s) \union {r[Len(r)]}
      /\ IsInjective(r) <=> IsInjective(s) /\ r[Len(r)] \notin ToSet(s)
  BY <1>1, OneMore
<1>3. /\ r \in Seq(S) /\ r # <<>> /\ Len(r) = Len(s) + 1
      /\ ToSet(r) = ToSet(s) \union {e}
      /\ IsInjective(s) /\ e \notin ToSet(s) => IsInjective(r)
  BY <1>1, <1>2
<1> QED BY <1>3 DEF r

LEMMA FrontSet ==
  ASSUME NEW S, NEW s \in Seq(S), s # <<>>, IsInjective(s)
  PROVE  /\ Front(s) \in Seq(S) /\ IsInjective(Front(s))
         /\ Last(s) \in ToSet(s)
         /\ ToSet(Front(s)) = ToSet(s) \ {Last(s)}
         /\ Front(s) # <<>> <=> Len(s) > 1
<1>1. Len(s) \in Nat /\ Len(s) > 0 /\ \A i \in 1..Len(s) : s[i] \in S
  BY SeqSet, LenProperties
<1>2. /\ Front(s) \in Seq(S) /\ Len(Front(s)) = Len(s) - 1
      /\ \A i \in 1..Len(Front(s)) : Front(s)[i] = s[i]
  <2> DEFINE n == Len(s) - 1
             r == SubSeq(s, 1, n)
  <2>1. n \in Nat /\ \A i \in 1..n : s[i] \in S
    BY <1>1
  <2> HIDE DEF n
  <2>2. /\ r \in Seq(S) /\ Len(r) = IF 1 <= n THEN n - 1 + 1 ELSE 0
        /\ \A i \in 1..(n - 1 + 1) : r[i] = s[1 + i - 1]
    BY <2>1, SubSeqProperties
  <2> HIDE DEF r
  <2>3. Len(r) = n /\ \A i \in 1..n : r[i] = s[i]
    BY <2>1, <2>2
  <2> QED BY <2>2, <2>3 DEF Front, n, r
<1>3. /\ ToSet(s) = ToSet(Front(s)) \union {Last(s)}
      /\ IsInjective(Front(s)) /\ Last(s) \notin ToSet(Front(s))
  BY <1>1, <1>2, OneMore DEF Last
<1>4. Front(s) # <<>> <=> Len(s) > 1
  BY <1>1, <1>2, SeqSet
<1> QED BY <1>2, <1>3, <1>4

LEMMA TailSet ==
  ASSUME NEW S, NEW s \in Seq(S), s # <<>>, IsInjective(s)
  PROVE  /\ Tail(s) \in Seq(S) /\ IsInjective(Tail(s))
         /\ Head(s) \in ToSet(s)
         /\ ToSet(Tail(s)) = ToSet(s) \ {Head(s)}
<1> DEFINE r == Tail(s)
<1>1. Len(s) \in Nat /\ Len(s) > 0 /\ Head(s) = s[1]
  BY SeqSet
<1>2. /\ r \in Seq(S) /\ Len(r) = Len(s) - 1
      /\ \A i \in 1..Len(r) : r[i] = s[i + 1]
  BY HeadTailProperties
<1> HIDE DEF r
<1>3. \A i, j \in 1..Len(s) : s[i] = s[j] => i = j
  BY SeqSet
<1>4. \A i \in 1..Len(r) : s[i + 1] \in ToSet(s) /\ s[i + 1] # s[1]
  <2> SUFFICES ASSUME NEW i \in 1..Len(r)
               PROVE  s[i + 1] \in ToSet(s) /\ s[i + 1] # s[1]
    OBVIOUS
  <2>1. i + 1 \in 1..Len(s) /\ i + 1 # 1 /\ 1 \in 1..Len(s)
    BY <1>1, <1>2
  <2> QED BY <1>3, <2>1, SeqSet
<1>5. \A x : x \in ToSet(r) => x \in ToSet(s) /\ x # s[1]
  BY <1>2, <1>4, SeqSet
<1>6. \A x : x \in ToSet(s) => x \in ToSet(r) \/ x = s[1]
  <2> SUFFICES ASSUME NEW i \in 1..Len(s), i # 1
               PROVE  s[i] \in ToSet(r)
    BY SeqSet
  <2>1. i - 1 \in 1..Len(r) /\ r[i - 1] = s[i]
    BY <1>1, <1>2
  <2> QED BY <1>2, <2>1, SeqSet
<1>7. \A i, j \in 1..Len(r) : r[i] = r[j] => i = j
  <2> SUFFICES ASSUME NEW i \in 1..Len(r), NEW j \in 1..Len(r), r[i] = r[j]
               PROVE  i = j
    OBVIOUS
  <2>1. i + 1 \in 1..Len(s) /\ j + 1 \in 1..Len(s) /\ s[i + 1] = s[j + 1]
    BY <1>1, <1>2
  <2>2. i + 1 = j + 1
    BY <1>3, <2>1
  <2> QED BY <1>1, <1>2, <2>2
<1>8. IsInjective(r) /\ s[1] \in ToSet(s)
  BY <1>1, <1>2, <1>7, SeqSet
<1>9. r \in Seq(S) /\ IsInjective(r) /\ ToSet(r) = ToSet(s) \ {s[1]}
  BY <1>2, <1>5, <1>6, <1>8
<1> QED BY <1>1, <1>8, <1>9 DEF r

LEMMA ReverseSet ==
  ASSUME NEW S, NEW s \in Seq(S), IsInjective(s)
  PROVE  /\ Reverse(s) \in Seq(S) /\ IsInjective(Reverse(s))
         /\ ToSet(Reverse(s)) = ToSet(s)
<1>1. Len(s) \in Nat /\ \A i \in 1..Len(s) : s[i] \in S
  BY SeqSet, LenProperties
<1>2. /\ Reverse(s) \in Seq(S) /\ Len(Reverse(s)) = Len(s)
      /\ \A i \in 1..Len(s) : Reverse(s)[i] = s[(Len(s) - i) + 1]
  <2>1. Reverse(s) \in [1..Len(s) -> S]
    BY <1>1 DEF Reverse
  <2>2. Reverse(s) \in Seq(S)
    BY <1>1, <2>1, SeqDef
  <2> QED BY <1>1, <2>1, <2>2, LenProperties DEF Reverse
<1>3. \A x : x \in ToSet(Reverse(s)) => x \in ToSet(s)
  <2> SUFFICES ASSUME NEW i \in 1..Len(s) PROVE Reverse(s)[i] \in ToSet(s)
    BY <1>2, SeqSet
  <2>1. (Len(s) - i) + 1 \in 1..Len(s)
    BY <1>1
  <2> QED BY <1>2, <2>1, SeqSet
<1>4. \A x : x \in ToSet(s) => x \in ToSet(Reverse(s))
  <2> SUFFICES ASSUME NEW i \in 1..Len(s) PROVE s[i] \in ToSet(Reverse(s))
    BY SeqSet
  <2>1. /\ (Len(s) - i) + 1 \in 1..Len(Reverse(s))
        /\ Reverse(s)[(Len(s) - i) + 1] = s[i]
    BY <1>1, <1>2
  <2> QED BY <1>2, <2>1, SeqSet
<1>5. IsInjective(Reverse(s))
  <2> SUFFICES ASSUME NEW i \in 1..Len(s), NEW j \in 1..Len(s),
                      Reverse(s)[i] = Reverse(s)[j]
               PROVE  i = j
    BY <1>2, SeqSet
  <2>1. (Len(s) - i) + 1 \in 1..Len(s) /\ (Len(s) - j) + 1 \in 1..Len(s)
    BY <1>1
  <2>2. \A k, l \in 1..Len(s) : s[k] = s[l] => k = l
    BY SeqSet
  <2>3. s[(Len(s) - i) + 1] = s[(Len(s) - j) + 1]
    BY <1>2
  <2>4. (Len(s) - i) + 1 = (Len(s) - j) + 1
    BY <2>1, <2>2, <2>3
  <2> QED BY <1>1, <2>4
<1> QED BY <1>2, <1>3, <1>4, <1>5

LEMMA NothingSet ==
  ASSUME NEW s \in Seq(Elem)
  PROVE  /\ s = <<>> <=> Len(s) = 0
         /\ s = <<>> => ToSet(s) = {} /\ IsInjective(s)
<1>1. /\ \A x : x \in ToSet(s) <=> \E i \in 1..Len(s) : x = s[i]
      /\ IsInjective(s) <=> \A i, j \in 1..Len(s) : s[i] = s[j] => i = j
      /\ s = <<>> <=> Len(s) = 0
  BY SeqSet
<1>2. Len(s) = 0 => \A i : i \notin 1..Len(s)
  OBVIOUS
<1> QED BY <1>1, <1>2, Zenon
-----------------------------------------------------------------------------
(* What has been allocated and who has it.                                 *)
Owned == /\ ~doubleFree
         /\ allocated = Held \union dropped
         /\ Held \intersect dropped = {}
         /\ \A t \in KernelThread : IsInjective(stack[t])
         /\ \A t, u \in KernelThread :
               t # u => ToSet(stack[t]) \intersect ToSet(stack[u]) = {}

(* What is known of one thread.                                            *)
Fits(t) == /\ ~Doing(t, "listed") => (head[t] <=> stack[t] # <<>>)
           /\ doing[t] \in {"idle", "raising"} => stack[t] = <<>>
           /\ doing[t] \in {"idle", "raising", "stacked", "listed"} => failed[t] = 0
           /\ Doing(t, "listed") => ~head[t]
           /\ Doing(t, "allocating") =>
                 /\ ToSet(stack[t]) \subseteq marked
                 /\ Len(stack[t]) + failed[t] + left[t] = count[t]
           /\ Doing(t, "cached") =>
                 /\ ToSet(stack[t]) \subseteq marked
                 /\ stack[t] = <<>> \/ Len(stack[t]) + failed[t] = count[t]

LEMMA PartsOfElementsInv ==
  ElementsInv <=> /\ ElementsTypeOK /\ Owned
                  /\ \A t \in KernelThread : Fits(t)
                  /\ CopiesAreOld /\ ReserveReached
BY DEF ElementsInv, ElementsAccounted, CallsBeginEmpty, LoopCounts,
       AllOrNothing, Owned, Fits

LEMMA HeldBySome ==
  \A x : x \in Held <=> \E t \in KernelThread : x \in ToSet(stack[t])
BY DEF Held

LEMMA InitElementsInv == ElementsInit => ElementsInv
<1> SUFFICES ASSUME ElementsInit PROVE ElementsInv
  OBVIOUS
<1>1. \A t \in KernelThread : /\ stack[t] = <<>> /\ stack[t] \in Seq(Elem)
                        /\ ToSet(stack[t]) = {} /\ IsInjective(stack[t])
  BY NothingSet, EmptySeq DEF ElementsInit
<1>2. ElementsTypeOK
  <2>1. stack \in [KernelThread -> Seq(Elem)]
    BY EmptySeq DEF ElementsInit
  <2>2. /\ doing \in [KernelThread -> Pc] /\ head \in [KernelThread -> BOOLEAN]
        /\ {count, left, failed, request, expected} \subseteq [KernelThread -> Nat]
    BY DEF ElementsInit, Pc
  <2> QED BY <2>1, <2>2 DEF ElementsInit, ElementsTypeOK
<1>3. Owned
  BY <1>1, HeldBySome DEF ElementsInit, Owned
<1>4. \A t \in KernelThread : Fits(t)
  BY <1>1 DEF ElementsInit, Fits, Doing
<1> QED
  BY <1>2, <1>3, <1>4, PartsOfElementsInv
     DEF ElementsInit, CopiesAreOld, ReserveReached, Doing

(* A step of thread t that changes its stack only.                         *)
LEMMA OneStack ==
  ASSUME ElementsTypeOK, NEW t \in KernelThread, NEW s \in Seq(Elem),
         stack' = [stack EXCEPT ![t] = s]
  PROVE  /\ \A u \in KernelThread : stack'[u] = IF u = t THEN s ELSE stack[u]
         /\ \A x : x \in Held' <=>
               x \in ToSet(s) \/ \E u \in KernelThread \ {t} : x \in ToSet(stack[u])
         /\ \A x : x \in Held <=>
               \/ x \in ToSet(stack[t])
               \/ \E u \in KernelThread \ {t} : x \in ToSet(stack[u])
<1>1. \A u \in KernelThread : stack'[u] = IF u = t THEN s ELSE stack[u]
  BY DEF ElementsTypeOK
<1> QED BY <1>1 DEF Held

(* It gets elements that nobody had; of some the push fails.               *)
LEMMA Taken ==
  ASSUME ElementsTypeOK, Owned, NEW t \in KernelThread, NEW s \in Seq(Elem),
         stack' = [stack EXCEPT ![t] = s], IsInjective(s),
         NEW got, NEW lost \in SUBSET got, got \intersect allocated = {},
         ToSet(s) = ToSet(stack[t]) \union (got \ lost),
         allocated' = allocated \union got, dropped' = dropped \union lost,
         doubleFree' = doubleFree
  PROVE  Owned'
<1>1. \A u \in KernelThread : stack'[u] = IF u = t THEN s ELSE stack[u]
  BY OneStack
<1>2. Held' = Held \union (got \ lost)
  BY OneStack
<1>3. \A u \in KernelThread : ToSet(stack[u]) \intersect got = {}
  BY HeldBySome DEF Owned
<1>4. /\ ~doubleFree' /\ allocated' = Held' \union dropped'
      /\ Held' \intersect dropped' = {}
  BY <1>2 DEF Owned
<1>5. \A u \in KernelThread : IsInjective(stack'[u])
  BY <1>1 DEF Owned
<1>6. \A u, v \in KernelThread :
         u # v => ToSet(stack'[u]) \intersect ToSet(stack'[v]) = {}
  BY <1>1, <1>3 DEF Owned
<1> QED BY <1>4, <1>5, <1>6 DEF Owned

(* It frees elements of its own.                                           *)
LEMMA Given ==
  ASSUME ElementsTypeOK, Owned, NEW t \in KernelThread, NEW s \in Seq(Elem),
         stack' = [stack EXCEPT ![t] = s], IsInjective(s),
         NEW es \in SUBSET ToSet(stack[t]), ToSet(s) = ToSet(stack[t]) \ es,
         FreeAll(es), dropped' = dropped
  PROVE  Owned'
<1>1. \A u \in KernelThread : stack'[u] = IF u = t THEN s ELSE stack[u]
  BY OneStack
<1>2. \A u \in KernelThread \ {t} : ToSet(stack[u]) \intersect es = {}
  BY DEF Owned
<1>3. Held' = Held \ es /\ es \subseteq Held
  BY <1>2, OneStack
<1>4. /\ ~doubleFree' /\ allocated' = Held' \union dropped'
      /\ Held' \intersect dropped' = {}
  BY <1>3 DEF Owned, FreeAll
<1>5. \A u \in KernelThread : IsInjective(stack'[u])
  BY <1>1 DEF Owned
<1>6. \A u, v \in KernelThread :
         u # v => ToSet(stack'[u]) \intersect ToSet(stack'[v]) = {}
  BY <1>1 DEF Owned
<1> QED BY <1>4, <1>5, <1>6 DEF Owned

(* Other threads do not notice, as only elements of t lose their mark.     *)
LEMMA StepOfOne ==
  ASSUME ElementsInv, NEW t \in KernelThread, ElementsTypeOK', Owned', Fits(t)',
         \A u \in KernelThread \ {t} :
            /\ doing'[u] = doing[u] /\ stack'[u] = stack[u] /\ head'[u] = head[u]
            /\ count'[u] = count[u] /\ left'[u] = left[u]
            /\ failed'[u] = failed[u],
         marked \subseteq marked' \union ToSet(stack[t]),
         UNCHANGED reserve, doing'[t] # "raising"
  PROVE  ElementsInv'
<1>0. /\ ElementsTypeOK /\ Owned /\ \A u \in KernelThread : Fits(u)
      /\ CopiesAreOld /\ ReserveReached
  BY PartsOfElementsInv
<1>1. ASSUME NEW u \in KernelThread \ {t} PROVE Fits(u)'
  <2>1. ToSet(stack[u]) \subseteq marked => ToSet(stack[u]) \subseteq marked'
    BY <1>0 DEF Owned
  <2>2. Fits(u)
    BY <1>0
  <2> QED BY <2>1, <2>2 DEF Fits, Doing
<1>2. CopiesAreOld' /\ ReserveReached'
  BY <1>0 DEF CopiesAreOld, ReserveReached, Doing, reserve
<1>3. \A u \in KernelThread : Fits(u)'
  BY <1>1
<1> QED BY <1>2, <1>3
  DEF ElementsInv, ElementsAccounted, CallsBeginEmpty, LoopCounts,
      AllOrNothing, Owned, Fits
LEMMA ElementsFacts ==
  ASSUME ElementsInv, NEW t \in KernelThread
  PROVE  /\ ElementsTypeOK /\ Owned /\ Fits(t)
         /\ stack[t] \in Seq(Elem) /\ IsInjective(stack[t])
         /\ Len(stack[t]) \in Nat /\ ToSet(stack[t]) \subseteq Elem
BY PartsOfElementsInv, SeqSet DEF Owned, ElementsTypeOK

(* The steps that touch no element.                                        *)
LEMMA NoElementInv ==
  ASSUME ElementsInv, NEW t \in KernelThread,
         \/ \E n \in 0..MaxCount : zcache_alloc_n(t, n) \/ NoZone(t, n)
         \/ AllocFails(t) \/ AllocReturns(t) \/ zcache_free_n(t)
         \/ FreeReturns(t)
  PROVE  ElementsInv'
<1>0. /\ ElementsTypeOK /\ Owned /\ Fits(t)
      /\ stack[t] = <<>> => Len(stack[t]) = 0 /\ ToSet(stack[t]) = {}
  BY ElementsFacts, NothingSet
<1>1. UNCHANGED <<stack, head, memory, reserve>>
  BY DEF zcache_alloc_n, NoZone, AllocFails, AllocReturns, zcache_free_n,
         FreeReturns, own, call
<1>2. /\ doing' \in [KernelThread -> Pc] /\ doing'[t] # "raising"
      /\ {count', left', failed'} \subseteq [KernelThread -> Nat]
      /\ \A u \in KernelThread \ {t} : /\ doing'[u] = doing[u] /\ count'[u] = count[u]
                                 /\ left'[u] = left[u] /\ failed'[u] = failed[u]
  <2>1. /\ doing \in [KernelThread -> Pc] /\ count \in [KernelThread -> Nat]
        /\ left \in [KernelThread -> Nat] /\ failed \in [KernelThread -> Nat]
    BY <1>0 DEF ElementsTypeOK
  <2>2. CASE \E n \in 0..MaxCount : zcache_alloc_n(t, n) \/ NoZone(t, n)
    BY <2>1, <2>2, CountAssumption DEF zcache_alloc_n, NoZone, Enter, Pc
  <2>3. CASE AllocFails(t) \/ AllocReturns(t) \/ zcache_free_n(t)
    <3>1. \E p \in Pc \ {"raising"} : doing' = [doing EXCEPT ![t] = p]
      BY <2>3 DEF AllocFails, AllocReturns, zcache_free_n, Enter, Pc
    <3>2. count' = count /\ left' = left /\ failed' = failed
      BY <2>3 DEF AllocFails, AllocReturns, zcache_free_n, call
    <3> QED BY <2>1, <3>1, <3>2
  <2>4. CASE FreeReturns(t)
    BY <2>1, <2>4 DEF FreeReturns, Forget, Enter, Pc
  <2> QED BY <2>2, <2>3, <2>4
<1>3. ElementsTypeOK'
  BY <1>0, <1>1, <1>2 DEF ElementsTypeOK, memory, reserve
<1>4. Owned'
  BY <1>0, <1>1 DEF Owned, Held, memory
<1>5. Fits(t)'
  <2>1. /\ stack' = stack /\ head' = head /\ marked' = marked
        /\ doing[t] # "listed"
        /\ head[t] <=> stack[t] # <<>>
    BY <1>0, <1>1
       DEF memory, Fits, Doing, zcache_alloc_n, NoZone, AllocFails,
           AllocReturns, zcache_free_n, FreeReturns
  <2>2. CASE \E n \in 0..MaxCount : zcache_alloc_n(t, n)
    <3>1. PICK n \in 0..MaxCount : zcache_alloc_n(t, n)
      BY <2>2
    <3>2. /\ doing'[t] = "allocating" /\ count'[t] = n /\ left'[t] = n
          /\ failed'[t] = 0 /\ stack[t] = <<>> /\ n \in Nat
      BY <1>0, <3>1, CountAssumption
         DEF zcache_alloc_n, Enter, ElementsTypeOK, Fits, Doing
    <3> QED BY <1>0, <2>1, <3>2 DEF Fits, Doing
  <2>3. CASE \E n \in 0..MaxCount : NoZone(t, n)
    <3>1. doing'[t] = "cached" /\ stack[t] = <<>>
      BY <1>0, <2>3 DEF NoZone, Enter, ElementsTypeOK, Fits, Doing
    <3> QED BY <1>0, <2>1, <3>1 DEF Fits, Doing
  <2>4. CASE AllocFails(t) \/ zcache_free_n(t)
    <3>1. doing'[t] \in {"unwinding", "freeing"}
      BY <1>0, <2>4 DEF AllocFails, zcache_free_n, Enter, ElementsTypeOK
    <3> QED BY <2>1, <3>1 DEF Fits, Doing
  <2>5. CASE AllocReturns(t)
    <3>1. /\ doing'[t] = "cached" /\ failed'[t] = failed[t] /\ count'[t] = count[t]
          /\ \/ doing[t] = "allocating" /\ left[t] = 0
             \/ stack[t] = <<>>
          /\ Len(stack[t]) + failed[t] + 0 = Len(stack[t]) + failed[t]
      BY <1>0, <2>5, ElementsFacts
         DEF AllocReturns, Enter, ElementsTypeOK, call, Doing
    <3> QED BY <1>0, <2>1, <3>1 DEF Fits, Doing
  <2>6. CASE FreeReturns(t)
    <3>1. doing'[t] = "idle" /\ stack[t] = <<>> /\ failed'[t] = 0
      BY <1>0, <2>6 DEF FreeReturns, Forget, Enter, ElementsTypeOK
    <3> QED BY <2>1, <3>1 DEF Fits, Doing
  <2> QED BY <2>2, <2>3, <2>4, <2>5, <2>6
<1>6. \A u \in KernelThread \ {t} :
         /\ doing'[u] = doing[u] /\ stack'[u] = stack[u] /\ head'[u] = head[u]
         /\ count'[u] = count[u] /\ left'[u] = left[u] /\ failed'[u] = failed[u]
  BY <1>0, <1>1, <1>2 DEF ElementsTypeOK
<1> QED BY <1>1, <1>2, <1>3, <1>4, <1>5, <1>6, StepOfOne DEF memory

(* zcache_alloc_n gets one more element, and pushes it or fails to.        *)
LEMMA AllocOneInv ==
  ASSUME ElementsInv, NEW t \in KernelThread, NEW e \in Elem, AllocOne(t, e)
  PROVE  ElementsInv'
<1>0. /\ ElementsTypeOK /\ Owned /\ Fits(t) /\ stack[t] \in Seq(Elem)
      /\ IsInjective(stack[t]) /\ Len(stack[t]) \in Nat
      /\ e \notin allocated /\ e \notin ToSet(stack[t])
      /\ Doing(t, "allocating") /\ left[t] > 0
  BY ElementsFacts, HeldBySome DEF AllocOne, Owned
<1>1. /\ left' = [left EXCEPT ![t] = @ - 1]
      /\ allocated' = allocated \union {e} /\ marked' = marked \union {e}
      /\ UNCHANGED <<doing, count, doubleFree, reserve>>
  BY DEF AllocOne
<1>2. CASE /\ stack' = [stack EXCEPT ![t] = Append(@, e)]
           /\ head' = [head EXCEPT ![t] = TRUE]
           /\ UNCHANGED <<dropped, failed>>
  <2> DEFINE s == Append(stack[t], e)
  <2>1. /\ s \in Seq(Elem) /\ s # <<>> /\ Len(s) = Len(stack[t]) + 1
        /\ ToSet(s) = ToSet(stack[t]) \union {e} /\ IsInjective(s)
    BY <1>0, AppendSet
  <2>2. stack' = [stack EXCEPT ![t] = s]
    BY <1>2
  <2> HIDE DEF s
  <2>3. stack'[t] = s /\ \A u \in KernelThread \ {t} : stack'[u] = stack[u]
    BY <1>0, <2>2 DEF ElementsTypeOK
  <2>4. ElementsTypeOK'
    BY <1>0, <1>1, <1>2, <2>1, <2>2 DEF ElementsTypeOK, reserve
  <2>5. Owned'
    <3>1. /\ {} \in SUBSET {e} /\ {e} \intersect allocated = {}
          /\ ToSet(s) = ToSet(stack[t]) \union ({e} \ {})
          /\ dropped' = dropped \union {} /\ doubleFree' = doubleFree
      BY <1>0, <1>1, <1>2, <2>1
    <3> QED BY <1>0, <1>1, <2>1, <2>2, <3>1, Taken
  <2>6. Fits(t)'
    <3>1. /\ doing'[t] = "allocating" /\ head'[t] = TRUE /\ failed'[t] = failed[t]
          /\ count'[t] = count[t] /\ left'[t] = left[t] - 1
      BY <1>0, <1>1, <1>2 DEF ElementsTypeOK, Doing
    <3>2. /\ ToSet(stack[t]) \subseteq marked
          /\ Len(stack[t]) + failed[t] + left[t] = count[t]
      BY <1>0 DEF Fits
    <3>3. left[t] \in Nat /\ failed[t] \in Nat /\ ToSet(s) \subseteq marked'
      BY <1>0, <1>1, <2>1, <3>2 DEF ElementsTypeOK
    <3>4. Len(s) + failed[t] + (left[t] - 1) = count[t]
      BY <1>0, <2>1, <3>2, <3>3
    <3> QED BY <2>1, <2>3, <3>1, <3>3, <3>4 DEF Fits, Doing
  <2> QED BY <1>0, <1>1, <1>2, <2>3, <2>4, <2>5, <2>6, StepOfOne
          DEF ElementsTypeOK, Doing
<1>3. CASE /\ dropped' = dropped \union {e}
           /\ failed' = [failed EXCEPT ![t] = @ + 1]
           /\ UNCHANGED <<stack, head>>
  <2>1. ElementsTypeOK'
    BY <1>0, <1>1, <1>3 DEF ElementsTypeOK, reserve
  <2>2. Owned'
    <3>1. /\ {e} \in SUBSET {e} /\ {e} \intersect allocated = {}
          /\ ToSet(stack[t]) = ToSet(stack[t]) \union ({e} \ {e})
          /\ stack' = [stack EXCEPT ![t] = stack[t]]
      BY <1>0, <1>3 DEF ElementsTypeOK
    <3> QED BY <1>0, <1>1, <1>3, <3>1, Taken
  <2>3. Fits(t)'
    <3>1. /\ doing'[t] = "allocating" /\ failed'[t] = failed[t] + 1
          /\ count'[t] = count[t] /\ left'[t] = left[t] - 1
          /\ stack' = stack /\ head' = head
      BY <1>0, <1>1, <1>3 DEF ElementsTypeOK, Doing
    <3>2. /\ ToSet(stack[t]) \subseteq marked'
          /\ Len(stack[t]) + (failed[t] + 1) + (left[t] - 1) = count[t]
      BY <1>0, <1>1 DEF ElementsTypeOK, Fits
    <3>3. head[t] <=> stack[t] # <<>>
      BY <1>0 DEF Fits, Doing
    <3> QED BY <3>1, <3>2, <3>3 DEF Fits, Doing
  <2> QED BY <1>0, <1>1, <1>3, <2>1, <2>2, <2>3, StepOfOne
          DEF ElementsTypeOK, Doing
<1> QED BY <1>2, <1>3 DEF AllocOne, Push

(* The last element is popped and freed.                                   *)
LEMMA PopInv ==
  ASSUME ElementsInv, NEW t \in KernelThread, Unwind(t) \/ FreeOne(t) \/ PopAndFree(t)
  PROVE  ElementsInv'
<1> DEFINE s == Front(stack[t])
<1>0. /\ ElementsTypeOK /\ Owned /\ Fits(t) /\ stack[t] \in Seq(Elem)
      /\ IsInjective(stack[t]) /\ stack[t] # <<>>
      /\ Top(t) \in ToSet(stack[t]) /\ ToSet(stack[t]) \subseteq Elem
  BY ElementsFacts, FrontSet DEF Unwind, FreeOne, PopAndFree, Top
<1>1. /\ s \in Seq(Elem) /\ IsInjective(s)
      /\ s # <<>> <=> Len(stack[t]) > 1
      /\ ToSet(s) = ToSet(stack[t]) \ {Top(t)}
  BY <1>0, FrontSet DEF Top
<1>2. /\ stack' = [stack EXCEPT ![t] = s]
      /\ head' = [head EXCEPT ![t] = Len(stack[t]) > 1]
      /\ FreeAll({Top(t)})
      /\ marked' \in {marked, marked \ {Top(t)}}
      /\ UNCHANGED <<doing, count, left, failed, dropped, reserve>>
      /\ doing[t] \in {"unwinding", "freeing", "stacked"}
  BY DEF Unwind, FreeOne, PopAndFree, Pop, call, Doing
<1> HIDE DEF s
<1>3. stack'[t] = s /\ \A u \in KernelThread \ {t} : stack'[u] = stack[u]
  BY <1>0, <1>2 DEF ElementsTypeOK
<1>4. ElementsTypeOK'
  <2>1. head' \in [KernelThread -> BOOLEAN]
    BY <1>0, <1>2 DEF ElementsTypeOK
  <2>2. stack' \in [KernelThread -> Seq(Elem)]
    BY <1>0, <1>1, <1>2 DEF ElementsTypeOK
  <2>3. allocated' \subseteq Elem /\ marked' \subseteq Elem /\ doubleFree' \in BOOLEAN
    BY <1>0, <1>2 DEF ElementsTypeOK, FreeAll
  <2> QED BY <1>0, <1>2, <2>1, <2>2, <2>3 DEF ElementsTypeOK, reserve
<1>5. Owned'
  <2>1. {Top(t)} \in SUBSET ToSet(stack[t]) /\ dropped' = dropped
    BY <1>0, <1>2
  <2> QED BY <1>0, <1>1, <1>2, <2>1, Given
<1>6. Fits(t)'
  <2>1. /\ doing'[t] \in {"unwinding", "freeing", "stacked"}
        /\ doing'[t] = doing[t] /\ failed'[t] = failed[t]
    BY <1>2
  <2>2. head'[t] <=> s # <<>>
    BY <1>0, <1>1, <1>2 DEF ElementsTypeOK
  <2> QED BY <1>0, <1>3, <2>1, <2>2 DEF Fits, Doing
<1>7. marked \subseteq marked' \union ToSet(stack[t])
  BY <1>0, <1>2
<1> QED BY <1>0, <1>2, <1>3, <1>4, <1>5, <1>6, <1>7, StepOfOne
        DEF ElementsTypeOK

(* zalloc_n and mcache_alloc_ext.                                          *)
LEMMA AllocManyInv ==
  ASSUME ElementsInv, NEW t \in KernelThread, NEW n \in 0..MaxCount,
         NEW es \in [1..n -> Elem], IsInjective(es),
         \/ \E lost \in SUBSET Elem : zalloc_n(t, es, lost)
         \/ mcache_alloc_ext(t, es)
  PROVE  ElementsInv'
<1>0. /\ ElementsTypeOK /\ Owned /\ Fits(t)
      /\ Doing(t, "idle") /\ ToSet(stack[t]) = {} /\ ~head[t] /\ failed[t] = 0
  BY ElementsFacts, NothingSet
     DEF zalloc_n, mcache_alloc_ext, Fits, ElementsTypeOK, Doing
<1>1. es \in Seq(Elem) /\ ToSet(es) \subseteq Elem
  <2>1. n \in Nat
    BY CountAssumption
  <2>2. es \in Seq(Elem)
    BY <2>1, SeqDef
  <2> QED BY <2>2, SeqSet
<1>2. CASE \E lost \in SUBSET Elem : zalloc_n(t, es, lost)
  <2>1. PICK lost \in SUBSET Elem : zalloc_n(t, es, lost)
    BY <1>2
  <2>2. /\ lost \intersect ToSet(es) = {}
        /\ (lost \union ToSet(es)) \intersect allocated = {}
        /\ doing' = [doing EXCEPT ![t] = "stacked"]
        /\ stack' = [stack EXCEPT ![t] = es]
        /\ head' = [head EXCEPT ![t] = es # <<>>]
        /\ dropped' = dropped \union lost
        /\ allocated' = allocated \union lost \union ToSet(es)
        /\ UNCHANGED <<count, left, failed, marked, doubleFree, reserve>>
    BY <2>1 DEF zalloc_n, Enter, call
  <2>3. ElementsTypeOK'
    BY <1>0, <1>1, <2>2 DEF ElementsTypeOK, Pc, reserve
  <2>4. Owned'
    <3>1. /\ lost \in SUBSET (lost \union ToSet(es))
          /\ ToSet(es) = ToSet(stack[t]) \union ((lost \union ToSet(es)) \ lost)
          /\ allocated' = allocated \union (lost \union ToSet(es))
      BY <1>0, <2>2
    <3> QED BY <1>0, <1>1, <2>2, <3>1, Taken
  <2>5. Fits(t)'
    BY <1>0, <2>2 DEF ElementsTypeOK, Fits, Doing
  <2> QED BY <1>0, <2>2, <2>3, <2>4, <2>5, StepOfOne DEF ElementsTypeOK
<1>3. CASE mcache_alloc_ext(t, es)
  <2>0. PICK s \in {Reverse(es), es} : stack' = [stack EXCEPT ![t] = s]
    BY <1>3 DEF mcache_alloc_ext
  <2>1. s \in Seq(Elem) /\ IsInjective(s) /\ ToSet(s) = ToSet(es)
    BY <1>1, <2>0, ReverseSet
  <2>2. /\ ToSet(es) \intersect allocated = {}
        /\ doing' = [doing EXCEPT ![t] = "listed"]
        /\ stack' = [stack EXCEPT ![t] = s]
        /\ allocated' = allocated \union ToSet(es)
        /\ UNCHANGED <<head, count, left, failed, marked, dropped, doubleFree,
                       reserve>>
    BY <1>3, <2>0 DEF mcache_alloc_ext, Enter, call
  <2>3. ElementsTypeOK'
    BY <1>0, <1>1, <2>1, <2>2 DEF ElementsTypeOK, Pc, reserve
  <2>4. Owned'
    <3>1. /\ {} \in SUBSET ToSet(es) /\ dropped' = dropped \union {}
          /\ ToSet(s) = ToSet(stack[t]) \union (ToSet(es) \ {})
      BY <1>0, <2>1, <2>2
    <3> QED BY <1>0, <2>1, <2>2, <3>1, Taken
  <2>5. Fits(t)'
    BY <1>0, <2>2 DEF ElementsTypeOK, Fits, Doing
  <2> QED BY <1>0, <2>2, <2>3, <2>4, <2>5, StepOfOne DEF ElementsTypeOK
<1> QED BY <1>2, <1>3

(* A stack or a list is freed, whole or its first object.                  *)
LEMMA FreeManyInv ==
  ASSUME ElementsInv, NEW t \in KernelThread,
         zfree_nozero_n(t) \/ mcache_free_ext(t) \/ mcache_free(t)
  PROVE  ElementsInv'
<1>0. /\ ElementsTypeOK /\ Owned /\ Fits(t) /\ stack[t] \in Seq(Elem)
      /\ IsInjective(stack[t])
  BY ElementsFacts
<1>1. CASE zfree_nozero_n(t) \/ mcache_free_ext(t)
  <2> DEFINE s == <<>>
  <2>1. /\ s \in Seq(Elem) /\ IsInjective(s) /\ ToSet(s) = {}
    BY NothingSet, EmptySeq
  <2>2. /\ stack' = [stack EXCEPT ![t] = s] /\ s = <<>>
        /\ doing' = [doing EXCEPT ![t] = "idle"]
        /\ FreeAll(ToSet(stack[t]))
        /\ UNCHANGED <<count, left, failed, marked, dropped, reserve>>
        /\ failed[t] = 0 /\ head' \in {head, [head EXCEPT ![t] = FALSE]}
        /\ ~head'[t]
    BY <1>0, <1>1
       DEF zfree_nozero_n, mcache_free_ext, Enter, call, Doing, Fits,
           ElementsTypeOK
  <2> HIDE DEF s
  <2>3. ElementsTypeOK'
    BY <1>0, <2>1, <2>2 DEF ElementsTypeOK, Pc, reserve, FreeAll
  <2>4. Owned'
    <3>1. /\ ToSet(stack[t]) \in SUBSET ToSet(stack[t])
          /\ ToSet(s) = ToSet(stack[t]) \ ToSet(stack[t]) /\ dropped' = dropped
      BY <2>1, <2>2
    <3> QED BY <1>0, <2>1, <2>2, <3>1, Given
  <2>5. Fits(t)'
    BY <1>0, <2>2 DEF ElementsTypeOK, Fits, Doing
  <2> QED BY <1>0, <2>2, <2>3, <2>4, <2>5, StepOfOne DEF ElementsTypeOK
<1>2. CASE mcache_free(t)
  <2> DEFINE s == Tail(stack[t])
  <2>1. /\ s \in Seq(Elem) /\ IsInjective(s) /\ Head(stack[t]) \in ToSet(stack[t])
        /\ ToSet(s) = ToSet(stack[t]) \ {Head(stack[t])}
    BY <1>0, <1>2, TailSet DEF mcache_free
  <2>2. /\ stack' = [stack EXCEPT ![t] = s] /\ doing[t] = "listed"
        /\ FreeAll({Head(stack[t])})
        /\ UNCHANGED <<doing, head, count, left, failed, marked, dropped, reserve>>
    BY <1>2 DEF mcache_free, call, Doing
  <2> HIDE DEF s
  <2>3. ElementsTypeOK'
    BY <1>0, <2>1, <2>2 DEF ElementsTypeOK, reserve, FreeAll
  <2>4. Owned'
    <3>1. {Head(stack[t])} \in SUBSET ToSet(stack[t])
      BY <2>1
    <3> QED BY <1>0, <2>1, <2>2, <3>1, Given
  <2>5. Fits(t)'
    BY <1>0, <2>2 DEF ElementsTypeOK, Fits, Doing
  <2> QED BY <1>0, <2>2, <2>3, <2>4, <2>5, StepOfOne DEF ElementsTypeOK
<1> QED BY <1>1, <1>2

(* zone_raise_reserve: the number only grows, so that a copy that is found *)
(* current is also the largest value reached.                              *)
LEMMA RaiseInv ==
  ASSUME ElementsInv, NEW t \in KernelThread,
         \/ \E n \in 1..MaxReserve : zone_raise_reserve(t, n)
         \/ Raise(t)
  PROVE  ElementsInv'
<1>0. /\ ElementsTypeOK /\ Owned /\ \A u \in KernelThread : Fits(u)
      /\ CopiesAreOld /\ ReserveReached
  BY PartsOfElementsInv
<1>1. /\ UNCHANGED <<stack, head, count, left, failed, memory>>
      /\ doing[t] \in {"idle", "raising"}
      /\ \E p \in {"idle", "raising"} : doing' = [doing EXCEPT ![t] = p]
      /\ \E n \in Nat : request' = [request EXCEPT ![t] = n]
      /\ \E n \in Nat : expected' = [expected EXCEPT ![t] = n]
  <2>1. /\ doing = [doing EXCEPT ![t] = doing[t]]
        /\ request = [request EXCEPT ![t] = request[t]] /\ request[t] \in Nat
        /\ expected = [expected EXCEPT ![t] = expected[t]] /\ expected[t] \in Nat
        /\ z_elems_rsv \in Nat
    BY <1>0 DEF ElementsTypeOK
  <2>2. CASE \E n \in 1..MaxReserve : zone_raise_reserve(t, n)
    <3>1. PICK n \in 1..MaxReserve : zone_raise_reserve(t, n)
      BY <2>2
    <3>2. /\ n \in Nat /\ doing[t] = "idle" /\ doing' = [doing EXCEPT ![t] = "raising"]
          /\ request' = [request EXCEPT ![t] = n]
          /\ expected' = [expected EXCEPT ![t] = z_elems_rsv]
          /\ UNCHANGED <<stack, head, count, left, failed, memory>>
      BY <3>1, CountAssumption DEF zone_raise_reserve, Enter, Doing, call
    <3> QED BY <2>1, <3>2, Zenon
  <2>3. CASE Raise(t) /\ RaiseReturns(t)
    BY <2>1, <2>3 DEF Raise, RaiseReturns, Enter, Doing, call
  <2>4. CASE Raise(t) /\ ~RaiseReturns(t)
    <3>1. /\ expected' = [expected EXCEPT ![t] = z_elems_rsv]
          /\ UNCHANGED <<doing, request, stack, head, call, memory>>
          /\ doing[t] = "raising"
      BY <2>4 DEF Raise, CompareExchange, Doing
    <3> QED BY <2>1, <3>1 DEF call
  <2> QED BY <2>2, <2>3, <2>4
<1>2. /\ doing'[t] \in {"idle", "raising"}
      /\ \A u \in KernelThread \ {t} : doing'[u] = doing[u] /\ expected'[u] = expected[u]
      /\ doing' \in [KernelThread -> Pc] /\ expected' \in [KernelThread -> Nat]
      /\ request' \in [KernelThread -> Nat]
  BY <1>0, <1>1 DEF ElementsTypeOK, Pc
<1>3. /\ z_elems_rsv' \in Nat /\ reached' = z_elems_rsv'
      /\ z_elems_rsv <= z_elems_rsv'
      /\ doing'[t] = "raising" => expected'[t] <= z_elems_rsv'
  BY <1>0
     DEF zone_raise_reserve, Raise, RaiseReturns, CompareExchange, Enter, Doing,
         ElementsTypeOK, CopiesAreOld, ReserveReached
<1>4. ElementsTypeOK'
  <2>1. /\ stack' = stack /\ head' = head /\ count' = count /\ left' = left
        /\ failed' = failed /\ allocated' = allocated /\ marked' = marked
        /\ dropped' = dropped /\ doubleFree' = doubleFree
    BY <1>1 DEF memory
  <2>2. {count, left, failed, request, expected}' \subseteq [KernelThread -> Nat]
    BY <1>0, <1>2, <2>1 DEF ElementsTypeOK
  <2>3. /\ stack' \in [KernelThread -> Seq(Elem)] /\ head' \in [KernelThread -> BOOLEAN]
        /\ allocated' \subseteq Elem /\ marked' \subseteq Elem
        /\ dropped' \subseteq Elem /\ doubleFree' \in BOOLEAN
    BY <1>0, <2>1 DEF ElementsTypeOK
  <2> QED BY <1>2, <1>3, <2>2, <2>3 DEF ElementsTypeOK
<1>5. Owned'
  BY <1>0, <1>1 DEF Owned, Held, memory
<1>6. \A u \in KernelThread : Fits(u)'
  <2>1. Fits(t)'
    BY <1>0, <1>1, <1>2 DEF Fits, Doing, memory
  <2>2. \A u \in KernelThread \ {t} : Fits(u)'
    BY <1>0, <1>1, <1>2 DEF Fits, Doing, memory
  <2> QED BY <2>1, <2>2
<1>7. CopiesAreOld' /\ ReserveReached'
  <2>1. \A u \in KernelThread \ {t} : doing'[u] = "raising" => expected'[u] <= z_elems_rsv'
    BY <1>0, <1>2, <1>3 DEF ElementsTypeOK, CopiesAreOld, Doing
  <2> QED BY <1>3, <2>1 DEF CopiesAreOld, ReserveReached, Doing
<1> QED BY <1>4, <1>5, <1>6, <1>7
  DEF ElementsInv, ElementsAccounted, CallsBeginEmpty, LoopCounts,
      AllOrNothing, Owned, Fits

LEMMA UnchangedElementsInv ==
  ASSUME ElementsInv, UNCHANGED <<own, memory, reserve>>
  PROVE  ElementsInv'
<1>1. UNCHANGED <<doing, stack, head, count, left, failed, allocated, marked,
                  dropped, doubleFree, z_elems_rsv, request, expected, reached>>
  BY DEF own, call, memory, reserve
<1>2. ElementsTypeOK'
  BY <1>1 DEF ElementsInv, ElementsTypeOK
<1> QED
  BY <1>1, <1>2
     DEF ElementsInv, ElementsAccounted, Held, CallsBeginEmpty, LoopCounts,
         AllOrNothing, CopiesAreOld, ReserveReached, Doing

LEMMA NextElementsInv ==
  ElementsInv /\ [ElementsNext]_<<own, memory, reserve>> => ElementsInv'
<1> SUFFICES ASSUME ElementsInv, [ElementsNext]_<<own, memory, reserve>>
             PROVE  ElementsInv'
  OBVIOUS
<1>1. CASE UNCHANGED <<own, memory, reserve>>
  BY <1>1, UnchangedElementsInv
<1>2. CASE ElementsNext
  <2>1. PICK t \in KernelThread :
          \/ \E n \in 0..MaxCount : zcache_alloc_n(t, n) \/ NoZone(t, n)
          \/ \E e \in Elem : AllocOne(t, e)
          \/ AllocFails(t) \/ Unwind(t) \/ AllocReturns(t)
          \/ zcache_free_n(t) \/ FreeOne(t) \/ FreeReturns(t)
          \/ \E n \in 0..MaxCount : \E es \in [1..n -> Elem] :
                /\ IsInjective(es)
                /\ \/ \E lost \in SUBSET Elem : zalloc_n(t, es, lost)
                   \/ mcache_alloc_ext(t, es)
          \/ PopAndFree(t) \/ zfree_nozero_n(t)
          \/ mcache_free_ext(t) \/ mcache_free(t)
          \/ \E n \in 1..MaxReserve : zone_raise_reserve(t, n)
          \/ Raise(t)
    BY <1>2, Zenon DEF ElementsNext
  <2>2. CASE \E n \in 0..MaxCount : \E es \in [1..n -> Elem] :
                /\ IsInjective(es)
                /\ \/ \E lost \in SUBSET Elem : zalloc_n(t, es, lost)
                   \/ mcache_alloc_ext(t, es)
    <3>1. PICK n \in 0..MaxCount : \E es \in [1..n -> Elem] :
             /\ IsInjective(es)
             /\ \/ \E lost \in SUBSET Elem : zalloc_n(t, es, lost)
                \/ mcache_alloc_ext(t, es)
      BY <2>2
    <3>2. PICK es \in [1..n -> Elem] :
             /\ IsInjective(es)
             /\ \/ \E lost \in SUBSET Elem : zalloc_n(t, es, lost)
                \/ mcache_alloc_ext(t, es)
      BY <3>1
    <3> QED BY <3>2, AllocManyInv
  <2> QED BY <2>1, <2>2, NoElementInv, AllocOneInv, PopInv, FreeManyInv, RaiseInv
<1> QED BY <1>1, <1>2
-----------------------------------------------------------------------------
(* zalloc.c and mcache.c: the inductive invariant holds for any number of  *)
(* threads and elements, however their calls interleave.                   *)
THEOREM ElementsSafe == ElementsSpec => []ElementsInv
BY InitElementsInv, NextElementsInv, PTL DEF ElementsSpec

(* No element is freed twice, shared between two stacks or lost, except by *)
(* a push that failed.                                                     *)
THEOREM ElementsNeverLost == ElementsSpec => []ElementsAccounted
<1>1. ElementsInv => ElementsAccounted
  BY DEF ElementsInv
<1> QED BY <1>1, ElementsSafe, PTL

(* zcache_alloc_n returns what it was asked for, or nothing.               *)
THEOREM ZcacheAllocAllOrNothing == ElementsSpec => []AllOrNothing
<1>1. ElementsInv => AllOrNothing
  BY DEF ElementsInv
<1> QED BY <1>1, ElementsSafe, PTL

(* zone_raise_reserve: no call undoes what another has reached.            *)
THEOREM ReserveNeverLost == ElementsSpec => []ReserveReached
<1>1. ElementsInv => ReserveReached
  BY DEF ElementsInv
<1> QED BY <1>1, ElementsSafe, PTL
=============================================================================
