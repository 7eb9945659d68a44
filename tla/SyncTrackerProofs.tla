------------------------- MODULE SyncTrackerProofs -------------------------
(***************************************************************************)
(* The deadlock detector is complete for the objects the tracker knows and *)
(* raises no false alarm, for any number of threads and locks.             *)
(***************************************************************************)
EXTENDS MCSyncTracker, FiniteSetTheorems, WellFoundedInduction, TLAPS

TrackerInv == /\ TypeOK
              /\ OwnersAndWaiters
              /\ TrackedDeadlocksReported
              /\ ReportsAreReal

LEMMA InitTrackerInv == Init => TrackerInv
<1> SUFFICES ASSUME Init PROVE TrackerInv
  OBVIOUS
<1>1. TypeOK
  BY DEF Init, TypeOK
<1>2. OwnersAndWaiters
  BY SyncAssumption DEF Init, OwnersAndWaiters, Sync
<1>3. TrackedDeadlocksReported
  BY DEF Init, TrackedDeadlocksReported, TrackedDeadlock, Dependencies
<1>4. ReportsAreReal
  BY DEF Init, ReportsAreReal
<1> QED BY <1>1, <1>2, <1>3, <1>4 DEF TrackerInv

(* Types of the objects, for the steps below.                              *)
LEMMA SyncFacts ==
  /\ Mutex \subseteq Sync /\ RwLock \subseteq Sync /\ None \notin Sync
  /\ \A r \in RwLock : mutex_(r) \in Sync /\ mutex_(r) \notin Mutex \union RwLock
  /\ \A q, r \in RwLock : mutex_(q) = mutex_(r) => q = r
  /\ Mutex \intersect RwLock = {}
BY SyncAssumption DEF Sync, mutex_

LEMMA DependenciesAreThreads ==
  ASSUME TrackerInv, NEW t \in Thread
  PROVE  Dependencies(t) \subseteq Thread
BY SyncFacts DEF Dependencies, TrackerInv, TypeOK

(* A step adds dependencies only on threads that depend on nobody: it      *)
(* cannot close a cycle.                                                   *)
LEMMA NoCycleClosed ==
  ASSUME TrackerInv, aborted = "no",
         \A t \in Thread : Dependencies(t)' \subseteq
            Dependencies(t) \union {u \in Thread : Dependencies(u)' = {}}
  PROVE  TrackedDeadlocksReported'
<1> SUFFICES ASSUME NEW S \in SUBSET Thread, TrackedDeadlock(S)' PROVE S = {}
  BY DEF TrackedDeadlocksReported
<1>1. ASSUME NEW t \in S PROVE Dependencies(t) \intersect S # {}
  <2>1. PICK u \in S : u \in Dependencies(t)'
    BY <1>1 DEF TrackedDeadlock
  <2>2. Dependencies(u)' # {}
    BY <2>1 DEF TrackedDeadlock
  <2>3. u \in Dependencies(t)
    BY <2>1, <2>2
  <2> QED BY <2>1, <2>3
<1> QED BY <1>1 DEF TrackerInv, TrackedDeadlocksReported, TrackedDeadlock

(* The search failed for every owner of o: t may wait for o.               *)
LEMMA SearchFailed ==
  ASSUME TrackerInv, aborted = "no", NEW t \in Thread, NEW o \in Sync,
         ~DetectDeadlock(t, o),
         \A v \in Thread \ {t} : Dependencies(v)' = Dependencies(v),
         Dependencies(t)' \subseteq owners[o]
  PROVE  TrackedDeadlocksReported'
<1> SUFFICES ASSUME NEW S \in SUBSET Thread, TrackedDeadlock(S)' PROVE S = {}
  BY DEF TrackedDeadlocksReported
<1>1. CASE t \notin S
  <2>1. TrackedDeadlock(S)
    BY <1>1 DEF TrackedDeadlock
  <2> QED BY <2>1 DEF TrackerInv, TrackedDeadlocksReported
<1>2. CASE t \in S
  <2>1. PICK u \in S : u \in owners[o]
    BY <1>2 DEF TrackedDeadlock
  <2>2. PICK R \in SUBSET Thread : u \in R /\ ClosedUpTo(t, R) /\ t \notin R
    BY <2>1 DEF DetectDeadlock, FindDependencyPath
  <2>3. ASSUME NEW v \in S \intersect R
        PROVE  Dependencies(v) \intersect (S \intersect R) # {}
    BY <2>2, <2>3 DEF TrackedDeadlock, ClosedUpTo
  <2>4. S \intersect R = {}
    BY <2>3 DEF TrackerInv, TrackedDeadlocksReported, TrackedDeadlock
  <2> QED BY <2>1, <2>2, <2>4
<1> QED BY <1>1, <1>2

(* The search found a way from an owner of o back to t, which now waits    *)
(* for o: the threads from which t can be reached are deadlocked.          *)
LEMMA SearchFound ==
  ASSUME TrackerInv, NEW t \in Thread, NEW o \in Sync,
         DetectDeadlock(t, o),
         owners' = owners, waiting' = [waiting EXCEPT ![t] = o]
  PROVE  ReportsAreReal'
<1>1. PICK owner \in owners[o] : FindDependencyPath(owner, t)
  BY DEF DetectDeadlock
<1> DEFINE S == {v \in Thread : FindDependencyPath(v, t)}
           N == Thread \ S
<1>2. owner \in S
  BY <1>1 DEF TrackerInv, TypeOK
<1>3. t \in S
  BY DEF FindDependencyPath
<1>4. ClosedUpTo(t, N)
  <2> SUFFICES ASSUME NEW v \in N, NEW w \in Dependencies(v) PROVE w \in N
    BY DEF ClosedUpTo
  <2>1. w \in Thread
    BY DependenciesAreThreads
  <2>2. PICK C \in SUBSET Thread : v \in C /\ ClosedUpTo(t, C) /\ t \notin C
    BY DEF FindDependencyPath
  <2>3. w \in C
    BY <2>2 DEF ClosedUpTo
  <2> QED BY <2>1, <2>2, <2>3 DEF FindDependencyPath
<1>5. ASSUME NEW v \in S \ {t} PROVE Dependencies(v) \intersect S # {}
  <2>1. SUFFICES ASSUME Dependencies(v) \intersect S = {} PROVE FALSE
    OBVIOUS
  <2>2. Dependencies(v) \subseteq N
    BY <2>1, DependenciesAreThreads
  <2>3. ClosedUpTo(t, N \union {v})
    BY <1>4, <2>2 DEF ClosedUpTo
  <2>4. N \union {v} \in SUBSET Thread /\ t \notin N \union {v}
    BY <1>3, <1>5
  <2> QED BY <2>3, <2>4, <1>5 DEF FindDependencyPath
<1>6. ASSUME NEW v \in S
      PROVE  waiting'[v] # None /\ owners'[waiting'[v]] \intersect S # {}
  <2>1. CASE v = t
    BY <1>1, <1>2, <2>1, SyncFacts DEF TrackerInv, TypeOK
  <2>2. CASE v # t
    <3>1. Dependencies(v) \intersect S # {}
      BY <1>5, <2>2
    <3>2. waiting'[v] = waiting[v] /\ waiting[v] \in all_primitives_
      BY <3>1, <2>2 DEF Dependencies, TrackerInv, TypeOK
    <3>3. waiting[v] # None
      BY <3>2, SyncFacts DEF TrackerInv, TypeOK
    <3> QED BY <3>1, <3>2, <3>3 DEF Dependencies
  <2> QED BY <2>1, <2>2
<1>7. \E T \in SUBSET Thread :
         /\ T # {}
         /\ \A v \in T : waiting'[v] # None /\ owners'[waiting'[v]] \intersect T # {}
  <2> WITNESS S \in SUBSET Thread
  <2> QED BY <1>3, <1>6
<1> QED BY <1>7 DEF ReportsAreReal, Deadlocked

LEMMA AbortTracker ==
  ASSUME TrackerInv, NEW why \in {"nested", "misuse"}, Abort(why)
  PROVE  TrackerInv'
<1>1. TypeOK'
  BY DEF Abort, TrackerInv, TypeOK
<1>2. OwnersAndWaiters'
  BY DEF Abort, TrackerInv, OwnersAndWaiters
<1>3. TrackedDeadlocksReported' /\ ReportsAreReal'
  BY DEF Abort, TrackedDeadlocksReported, ReportsAreReal
<1> QED BY <1>1, <1>2, <1>3 DEF TrackerInv

LEMMA AddWaiterInv ==
  ASSUME TrackerInv, aborted = "no", NEW t \in Thread, NEW o \in Sync,
         NEW w \in {"shared", "exclusive"},
         o \in all_primitives_ \union {mutex_(r) : r \in RwLock},
         AddWaiter(t, o, w)
  PROVE  TrackerInv'
<1>1. CASE t \in owners[o]
  BY <1>1, AbortTracker DEF AddWaiter
<1>2. CASE t \notin owners[o]
  <2>1. /\ waiting' = [waiting EXCEPT ![t] = o]
        /\ want' = [want EXCEPT ![t] = w]
        /\ aborted' = IF DetectDeadlock(t, o) THEN "deadlock" ELSE "no"
        /\ all_primitives_' = all_primitives_ /\ owners' = owners
    BY <1>2 DEF AddWaiter
  <2>2. TypeOK'
    BY <2>1 DEF TrackerInv, TypeOK
  <2>3. OwnersAndWaiters'
    <3>1. \A p \in (Mutex \union RwLock) \ all_primitives_ : o # p
      BY SyncFacts
    <3> QED BY <1>2, <2>1, <3>1 DEF TrackerInv, TypeOK, OwnersAndWaiters
  <2>4. CASE DetectDeadlock(t, o)
    <3>1. aborted' = "deadlock"
      BY <2>1, <2>4
    <3>2. TrackedDeadlocksReported'
      BY <3>1 DEF TrackedDeadlocksReported
    <3>3. ReportsAreReal'
      BY <2>1, <2>4, SearchFound
    <3> QED BY <2>2, <2>3, <3>2, <3>3 DEF TrackerInv
  <2>5. CASE ~DetectDeadlock(t, o)
    <3>1. /\ \A v \in Thread \ {t} : Dependencies(v)' = Dependencies(v)
          /\ Dependencies(t)' \subseteq owners[o]
      BY <2>1 DEF Dependencies, TrackerInv, TypeOK
    <3>2. TrackedDeadlocksReported'
      BY <2>5, <3>1, SearchFailed
    <3>3. ReportsAreReal'
      BY <2>1, <2>5 DEF ReportsAreReal
    <3> QED BY <2>2, <2>3, <3>2, <3>3 DEF TrackerInv
  <2> QED BY <2>4, <2>5
<1> QED BY <1>1, <1>2

(* A step that changes owners and ends the wait of t only: t depends on    *)
(* nobody afterwards.                                                      *)
LEMMA OwnersStepInv ==
  ASSUME TrackerInv, aborted = "no", NEW t \in Thread,
         aborted' = aborted, all_primitives_' = all_primitives_, want' = want,
         waiting' = [waiting EXCEPT ![t] = None],
         owners' \in [Sync -> SUBSET Thread],
         \A o \in Sync : owners'[o] \subseteq owners[o] \union {t},
         OwnersAndWaiters'
  PROVE  TrackerInv'
<1>1. TypeOK'
  BY DEF TrackerInv, TypeOK
<1>2. None \notin all_primitives_ /\ all_primitives_ \subseteq Sync
  BY SyncFacts DEF TrackerInv, TypeOK
<1>3. Dependencies(t)' = {}
  BY <1>2 DEF Dependencies, TrackerInv, TypeOK
<1>4. ASSUME NEW v \in Thread
      PROVE  Dependencies(v)' \subseteq
             Dependencies(v) \union {u \in Thread : Dependencies(u)' = {}}
  <2>1. CASE v = t
    BY <1>3, <2>1
  <2>2. CASE v # t
    <3>1. Dependencies(v)' \subseteq Dependencies(v) \union {t}
      BY <1>2, <2>2 DEF Dependencies, TrackerInv, TypeOK
    <3> QED BY <1>3, <3>1
  <2> QED BY <2>1, <2>2
<1>5. TrackedDeadlocksReported'
  BY <1>4, NoCycleClosed
<1>6. ReportsAreReal'
  BY DEF ReportsAreReal
<1> QED BY <1>1, <1>5, <1>6 DEF TrackerInv
(* The steps of a lock's owner change owners as OwnersStepInv asks.        *)
LEMMA AcquireInv ==
  ASSUME TrackerInv, aborted = "no", NEW t \in Thread, NEW o \in Sync,
         o \in all_primitives_ \union {mutex_(r) : r \in RwLock},
         o \notin RwLock => owners[o] = {},
         \A r \in RwLock : o = r => owners[mutex_(r)] = {},
         \A r \in RwLock : o = mutex_(r) => owners[r] = {},
         Acquire(t, o)
  PROVE  TrackerInv'
<1>1. /\ owners' = [owners EXCEPT ![o] = @ \union {t}]
      /\ waiting' = [waiting EXCEPT ![t] = None]
      /\ all_primitives_' = all_primitives_ /\ want' = want /\ aborted' = aborted
  BY DEF Acquire
<1>2. /\ owners' \in [Sync -> SUBSET Thread]
      /\ \A p \in Sync : owners'[p] \subseteq owners[p] \union {t}
      /\ \A p \in Sync \ {o} : owners'[p] = owners[p]
      /\ owners'[o] = owners[o] \union {t}
      /\ \A u \in Thread \ {t} : waiting'[u] = waiting[u]
      /\ waiting'[t] = None
  BY <1>1 DEF TrackerInv, TypeOK
<1>3. OwnersAndWaiters'
  <2>1. \A u \in Thread : waiting'[u] # None => u \notin owners'[waiting'[u]]
    BY <1>2 DEF TrackerInv, TypeOK, OwnersAndWaiters
  <2>2. \A p \in (Mutex \union RwLock) \ all_primitives_ :
           owners'[p] = {} /\ \A u \in Thread : waiting'[u] # p
    BY <1>2, SyncFacts DEF TrackerInv, TypeOK, OwnersAndWaiters
  <2>3. \A m \in Sync \ RwLock : \A u, v \in owners'[m] : u = v
    BY <1>2 DEF TrackerInv, TypeOK, OwnersAndWaiters
  <2>4. \A r \in RwLock : owners'[r] = {} \/ owners'[mutex_(r)] = {}
    BY <1>2, SyncFacts DEF TrackerInv, TypeOK, OwnersAndWaiters
  <2> QED BY <1>1, <2>1, <2>2, <2>3, <2>4 DEF OwnersAndWaiters
<1> QED BY <1>1, <1>2, <1>3, OwnersStepInv

LEMMA DisownInv ==
  ASSUME TrackerInv, NEW t \in Thread, NEW o \in Sync, Running(t), Disown(t, o)
  PROVE  TrackerInv'
<1>1. /\ owners' = [owners EXCEPT ![o] = @ \ {t}]
      /\ waiting' = waiting /\ waiting[t] = None
      /\ all_primitives_' = all_primitives_ /\ want' = want
      /\ aborted' = aborted /\ aborted = "no"
  BY DEF Disown, Running
<1>2. /\ owners' \in [Sync -> SUBSET Thread]
      /\ \A p \in Sync : owners'[p] \subseteq owners[p]
      /\ waiting' = [waiting EXCEPT ![t] = None]
  BY <1>1 DEF TrackerInv, TypeOK
<1>3. OwnersAndWaiters'
  BY <1>1, <1>2, SyncFacts DEF TrackerInv, TypeOK, OwnersAndWaiters
<1> QED BY <1>1, <1>2, <1>3, OwnersStepInv

LEMMA ConvertInv ==
  ASSUME TrackerInv, NEW t \in Thread, NEW r \in RwLock,
         ExclusiveToShared(t, r) \/ SharedToExclusive(t, r)
  PROVE  TrackerInv'
<1>1. /\ waiting' = waiting /\ waiting[t] = None
      /\ all_primitives_' = all_primitives_ /\ want' = want
      /\ aborted' = aborted /\ aborted = "no" /\ r \in all_primitives_
  BY DEF ExclusiveToShared, SharedToExclusive, Running
<1>2. /\ owners' \in [Sync -> SUBSET Thread]
      /\ \A p \in Sync \ {r, mutex_(r)} : owners'[p] = owners[p]
      /\ \/ owners'[r] = {t} /\ owners'[mutex_(r)] = {}
         \/ owners'[r] = {} /\ owners'[mutex_(r)] = {t}
         \/ /\ owners'[r] = owners[r] \ {t}
            /\ owners'[mutex_(r)] = owners[mutex_(r)]
  BY SyncFacts DEF ExclusiveToShared, SharedToExclusive, TrackerInv, TypeOK
<1>3. waiting' = [waiting EXCEPT ![t] = None]
  BY <1>1 DEF TrackerInv, TypeOK
<1>4. OwnersAndWaiters'
  <2>1. \A u \in Thread : waiting'[u] # None => u \notin owners'[waiting'[u]]
    BY <1>1, <1>2 DEF TrackerInv, TypeOK, OwnersAndWaiters
  <2>2. \A p \in (Mutex \union RwLock) \ all_primitives_ :
           owners'[p] = {} /\ \A u \in Thread : waiting'[u] # p
    BY <1>1, <1>2, SyncFacts DEF TrackerInv, TypeOK, OwnersAndWaiters
  <2>3. \A m \in Sync \ RwLock : \A u, v \in owners'[m] : u = v
    BY <1>2 DEF TrackerInv, TypeOK, OwnersAndWaiters
  <2>4. \A q \in RwLock : owners'[q] = {} \/ owners'[mutex_(q)] = {}
    BY <1>2, SyncFacts DEF TrackerInv, TypeOK, OwnersAndWaiters
  <2> QED BY <1>1, <2>1, <2>2, <2>3, <2>4 DEF OwnersAndWaiters
<1>5. \A p \in Sync : owners'[p] \subseteq owners[p] \union {t}
  BY <1>2
<1> QED BY <1>1, <1>2, <1>3, <1>4, <1>5, OwnersStepInv

(* Allocation and freeing touch objects nobody waits for.                  *)
LEMMA PrimitivesInv ==
  ASSUME TrackerInv, NEW o \in Mutex \union RwLock,
         AllocatePrimitive(o) \/ FreePrimitive(o)
  PROVE  TrackerInv'
<1>1. /\ owners' = owners /\ waiting' = waiting /\ want' = want
      /\ aborted' = aborted /\ aborted = "no"
      /\ \/ all_primitives_' = all_primitives_ \union {o}
         \/ all_primitives_' = all_primitives_ \ {o}
      /\ owners[o] = {} /\ \A t \in Thread : waiting[t] # o
  BY SyncFacts
     DEF AllocatePrimitive, FreePrimitive, TrackerInv, OwnersAndWaiters
<1>2. TypeOK'
  BY <1>1 DEF TrackerInv, TypeOK
<1>3. OwnersAndWaiters'
  BY <1>1 DEF TrackerInv, OwnersAndWaiters
<1>4. \A t \in Thread : Dependencies(t)' \subseteq Dependencies(t)
  BY <1>1 DEF Dependencies
<1>5. TrackedDeadlocksReported'
  BY <1>1, <1>4, NoCycleClosed
<1>6. ReportsAreReal'
  BY <1>1 DEF ReportsAreReal
<1> QED BY <1>2, <1>3, <1>5, <1>6 DEF TrackerInv

LEMMA NextTrackerInv == TrackerInv /\ [Next]_vars => TrackerInv'
<1> SUFFICES ASSUME TrackerInv, [Next]_vars PROVE TrackerInv'
  OBVIOUS
<1>1. ASSUME NEW t \in Thread, NEW m \in Mutex, MutexStep(t, m)
      PROVE  TrackerInv'
  <2>1. /\ m \in all_primitives_ /\ aborted = "no" /\ m \in Sync
        /\ m \notin RwLock /\ \A r \in RwLock : m # mutex_(r)
    BY <1>1, SyncFacts DEF MutexStep, MutexLock, MutexTryLock, MutexUnlock, Running
  <2>2. CASE MutexLock(t, m)
    BY <2>1, <2>2, AcquireInv, AddWaiterInv DEF MutexLock
  <2>3. CASE MutexTryLock(t, m)
    BY <2>1, <2>3, AcquireInv, AbortTracker DEF MutexTryLock
  <2>4. CASE MutexUnlock(t, m)
    BY <2>1, <2>4, DisownInv, AbortTracker DEF MutexUnlock
  <2> QED BY <1>1, <2>2, <2>3, <2>4 DEF MutexStep
<1>2. ASSUME NEW t \in Thread, NEW r \in RwLock, RwStep(t, r)
      PROVE  TrackerInv'
  <2>1. /\ r \in all_primitives_ /\ aborted = "no"
        /\ r \in Sync /\ mutex_(r) \in Sync /\ mutex_(r) \notin RwLock
        /\ \A q \in RwLock : r # mutex_(q) /\ (mutex_(q) = mutex_(r) => q = r)
    BY <1>2, SyncFacts DEF RwStep, LockShared, TryLockShared, LockExclusive,
       TryLockExclusive, RwUnlock, ExclusiveToShared, SharedToExclusive, Running
  <2>2. ASSUME owners[mutex_(r)] = {}, AddOwner(t, r) PROVE TrackerInv'
    BY <2>1, <2>2, AcquireInv, AbortTracker DEF AddOwner
  <2>3. ASSUME owners[r] = {}, owners[mutex_(r)] = {}, Acquire(t, mutex_(r))
        PROVE  TrackerInv'
    BY <2>1, <2>3, AcquireInv
  <2>4. ASSUME NEW w \in {"shared", "exclusive"},
               AddWaiter(t, r, w) \/ AddWaiter(t, mutex_(r), w)
        PROVE  TrackerInv'
    BY <2>1, <2>4, AddWaiterInv
  <2>5. CASE LockShared(t, r)
    BY <2>2, <2>4, <2>5 DEF LockShared
  <2>6. CASE TryLockShared(t, r)
    BY <2>2, <2>6, AbortTracker DEF TryLockShared
  <2>7. CASE LockExclusive(t, r)
    BY <2>3, <2>4, <2>7 DEF LockExclusive
  <2>8. CASE TryLockExclusive(t, r)
    BY <2>3, <2>8, AbortTracker DEF TryLockExclusive
  <2>9. CASE RwUnlock(t, r)
    BY <2>1, <2>9, DisownInv DEF RwUnlock
  <2>10. CASE ExclusiveToShared(t, r) \/ SharedToExclusive(t, r)
    BY <2>10, ConvertInv
  <2> QED BY <1>2, <2>5, <2>6, <2>7, <2>8, <2>9, <2>10 DEF RwStep
<1>3. ASSUME UNCHANGED vars PROVE TrackerInv'
  BY <1>3 DEF vars, TrackerInv, TypeOK, OwnersAndWaiters,
     TrackedDeadlocksReported, TrackedDeadlock, Dependencies, ReportsAreReal,
     Deadlocked
<1> QED BY <1>1, <1>2, <1>3, PrimitivesInv DEF Next, Stopped

(* The tracker's invariant, of which the two theorems below are parts.     *)
THEOREM TrackerSafe == Spec => []TrackerInv
BY InitTrackerInv, NextTrackerInv, PTL DEF Spec

(* DetectDeadlock misses no deadlock among the locks of the tracker.       *)
THEOREM DetectorComplete == Spec => []TrackedDeadlocksReported
<1>1. TrackerInv => TrackedDeadlocksReported
  BY DEF TrackerInv
<1> QED BY <1>1, TrackerSafe, PTL

(* DetectDeadlock reports nothing but deadlocks.                           *)
THEOREM DetectorSound == Spec => []ReportsAreReal
<1>1. TrackerInv => ReportsAreReal
  BY DEF TrackerInv
<1> QED BY <1>1, TrackerSafe, PTL

(* A program that uses mutexes only has all of its deadlocks reported: the *)
(* rwlock's inner mutex is what separates the two notions of deadlock.     *)
THEOREM MutexDeadlocksReported == Spec => [](RwLock = {} => DeadlocksReported)
<1>1. TrackerInv => (RwLock = {} => DeadlocksReported)
  <2> SUFFICES ASSUME TrackerInv, RwLock = {}, aborted = "no",
                      NEW S \in SUBSET Thread, Deadlocked(S)
               PROVE  S = {}
    BY DEF DeadlocksReported
  <2>1. ASSUME NEW t \in S PROVE Dependencies(t) = owners[waiting[t]]
    <3>1. waiting[t] \in Mutex
      BY DEF Deadlocked, TrackerInv, TypeOK, Sync
    <3>2. waiting[t] \in all_primitives_
      BY <3>1 DEF TrackerInv, OwnersAndWaiters
    <3> QED BY <3>2 DEF Dependencies
  <2>2. TrackedDeadlock(S)
    BY <2>1 DEF Deadlocked, TrackedDeadlock
  <2> QED BY <2>2 DEF TrackerInv, TrackedDeadlocksReported
<1> QED BY <1>1, TrackerSafe, PTL
-----------------------------------------------------------------------------
(* What FindDependencyPath's recursion computes.                           *)

LEMMA LeastOf ==
  ASSUME NEW T \in SUBSET Nat, T # {}
  PROVE  \E m \in T : \A k \in T : m <= k
<1>1. ASSUME NEW k \in Nat, NEW m \in Nat, k < m
      PROVE  <<k, m>> \in OpToRel(<, Nat)
  BY <1>1, Zenon DEF OpToRel
<1>2. PICK m \in T : \A k \in T : ~(<<k, m>> \in OpToRel(<, Nat))
  BY WFMin, NatLessThanWellFounded
<1>3. \A k \in T : ~(k < m)
  BY <1>1, <1>2, Zenon
<1> QED BY <1>3

(* Induction: a set of numbers that has 0 and the successors of its        *)
(* members has them all.                                                   *)
LEMMA AllNumbers ==
  ASSUME NEW T, 0 \in T, \A n \in Nat : n \in T => n + 1 \in T
  PROVE  Nat \subseteq T
<1> SUFFICES ASSUME Nat \ T # {} PROVE FALSE
  OBVIOUS
<1>1. PICK m \in Nat \ T : \A k \in Nat \ T : m <= k
  BY LeastOf
<1>2. m # 0 /\ m - 1 \in Nat
  BY <1>1
<1>3. m - 1 \in T
  BY <1>1, <1>2
<1>4. (m - 1) + 1 \in T
  BY <1>2, <1>3
<1> QED BY <1>1, <1>4

(* One call at the given depth, whose own calls answer as g says.          *)
Level(g, depth) ==
    [p \in Thread \X Thread |->
        IF p[1] = p[2] THEN "found"
        ELSE IF depth = 0 THEN "deep"
        ELSE LET results == {g[<<neighbor, p[2]>>] :
                                neighbor \in Dependencies(p[1])}
             IN  IF "deep" \in results THEN "deep"
                 ELSE IF "found" \in results THEN "found" ELSE "not found"]

Levels(n) == [0..n -> [Thread \X Thread -> {"found", "deep", "not found"}]]

LEMMA LevelType ==
  ASSUME NEW g, NEW d
  PROVE  Level(g, d) \in [Thread \X Thread -> {"found", "deep", "not found"}]
BY DEF Level

LEMMA LevelZero ==
  ASSUME NEW f, NEW g
  PROVE  Level(f, 0) = Level(g, 0)
BY DEF Level

(* The recursion has a solution, to any depth.                             *)
LEMMA LevelsExist ==
  ASSUME NEW N \in Nat
  PROVE  \E f \in Levels(N) : \A d \in 0..N : f[d] = Level(f[d - 1], d)
<1> DEFINE T == {n \in Nat : \E f \in Levels(n) :
                                \A d \in 0..n : f[d] = Level(f[d - 1], d)}
<1>1. 0 \in T
  <2> DEFINE f == [d \in 0..0 |-> Level(0, 0)]
  <2>1. f \in Levels(0)
    BY LevelType DEF Levels
  <2>2. \A d \in 0..0 : f[d] = Level(f[d - 1], d)
    <3> TAKE d \in 0..0
    <3>1. d = 0 /\ f[d] = Level(0, 0)
      OBVIOUS
    <3>2. Level(f[d - 1], 0) = Level(0, 0)
      BY LevelZero
    <3> QED BY <3>1, <3>2
  <2> QED BY <2>1, <2>2
<1>2. ASSUME NEW n \in Nat, n \in T PROVE n + 1 \in T
  <2>1. PICK f \in Levels(n) : \A d \in 0..n : f[d] = Level(f[d - 1], d)
    BY <1>2
  <2> DEFINE g == [d \in 0..(n + 1) |-> IF d <= n THEN f[d]
                                        ELSE Level(f[n], n + 1)]
  <2>2. g \in Levels(n + 1)
    <3>1. \A d \in 0..n : f[d] \in [Thread \X Thread ->
                                     {"found", "deep", "not found"}]
      BY DEF Levels
    <3>2. Level(f[n], n + 1) \in [Thread \X Thread ->
                                    {"found", "deep", "not found"}]
      BY LevelType
    <3>3. \A d \in 0..(n + 1) : ~(d <= n) \/ d \in 0..n
      OBVIOUS
    <3> HIDE DEF Level
    <3> QED BY <3>1, <3>2, <3>3 DEF Levels
  <2>3. ASSUME NEW d \in 0..(n + 1) PROVE g[d] = Level(g[d - 1], d)
    <3>1. CASE d = 0
      <4>1. g[d] = f[0] /\ f[0] = Level(f[0 - 1], 0)
        BY <3>1, <2>1
      <4>2. Level(f[0 - 1], 0) = Level(g[d - 1], 0)
        BY LevelZero
      <4> QED BY <3>1, <4>1, <4>2
    <3>2. CASE d # 0 /\ d <= n
      <4>1. d \in 0..n /\ d - 1 \in 0..(n + 1) /\ d - 1 <= n
        BY <3>2
      <4>2. g[d] = f[d] /\ g[d - 1] = f[d - 1]
        BY <3>2, <4>1
      <4> QED BY <2>1, <4>1, <4>2
    <3>3. CASE d = n + 1
      <4>1. d - 1 = n /\ n \in 0..(n + 1) /\ ~(d <= n)
        BY <3>3
      <4>2. g[d] = Level(f[n], n + 1) /\ g[n] = f[n]
        BY <4>1
      <4> QED BY <3>3, <4>1, <4>2
    <3> QED BY <3>1, <3>2, <3>3
  <2> HIDE DEF g
  <2> QED BY <2>2, <2>3
<1> HIDE DEF T
<1>3. Nat \subseteq T
  BY <1>1, <1>2, AllNumbers
<1> QED BY <1>3 DEF T

(* Hence Search is that solution.                                          *)
LEMMA SearchUnfolds ==
  /\ Cardinality(Thread) \in Nat
  /\ \A d \in 0..Cardinality(Thread) : Search[d] = Level(Search[d - 1], d)
<1> DEFINE N == Cardinality(Thread)
<1>1. N \in Nat
  BY ThreadAssumption, FS_CardinalityType
<1>2. PICK f \in Levels(N) : \A d \in 0..N : f[d] = Level(f[d - 1], d)
  BY <1>1, LevelsExist
<1>3. f = [d \in 0..N |-> Level(f[d - 1], d)]
  BY <1>2 DEF Levels
<1>4. Search = CHOOSE h : h = [d \in 0..N |-> Level(h[d - 1], d)]
  BY Zenon DEF Search, Level
<1> HIDE DEF N
<1>5. Search = [d \in 0..N |-> Level(Search[d - 1], d)]
  BY <1>3, <1>4, Zenon
<1>6. \A d \in 0..N : Search[d] = Level(Search[d - 1], d)
  BY <1>5, Zenon
<1> QED BY <1>1, <1>6 DEF N

Answer(g, d, s, t) ==
    IF s = t THEN "found" ELSE IF d = 0 THEN "deep"
    ELSE IF \E u \in Dependencies(s) : g[<<u, t>>] = "deep" THEN "deep"
    ELSE IF \E u \in Dependencies(s) : g[<<u, t>>] = "found"
         THEN "found" ELSE "not found"

LEMMA LevelAt ==
  ASSUME NEW g, NEW d, NEW s \in Thread, NEW t \in Thread
  PROVE  Level(g, d)[<<s, t>>] = Answer(g, d, s, t)
<1> DEFINE p == <<s, t>>
           Results(q) == {g[<<u, q[2]>>] : u \in Dependencies(q[1])}
<1>1. p \in Thread \X Thread /\ p[1] = s /\ p[2] = t
  OBVIOUS
<1>2. Level(g, d)[p] = IF p[1] = p[2] THEN "found" ELSE IF d = 0 THEN "deep"
                       ELSE IF "deep" \in Results(p) THEN "deep"
                       ELSE IF "found" \in Results(p)
                            THEN "found" ELSE "not found"
  BY <1>1, Zenon DEF Level
<1>3. ASSUME NEW r
      PROVE  r \in Results(p) <=> \E u \in Dependencies(s) : g[<<u, t>>] = r
  <2>1. Results(p) = {g[<<u, t>>] : u \in Dependencies(s)}
    BY <1>1
  <2> QED BY <2>1, Zenon
<1> HIDE DEF Results
<1>4. /\ "deep" \in Results(p) <=>
            \E u \in Dependencies(s) : g[<<u, t>>] = "deep"
      /\ "found" \in Results(p) <=>
            \E u \in Dependencies(s) : g[<<u, t>>] = "found"
  BY <1>3, Zenon
<1> QED BY <1>1, <1>2, <1>4 DEF Answer

(* The search from s to t, as a reader of the code sees it.                *)
LEMMA SearchHere ==
  ASSUME NEW d \in 0..Cardinality(Thread), NEW s \in Thread, NEW t \in Thread
  PROVE  /\ Search[d][<<s, t>>] \in {"found", "deep", "not found"}
         /\ s = t => Search[d][<<s, t>>] = "found"
<1> DEFINE g == Search[d - 1]
<1>1. Search[d] = Level(g, d)
  BY SearchUnfolds
<1> HIDE DEF g
<1>2. Level(g, d)[<<s, t>>] \in {"found", "deep", "not found"}
  <2>1. Level(g, d) \in [Thread \X Thread -> {"found", "deep", "not found"}]
    BY LevelType
  <2> QED BY <2>1
<1>3. s = t => Level(g, d)[<<s, t>>] = "found"
  <2>1. <<s, t>> \in Thread \X Thread /\ <<s, t>>[1] = s /\ <<s, t>>[2] = t
    OBVIOUS
  <2> QED BY <2>1 DEF Level
<1> QED BY <1>1, <1>2, <1>3

LEMMA SearchStops ==
  ASSUME NEW s \in Thread, NEW t \in Thread, s # t
  PROVE  Search[0][<<s, t>>] = "deep"
<1> DEFINE g == Search[0 - 1]
<1>1. 0 \in 0..Cardinality(Thread)
  BY SearchUnfolds
<1>2. Search[0] = Level(g, 0)
  BY <1>1, SearchUnfolds, Zenon
<1> HIDE DEF g
<1>3. Level(g, 0)[<<s, t>>] = "deep"
  BY LevelAt DEF Answer
<1> QED BY <1>2, <1>3

LEMMA SearchStep ==
  ASSUME NEW d \in Nat, d + 1 <= Cardinality(Thread), NEW s \in Thread,
         NEW t \in Thread, s # t
  PROVE  Search[d + 1][<<s, t>>] =
            IF \E u \in Dependencies(s) : Search[d][<<u, t>>] = "deep"
            THEN "deep"
            ELSE IF \E u \in Dependencies(s) : Search[d][<<u, t>>] = "found"
                 THEN "found" ELSE "not found"
<1> DEFINE e == d + 1
<1>1. e \in 0..Cardinality(Thread) /\ e - 1 = d /\ e # 0
  BY SearchUnfolds
<1>2. Search[e] = Level(Search[e - 1], e)
  BY <1>1, SearchUnfolds, Zenon
<1> DEFINE g == Search[d]
<1>3. Search[e] = Level(g, e)
  BY <1>1, <1>2
<1> HIDE DEF e, g
<1>4. Level(g, e)[<<s, t>>] =
            IF \E u \in Dependencies(s) : g[<<u, t>>] = "deep" THEN "deep"
            ELSE IF \E u \in Dependencies(s) : g[<<u, t>>] = "found"
                 THEN "found" ELSE "not found"
  <2>1. Level(g, e)[<<s, t>>] = Answer(g, e, s, t)
    BY LevelAt, Zenon
  <2> QED BY <1>1, <2>1 DEF Answer
<1> QED BY <1>3, <1>4, Zenon DEF e, g

(* Found: every step of the way is a dependency.                           *)
LEMMA FoundIsPath ==
  ASSUME TrackerInv, NEW d \in 0..Cardinality(Thread), NEW s \in Thread,
         NEW t \in Thread, Search[d][<<s, t>>] = "found"
  PROVE  FindDependencyPath(s, t)
<1> DEFINE N == Cardinality(Thread)
           T == {n \in Nat : n <= N => \A u \in Thread :
                    Search[n][<<u, t>>] = "found" => FindDependencyPath(u, t)}
<1>0. N \in Nat
  BY SearchUnfolds
<1>1. 0 \in T
  <2>1. \A u \in Thread : u # t => Search[0][<<u, t>>] = "deep"
    BY SearchStops
  <2>2. FindDependencyPath(t, t)
    BY DEF FindDependencyPath
  <2> QED BY <2>1, <2>2
<1>2. ASSUME NEW n \in Nat, n \in T PROVE n + 1 \in T
  <2> SUFFICES ASSUME n + 1 <= N, NEW u \in Thread,
                      Search[n + 1][<<u, t>>] = "found"
               PROVE  FindDependencyPath(u, t)
    OBVIOUS
  <2>1. CASE u = t
    BY <2>1 DEF FindDependencyPath
  <2>2. CASE u # t
    <3>1. n <= N
      BY <1>0
    <3>2. PICK v \in Dependencies(u) : Search[n][<<v, t>>] = "found"
      BY <2>2, SearchStep
    <3>3. v \in Thread
      BY DependenciesAreThreads
    <3>4. FindDependencyPath(v, t)
      BY <1>2, <3>1, <3>2, <3>3
    <3> QED BY <2>2, <3>4 DEF FindDependencyPath, ClosedUpTo
  <2> QED BY <2>1, <2>2
<1> HIDE DEF T
<1>3. Nat \subseteq T
  BY <1>1, <1>2, AllNumbers
<1> QED BY <1>0, <1>3 DEF T

LEMMA Predecessor ==
  ASSUME NEW N \in Nat, NEW e \in 0..N, e # 0
  PROVE  \E n \in Nat : n \in 0..N /\ e = n + 1 /\ n + 1 <= N
<1>1. e - 1 \in Nat /\ e - 1 \in 0..N /\ e = (e - 1) + 1 /\ (e - 1) + 1 <= N
  OBVIOUS
<1> QED BY <1>1

(* Not found: the threads for which the search failed, at this depth or    *)
(* below, are closed under dependency and do not have the destination.     *)
LEMMA NotFoundIsNoPath ==
  ASSUME TrackerInv, NEW d \in 0..Cardinality(Thread), NEW s \in Thread,
         NEW t \in Thread, Search[d][<<s, t>>] = "not found"
  PROVE  ~FindDependencyPath(s, t)
<1> DEFINE N == Cardinality(Thread)
           S == {u \in Thread : \E e \in 0..N :
                                   Search[e][<<u, t>>] = "not found"}
<1>0. N \in Nat
  BY SearchUnfolds
<1>1. s \in S /\ S \in SUBSET Thread
  OBVIOUS
<1>2. t \notin S
  <2>1. \A e \in 0..N : Search[e][<<t, t>>] = "found"
    BY SearchHere
  <2> QED BY <2>1
<1>3. ASSUME NEW u \in S, NEW v \in Dependencies(u) PROVE v \in S
  <2>1. PICK e \in 0..N : Search[e][<<u, t>>] = "not found"
    OBVIOUS
  <2>2. u # t /\ u \in Thread /\ v \in Thread
    BY <1>2, DependenciesAreThreads
  <2>3. e # 0
    BY <2>1, <2>2, SearchStops
  <2>4. PICK n \in Nat : n \in 0..N /\ e = n + 1 /\ n + 1 <= N
    BY <1>0, <2>1, <2>3, Predecessor, Zenon
  <2>5. Search[n][<<v, t>>] \notin {"found", "deep"}
    BY <2>1, <2>2, <2>4, SearchStep
  <2>6. Search[n][<<v, t>>] = "not found"
    <3>1. Search[n][<<v, t>>] \in {"found", "deep", "not found"}
      BY <2>2, <2>4, SearchHere, Zenon
    <3> QED BY <2>5, <3>1, Zenon
  <2> QED BY <2>2, <2>4, <2>6
<1> HIDE DEF S
<1> QED BY <1>1, <1>2, <1>3 DEF FindDependencyPath, ClosedUpTo

(* The threads from which a search of depth d is given up.  They grow      *)
(* fewer with each level: as many of them at the next level would wait for *)
(* one another, which DetectDeadlock has excluded.                         *)
Deep(d, t) == {s \in Thread : Search[d][<<s, t>>] = "deep"}

LEMMA DeepStep ==
  ASSUME TrackerInv, NEW d \in Nat, d + 1 <= Cardinality(Thread),
         NEW t \in Thread, NEW s \in Thread
  PROVE  s \in Deep(d + 1, t) <=>
            s # t /\ \E u \in Dependencies(s) : u \in Deep(d, t)
<1>1. Dependencies(s) \subseteq Thread
  BY DependenciesAreThreads
<1>2. s = t => Search[d + 1][<<s, t>>] = "found"
  <2>1. d + 1 \in 0..Cardinality(Thread)
    BY SearchUnfolds
  <2> QED BY <2>1, SearchHere
<1>3. s # t => (Search[d + 1][<<s, t>>] = "deep" <=>
                  \E u \in Dependencies(s) : Search[d][<<u, t>>] = "deep")
  BY SearchStep
<1> QED BY <1>1, <1>2, <1>3 DEF Deep

LEMMA DeepShrinks ==
  ASSUME TrackerInv, NEW t \in Thread
  PROVE  \A d \in Nat : d + 1 <= Cardinality(Thread) =>
            Deep(d + 1, t) \subseteq Deep(d, t)
<1> DEFINE N == Cardinality(Thread)
           T == {d \in Nat : d + 1 <= N => Deep(d + 1, t) \subseteq Deep(d, t)}
<1>0. N \in Nat
  BY SearchUnfolds
<1>1. 0 \in T
  <2> SUFFICES ASSUME 0 + 1 <= N, NEW s \in Thread, s \in Deep(0 + 1, t)
               PROVE  s \in Deep(0, t)
    BY DEF Deep
  <2>1. s # t
    BY DeepStep
  <2>2. Search[0][<<s, t>>] = "deep"
    BY <2>1, SearchStops
  <2> QED BY <2>2 DEF Deep
<1>2. ASSUME NEW n \in Nat, n \in T PROVE n + 1 \in T
  <2> SUFFICES ASSUME (n + 1) + 1 <= N, NEW s \in Thread,
                      s \in Deep((n + 1) + 1, t)
               PROVE  s \in Deep(n + 1, t)
    BY DEF Deep
  <2>1. n + 1 \in Nat /\ n + 1 <= N
    BY <1>0
  <2>2. s # t /\ \E u \in Dependencies(s) : u \in Deep(n + 1, t)
    BY <2>1, DeepStep
  <2>3. Deep(n + 1, t) \subseteq Deep(n, t)
    BY <1>2, <2>1
  <2> QED BY <2>1, <2>2, <2>3, DeepStep
<1> HIDE DEF T
<1>3. Nat \subseteq T
  BY <1>1, <1>2, AllNumbers
<1> QED BY <1>3 DEF T

LEMMA NeverAllDeep ==
  ASSUME TrackerInv, aborted = "no", NEW t \in Thread, NEW d \in Nat,
         d + 1 <= Cardinality(Thread), Deep(d + 1, t) = Deep(d, t)
  PROVE  Deep(d + 1, t) = {}
<1> DEFINE S == Deep(d + 1, t)
<1>1. S \in SUBSET Thread
  BY DEF Deep
<1>2. ASSUME NEW s \in S PROVE Dependencies(s) \intersect S # {}
  BY <1>1, DeepStep
<1> QED BY <1>1, <1>2 DEF TrackerInv, TrackedDeadlocksReported, TrackedDeadlock

(* No search goes as deep as there are threads.                            *)
LEMMA NeverDeep ==
  ASSUME TrackerInv, aborted = "no", NEW t \in Thread
  PROVE  Deep(Cardinality(Thread), t) = {}
<1> DEFINE N == Cardinality(Thread)
           T == {d \in Nat : d <= N => \/ Deep(d, t) = {}
                                       \/ Cardinality(Deep(d, t)) + d < N}
<1>0. N \in Nat /\ IsFiniteSet(Thread)
  BY SearchUnfolds, ThreadAssumption
<1>1. ASSUME NEW d PROVE /\ Deep(d, t) \in SUBSET Thread
                         /\ IsFiniteSet(Deep(d, t))
                         /\ Cardinality(Deep(d, t)) \in Nat
  <2>1. Deep(d, t) \in SUBSET Thread
    BY DEF Deep
  <2>2. IsFiniteSet(Deep(d, t))
    BY <1>0, <2>1, FS_Subset
  <2> QED BY <2>1, <2>2, FS_CardinalityType
<1>2. 0 \in T
  <2>1. t \notin Deep(0, t)
    <3>1. 0 \in 0..N
      BY <1>0
    <3> QED BY <3>1, SearchHere DEF Deep
  <2>2. Cardinality(Deep(0, t)) <= N /\ Cardinality(Deep(0, t)) # N
    BY <1>0, <1>1, <2>1, FS_Subset
  <2>3. Cardinality(Deep(0, t)) + 0 < N
    BY <1>0, <1>1, <2>2
  <2> QED BY <2>3
<1>3. ASSUME NEW n \in Nat, n \in T PROVE n + 1 \in T
  <2> SUFFICES ASSUME n + 1 <= N, Deep(n + 1, t) # {}
               PROVE  Cardinality(Deep(n + 1, t)) + (n + 1) < N
    OBVIOUS
  <2>1. Deep(n + 1, t) \subseteq Deep(n, t) /\ Deep(n + 1, t) # Deep(n, t)
    BY DeepShrinks, NeverAllDeep
  <2>2. /\ Cardinality(Deep(n + 1, t)) <= Cardinality(Deep(n, t))
        /\ Cardinality(Deep(n + 1, t)) # Cardinality(Deep(n, t))
    BY <1>1, <2>1, FS_Subset
  <2>3. n <= N /\ Deep(n, t) # {}
    BY <1>0, <2>1
  <2>4. Cardinality(Deep(n, t)) + n < N
    BY <1>3, <2>3
  <2>5. Cardinality(Deep(n, t)) \in Nat /\ Cardinality(Deep(n + 1, t)) \in Nat
    BY <1>1
  <2> QED BY <1>0, <2>2, <2>4, <2>5
<1> HIDE DEF T
<1>4. N \in T
  BY <1>0, <1>2, <1>3, AllNumbers
<1>5. Deep(N, t) = {} \/ Cardinality(Deep(N, t)) + N < N
  BY <1>0, <1>4 DEF T
<1> QED BY <1>0, <1>1, <1>5

(* SyncTracker::FindDependencyPath marks no thread as visited, and still   *)
(* comes back, within as many nested calls as there are threads: the       *)
(* deadlocks reported before have left no cycle to run around in.  Its     *)
(* answer is whether the destination can be reached, which is what the     *)
(* theorems about DetectDeadlock take it for.                              *)
THEOREM SearchIsReachability == Spec => []SearchReturnsReachability
<1>1. TrackerInv => SearchReturnsReachability
  <2> SUFFICES ASSUME TrackerInv, aborted = "no", NEW p \in Thread \X Thread
               PROVE  Search[Cardinality(Thread)][p]
                         = IF FindDependencyPath(p[1], p[2]) THEN "found"
                           ELSE "not found"
    BY DEF SearchReturnsReachability
  <2> DEFINE N == Cardinality(Thread)
  <2>1. PICK s \in Thread, t \in Thread : p = <<s, t>>
    OBVIOUS
  <2>2. N \in 0..N
    BY SearchUnfolds
  <2>3. Search[N][<<s, t>>] \in {"found", "deep", "not found"}
    BY <2>2, SearchHere
  <2>4. Search[N][<<s, t>>] # "deep"
    BY NeverDeep DEF Deep
  <2>5. Search[N][<<s, t>>] = "found" => FindDependencyPath(s, t)
    BY <2>2, FoundIsPath
  <2>6. Search[N][<<s, t>>] = "not found" => ~FindDependencyPath(s, t)
    BY <2>2, NotFoundIsNoPath
  <2>7. p[1] = s /\ p[2] = t
    BY <2>1
  <2> QED BY <2>1, <2>3, <2>4, <2>5, <2>6, <2>7
<1> QED BY <1>1, TrackerSafe, PTL
=============================================================================
