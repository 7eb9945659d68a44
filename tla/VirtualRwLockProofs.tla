------------------------ MODULE VirtualRwLockProofs ------------------------
(***************************************************************************)
(* Safety of the readers-writer lock for every set of threads, with        *)
(* spurious wakeups, and with or without calls out of turn.                *)
(***************************************************************************)
EXTENDS MCVirtualRwLock, TLAPS

LEMMA InitRwInv == Init => RwLockInv
BY ThreadAssumption
   DEF Init, RwLockInv, TypeOK, Pc, WaitersMatchPc, HoldIsReal, NoLostWakeup,
       HolderNeverBlocks, PairedCallsNeverAbort

(* Steps of the scheduler and of threads outside the lock.                 *)
LEMMA OutsideInv ==
  ASSUME RwLockInv, NEW t \in Thread,
         Dispatch(t) \/ Yield(t) \/ Park(t) \/ SpuriousWake(t)
  PROVE  RwLockInv'
BY ThreadAssumption
   DEF Dispatch, Yield, Park, SpuriousWake, Idle, lock, RwLockInv, TypeOK, Pc,
       WaitersMatchPc, HoldIsReal, NoLostWakeup, HolderNeverBlocks,
       PairedCallsNeverAbort

LEMMA AbortInv ==
  ASSUME RwLockInv, Misuse, Abort
  PROVE  RwLockInv'
BY DEF Abort, lock, RwLockInv, TypeOK, Pc, WaitersMatchPc, HoldIsReal,
       NoLostWakeup, HolderNeverBlocks, PairedCallsNeverAbort

(* Blocking on mutex_, by a thread that holds nothing while another does.  *)
LEMMA BlockOnMutexInv ==
  ASSUME RwLockInv, NEW t \in Thread, running = t,
         NEW p \in {"exMutex", "shMutex", "unshMutex"},
         p = "unshMutex" => Misuse,
         mutex_owner # None, mutex_owner # t => hold[t] = "none",
         mutex_owner = t => Misuse,
         BlockOnMutex(t, p)
  PROVE  RwLockInv'
<1>1. CASE mutex_owner = t
  BY <1>1, AbortInv DEF BlockOnMutex
<1>2. CASE mutex_owner # t
  BY <1>2, ThreadAssumption
     DEF BlockOnMutex, RwLockInv, TypeOK, Pc, WaitersMatchPc, HoldIsReal,
         NoLostWakeup, HolderNeverBlocks, PairedCallsNeverAbort
<1> QED BY <1>1, <1>2

(* Blocking until there is no reader.                                      *)
LEMMA BlockOnOwnersInv ==
  ASSUME RwLockInv, NEW t \in Thread, running = t, NEW w \in SUBSET Thread,
         owners_ # {}, t \in owners_ => Misuse,
         BlockOnOwners(t, w)
  PROVE  RwLockInv'
<1>1. CASE t \in owners_
  BY <1>1, AbortInv DEF BlockOnOwners
<1>2. CASE t \notin owners_
  BY <1>2, ThreadAssumption
     DEF BlockOnOwners, RwLockInv, TypeOK, Pc, WaitersMatchPc, HoldIsReal,
         NoLostWakeup, HolderNeverBlocks, PairedCallsNeverAbort
<1> QED BY <1>1, <1>2

LEMMA TakeExclusiveInv ==
  ASSUME RwLockInv, NEW t \in Thread, running = t,
         owners_ = {}, mutex_owner = None, TakeExclusive(t)
  PROVE  RwLockInv'
BY ThreadAssumption
   DEF TakeExclusive, Return, RwLockInv, TypeOK, Pc, WaitersMatchPc,
       HoldIsReal, NoLostWakeup, HolderNeverBlocks, PairedCallsNeverAbort

LEMMA JoinOwnersInv ==
  ASSUME RwLockInv, NEW t \in Thread, running = t,
         pc[t] # "exOwners",
         mutex_owner = None, t \in owners_ => Misuse, JoinOwners(t)
  PROVE  RwLockInv'
<1>1. CASE t \in owners_
  BY <1>1, AbortInv DEF JoinOwners
<1>2. CASE t \notin owners_
  <2>1. /\ owners_' = owners_ \union {t} /\ mutex_owner' = None
        /\ mutex_waiters' = mutex_waiters \ {t} /\ waiters_' = waiters_
        /\ pc' = [pc EXCEPT ![t] = "idle"]
        /\ hold' = [hold EXCEPT ![t] = "shared"]
        /\ ready' = ready \union (mutex_waiters \ {t})
        /\ running' = t /\ aborted' = aborted
    BY <1>2 DEF JoinOwners, Return
  <2>2. TypeOK'
    BY <2>1 DEF RwLockInv, TypeOK, Pc
  <2>3. WaitersMatchPc'
    BY <2>1 DEF RwLockInv, TypeOK, Pc, WaitersMatchPc
  <2>4. HoldIsReal'
    BY <2>1, ThreadAssumption DEF RwLockInv, TypeOK, HoldIsReal
  <2>5. NoLostWakeup'
    BY <2>1 DEF RwLockInv, TypeOK, NoLostWakeup
  <2>6. HolderNeverBlocks' /\ PairedCallsNeverAbort'
    BY <2>1 DEF RwLockInv, TypeOK, HolderNeverBlocks, PairedCallsNeverAbort
  <2> QED BY <2>2, <2>3, <2>4, <2>5, <2>6 DEF RwLockInv
<1> QED BY <1>1, <1>2

LEMMA LeaveOwnersInv ==
  ASSUME RwLockInv, NEW t \in Thread, running = t,
         mutex_owner = None, t \notin owners_ => Misuse, LeaveOwners(t)
  PROVE  RwLockInv'
<1>1. CASE t \notin owners_
  BY <1>1, AbortInv DEF LeaveOwners
<1>2. CASE t \in owners_
  <2>1. owners_' = {} => owners_ = {t}
    BY <1>2 DEF LeaveOwners, RwLockInv, TypeOK
  <2> QED
    BY <1>2, <2>1, ThreadAssumption
       DEF LeaveOwners, WokenByRemoveOwner, Return, RwLockInv, TypeOK, Pc,
           WaitersMatchPc, HoldIsReal, NoLostWakeup, HolderNeverBlocks,
           PairedCallsNeverAbort
<1> QED BY <1>1, <1>2

(* The release of an exclusive hold, and the downgrade.                    *)
LEMMA ExclusiveEndsInv ==
  ASSUME RwLockInv, NEW t \in Thread, running = t, pc[t] = "idle",
         hold[t] # "exclusive" => Misuse,
         \/ ReleaseExclusive(t)
         \/ ExclusiveToShared(t)
  PROVE  RwLockInv'
<1>1. CASE mutex_owner # t \/ owners_ # {}
  <2>1. Misuse
    BY <1>1, ThreadAssumption DEF RwLockInv, HoldIsReal
  <2> QED BY <1>1, <2>1, AbortInv DEF ReleaseExclusive, ExclusiveToShared
<1>2. CASE mutex_owner = t /\ owners_ = {} /\ ReleaseExclusive(t)
  BY <1>2, ThreadAssumption
     DEF ReleaseExclusive, Return, RwLockInv, TypeOK, Pc, WaitersMatchPc,
         HoldIsReal, NoLostWakeup, HolderNeverBlocks, PairedCallsNeverAbort
<1>3. CASE mutex_owner = t /\ owners_ = {} /\ ExclusiveToShared(t)
  BY <1>3, ThreadAssumption
     DEF ExclusiveToShared, Return, RwLockInv, TypeOK, Pc, WaitersMatchPc,
         HoldIsReal, NoLostWakeup, HolderNeverBlocks, PairedCallsNeverAbort
<1> QED BY <1>1, <1>2, <1>3

LEMMA ReleaseSharedInv ==
  ASSUME RwLockInv, NEW t \in Thread, running = t,
         hold[t] # "shared" => Misuse,
         ReleaseShared(t)
  PROVE  RwLockInv'
<1>1. CASE mutex_owner # None /\ BlockOnMutex(t, "unshMutex")
  <2>1. hold[t] # "shared" /\ Misuse
    BY <1>1 DEF RwLockInv, HoldIsReal
  <2>2. mutex_owner # t => hold[t] = "none"
    BY <2>1 DEF RwLockInv, HoldIsReal, TypeOK
  <2> QED BY <1>1, <2>1, <2>2, BlockOnMutexInv
<1>2. CASE mutex_owner = None /\ LeaveOwners(t)
  BY <1>2, LeaveOwnersInv DEF RwLockInv, HoldIsReal
<1> QED BY <1>1, <1>2 DEF ReleaseShared

LEMMA SharedToExclusiveInv ==
  ASSUME RwLockInv, NEW t \in Thread, SharedToExclusive(t)
  PROVE  RwLockInv'
<1>0. running = t /\ pc[t] = "idle" /\ (hold[t] # "shared" => Misuse)
  BY DEF SharedToExclusive, May, Idle
<1>1. CASE t \notin owners_
  BY <1>0, <1>1, AbortInv DEF SharedToExclusive, RwLockInv, HoldIsReal
<1>2. CASE t \in owners_
  <2>1. mutex_owner = None /\ (owners_' = {} <=> owners_ = {t})
    BY <1>2 DEF SharedToExclusive, RwLockInv, HoldIsReal
  <2> QED
    BY <1>0, <1>2, <2>1, ThreadAssumption
       DEF SharedToExclusive, WokenByRemoveOwner, Return, RwLockInv, TypeOK,
           Pc, WaitersMatchPc, HoldIsReal, NoLostWakeup, HolderNeverBlocks,
           PairedCallsNeverAbort
<1> QED BY <1>1, <1>2

(* Taking the lock, on the first attempt or after being woken: a thread    *)
(* that already holds it aborts, which only calls out of turn can do.      *)
LEMMA AcquireInv ==
  ASSUME RwLockInv, NEW t \in Thread, running = t,
         hold[t] # "none" => Misuse,
         \/ owners_ # {} /\ BlockOnOwners(t, {})
         \/ owners_ # {} /\ BlockOnOwners(t, mutex_waiters)
         \/ mutex_owner # None /\ BlockOnMutex(t, "exMutex") /\ owners_ = {}
         \/ mutex_owner # None /\ BlockOnMutex(t, "exMutex") /\ hold[t] = "none"
         \/ owners_ = {} /\ mutex_owner = None /\ TakeExclusive(t)
         \/ mutex_owner # None /\ BlockOnMutex(t, "shMutex")
         \/ mutex_owner = None /\ JoinOwners(t) /\ pc[t] # "exOwners"
  PROVE  RwLockInv'
<1>1. /\ t \in owners_ => Misuse
      /\ mutex_owner = t => Misuse
      /\ mutex_owner # None /\ mutex_owner # t => hold[t] = "none"
      /\ mutex_waiters \in SUBSET Thread /\ {} \in SUBSET Thread
  BY DEF RwLockInv, HoldIsReal, TypeOK
<1> QED BY <1>1, BlockOnOwnersInv, BlockOnMutexInv, TakeExclusiveInv,
           JoinOwnersInv

LEMMA NextRwInv == RwLockInv /\ [Next]_vars => RwLockInv'
<1> SUFFICES ASSUME RwLockInv, [Next]_vars PROVE RwLockInv'
  OBVIOUS
<1>1. ASSUME NEW t \in Thread, TryLockExclusive(t) PROVE RwLockInv'
  <2>1. CASE mutex_owner = t /\ Abort
    <3>1. Misuse
      BY <1>1, <2>1 DEF TryLockExclusive, May, Idle, RwLockInv, HoldIsReal
    <3> QED BY <2>1, <3>1, AbortInv
  <2>2. CASE mutex_owner = None /\ TakeExclusive(t)
    BY <1>1, <2>2, TakeExclusiveInv DEF TryLockExclusive, May, Idle
  <2> QED BY <1>1, <2>1, <2>2 DEF TryLockExclusive
<1>2. ASSUME NEW t \in Thread, TryLockShared(t) PROVE RwLockInv'
  <2>1. CASE mutex_owner = t /\ Abort
    <3>1. Misuse
      BY <1>2, <2>1 DEF TryLockShared, May, Idle, RwLockInv, HoldIsReal
    <3> QED BY <2>1, <3>1, AbortInv
  <2>2. CASE mutex_owner = None /\ JoinOwners(t)
    BY <1>2, <2>2, AcquireInv DEF TryLockShared, May, Idle
  <2> QED BY <1>2, <2>1, <2>2 DEF TryLockShared
<1>3. ASSUME NEW t \in Thread, LockExclusive(t) PROVE RwLockInv'
  BY <1>3, AcquireInv DEF LockExclusive, May, Idle
<1>4. ASSUME NEW t \in Thread, LockShared(t) PROVE RwLockInv'
  BY <1>4, AcquireInv DEF LockShared, May, Idle
<1>5. ASSUME NEW t \in Thread, UnlockExclusive(t) PROVE RwLockInv'
  BY <1>5, ExclusiveEndsInv DEF UnlockExclusive, May, Idle
<1>6. ASSUME NEW t \in Thread, UnlockShared(t) PROVE RwLockInv'
  BY <1>6, ReleaseSharedInv DEF UnlockShared, May, Idle
<1>7. ASSUME NEW t \in Thread, Unlock(t) PROVE RwLockInv'
  <2>1. running = t /\ pc[t] = "idle" /\ (hold[t] = "none" => Misuse)
    BY <1>7 DEF Unlock, May, Idle
  <2>2. CASE owners_ = {} /\ ReleaseExclusive(t)
    <3>1. hold[t] # "exclusive" => Misuse
      BY <2>1, <2>2 DEF RwLockInv, HoldIsReal, TypeOK
    <3> QED BY <2>1, <2>2, <3>1, ExclusiveEndsInv
  <2>3. CASE owners_ # {} /\ ReleaseShared(t)
    <3>1. hold[t] # "shared" => Misuse
      BY <2>1, <2>3, ThreadAssumption DEF RwLockInv, HoldIsReal, TypeOK
    <3> QED BY <2>1, <2>3, <3>1, ReleaseSharedInv
  <2> QED BY <1>7, <2>2, <2>3 DEF Unlock
<1>8. ASSUME NEW t \in Thread, ExclusiveToShared(t) PROVE RwLockInv'
  BY <1>8, ExclusiveEndsInv DEF ExclusiveToShared, May, Idle
<1>9. ASSUME NEW t \in Thread, SharedToExclusive(t) PROVE RwLockInv'
  BY <1>9, SharedToExclusiveInv
<1>10. ASSUME NEW t \in Thread, Resume(t) PROVE RwLockInv'
  <2>1. running = t /\ hold[t] = "none"
    BY <1>10 DEF Resume, ResumeOwners, ResumeExMutex, ResumeShMutex,
       ResumeUnshMutex, In, RwLockInv, HolderNeverBlocks
  <2>2. CASE ResumeUnshMutex(t)
    <3>1. Misuse
      BY <2>2 DEF ResumeUnshMutex, In, RwLockInv, HolderNeverBlocks
    <3> QED BY <2>1, <2>2, <3>1, ReleaseSharedInv DEF ResumeUnshMutex
  <2>3. CASE ResumeOwners(t)
    BY <2>1, <2>3, AcquireInv DEF ResumeOwners
  <2>4. CASE ResumeExMutex(t)
    BY <2>1, <2>4, AcquireInv DEF ResumeExMutex
  <2>5. CASE ResumeShMutex(t)
    BY <2>1, <2>5, AcquireInv DEF ResumeShMutex, In
  <2> QED BY <1>10, <2>2, <2>3, <2>4, <2>5 DEF Resume
<1>11. ASSUME UNCHANGED vars PROVE RwLockInv'
  BY <1>11 DEF vars, lock, RwLockInv, TypeOK, WaitersMatchPc, HoldIsReal,
     NoLostWakeup, HolderNeverBlocks, PairedCallsNeverAbort
<1> QED BY <1>1, <1>2, <1>3, <1>4, <1>5, <1>6, <1>7, <1>8, <1>9, <1>10, <1>11,
           OutsideInv DEF Next, Call, Release, Stopped

(* The invariant of the lock holds in every reachable state.               *)
THEOREM RwLockSafe == Spec => []RwLockInv
BY InitRwInv, NextRwInv, PTL DEF Spec

(* Readers and a writer never hold the lock together, nor two writers.     *)
THEOREM RwLockExclusion == Spec => []Exclusion
<1>1. RwLockInv => Exclusion
  BY ThreadAssumption DEF RwLockInv, Exclusion, HoldIsReal, TypeOK
<1> QED BY <1>1, RwLockSafe, PTL

(* No unlock loses a wakeup: a thread whose reason to wait has gone is     *)
(* runnable or running.                                                    *)
THEOREM RwLockNoLostWakeup == Spec => []NoLostWakeup
<1>1. RwLockInv => NoLostWakeup
  BY DEF RwLockInv
<1> QED BY <1>1, RwLockSafe, PTL

(* A thread that holds the lock is never blocked inside it, as             *)
(* lck_rw_sleep needs of UnlockShared.                                     *)
THEOREM RwLockHolderNeverBlocks == Spec => []HolderNeverBlocks
<1>1. RwLockInv => HolderNeverBlocks
  BY DEF RwLockInv
<1> QED BY <1>1, RwLockSafe, PTL

(* What the refinement mapping is, by HoldIsReal.                          *)
LEMMA Holders ==
  ASSUME RwLockInv
  PROVE  /\ {t \in Thread : hold[t] = "shared"} = owners_
         /\ {t \in Thread : hold[t] = "exclusive"} = {mutex_owner} \ {None}
BY ThreadAssumption DEF RwLockInv, HoldIsReal, TypeOK

(* The owners of a step: unchanged, or changed as the abstract lock does.  *)
LEMMA OwnersStep ==
  ASSUME RwLockInv, Next
  PROVE  \/ owners_' = owners_ /\ mutex_owner' = mutex_owner
         \/ \E t \in Thread :
              \/ /\ mutex_owner = None /\ t \notin owners_
                 /\ owners_' = owners_ \union {t} /\ mutex_owner' = None
              \/ /\ mutex_owner = None /\ owners_ = {}
                 /\ owners_' = {} /\ mutex_owner' = t
              \/ /\ mutex_owner = t
                 /\ owners_' = owners_ /\ mutex_owner' = None
              \/ /\ t \in owners_ /\ mutex_owner' = mutex_owner
                 /\ owners_' = owners_ \ {t}
              \/ /\ mutex_owner = t /\ owners_ = {}
                 /\ owners_' = {t} /\ mutex_owner' = None
              \/ /\ owners_ = {t} /\ mutex_owner = None
                 /\ owners_' = {} /\ mutex_owner' = t
<1>1. ASSUME NEW t \in Thread,
             Dispatch(t) \/ Yield(t) \/ Park(t) \/ SpuriousWake(t)
      PROVE  owners_' = owners_ /\ mutex_owner' = mutex_owner
  BY <1>1 DEF Dispatch, Yield, Park, SpuriousWake, lock
<1>2. ASSUME NEW t \in Thread, NEW w, NEW p,
             Abort \/ BlockOnMutex(t, p) \/ BlockOnOwners(t, w)
      PROVE  owners_' = owners_ /\ mutex_owner' = mutex_owner
  BY <1>2 DEF Abort, BlockOnMutex, BlockOnOwners, lock
<1>3. ASSUME NEW t \in Thread, JoinOwners(t)
      PROVE  \/ owners_' = owners_ /\ mutex_owner' = mutex_owner
             \/ /\ t \notin owners_
                /\ owners_' = owners_ \union {t} /\ mutex_owner' = None
  BY <1>3 DEF JoinOwners, Abort, lock
<1>4. ASSUME NEW t \in Thread, LeaveOwners(t)
      PROVE  \/ owners_' = owners_ /\ mutex_owner' = mutex_owner
             \/ /\ t \in owners_ /\ mutex_owner' = mutex_owner
                /\ owners_' = owners_ \ {t}
  BY <1>4 DEF LeaveOwners, Abort, lock
<1>5. ASSUME NEW t \in Thread, TakeExclusive(t)
      PROVE  owners_' = owners_ /\ mutex_owner' = t
  BY <1>5 DEF TakeExclusive
<1>6. ASSUME NEW t \in Thread, ReleaseExclusive(t)
      PROVE  \/ owners_' = owners_ /\ mutex_owner' = mutex_owner
             \/ /\ mutex_owner = t
                /\ owners_' = owners_ /\ mutex_owner' = None
  BY <1>6 DEF ReleaseExclusive, Abort, lock
<1>7. ASSUME NEW t \in Thread, ExclusiveToShared(t)
      PROVE  \/ owners_' = owners_ /\ mutex_owner' = mutex_owner
             \/ /\ mutex_owner = t /\ owners_ = {}
                /\ owners_' = {t} /\ mutex_owner' = None
  BY <1>7 DEF ExclusiveToShared, Abort, lock
<1>8. ASSUME NEW t \in Thread, SharedToExclusive(t)
      PROVE  \/ owners_' = owners_ /\ mutex_owner' = mutex_owner
             \/ /\ t \in owners_ /\ mutex_owner' = mutex_owner
                /\ owners_' = owners_ \ {t}
             \/ /\ owners_ = {t} /\ mutex_owner = None
                /\ owners_' = {} /\ mutex_owner' = t
  BY <1>8 DEF SharedToExclusive, Abort, lock
<1>9. ASSUME NEW t \in Thread, ReleaseShared(t)
      PROVE  \/ owners_' = owners_ /\ mutex_owner' = mutex_owner
             \/ /\ t \in owners_ /\ mutex_owner' = mutex_owner
                /\ owners_' = owners_ \ {t}
  BY <1>2, <1>4, <1>9 DEF ReleaseShared
<1>10. CASE Stopped
  BY <1>10 DEF Stopped, vars, lock
<1>11. ASSUME NEW t \in Thread, TryLockExclusive(t) \/ TryLockShared(t)
                               \/ LockExclusive(t) \/ LockShared(t)
       PROVE  \/ owners_' = owners_ /\ mutex_owner' = mutex_owner
              \/ /\ mutex_owner = None /\ t \notin owners_
                 /\ owners_' = owners_ \union {t} /\ mutex_owner' = None
              \/ /\ mutex_owner = None /\ owners_ = {}
                 /\ owners_' = {} /\ mutex_owner' = t
  BY <1>2, <1>3, <1>5, <1>11
     DEF TryLockExclusive, TryLockShared, LockExclusive, LockShared
<1>12. ASSUME NEW t \in Thread, ResumeOwners(t) \/ ResumeExMutex(t)
                               \/ ResumeShMutex(t)
       PROVE  \/ owners_' = owners_ /\ mutex_owner' = mutex_owner
              \/ /\ mutex_owner = None /\ t \notin owners_
                 /\ owners_' = owners_ \union {t} /\ mutex_owner' = None
              \/ /\ mutex_owner = None /\ owners_ = {}
                 /\ owners_' = {} /\ mutex_owner' = t
  BY <1>2, <1>3, <1>5, <1>12 DEF ResumeOwners, ResumeExMutex, ResumeShMutex
<1>13. ASSUME NEW t \in Thread, Call(t) \/ Release(t) \/ Resume(t)
       PROVE  \/ TryLockExclusive(t) \/ TryLockShared(t)
              \/ LockExclusive(t) \/ LockShared(t)
              \/ ExclusiveToShared(t) \/ SharedToExclusive(t)
              \/ ReleaseExclusive(t) \/ ReleaseShared(t)
              \/ ResumeOwners(t) \/ ResumeExMutex(t) \/ ResumeShMutex(t)
  BY <1>13 DEF Call, Release, Resume, UnlockExclusive, UnlockShared, Unlock,
     ResumeUnshMutex
<1>14. CASE \E t \in Thread : Call(t) \/ Release(t) \/ Resume(t)
  <2>1. PICK t \in Thread : Call(t) \/ Release(t) \/ Resume(t)
    BY <1>14
  <2> QED BY <2>1, <1>6, <1>7, <1>8, <1>9, <1>11, <1>12, <1>13
<1> QED BY <1>1, <1>10, <1>14 DEF Next

LEMMA RWStep == RwLockInv /\ RwLockInv' /\ [Next]_vars => [RW!Next]_RW!vars
<1> SUFFICES ASSUME RwLockInv, RwLockInv', [Next]_vars
             PROVE  [RW!Next]_RW!vars
  OBVIOUS
<1> DEFINE Sh == {t \in Thread : hold[t] = "shared"}
           Ex == {t \in Thread : hold[t] = "exclusive"}
<1>1. Sh = owners_ /\ Ex = {mutex_owner} \ {None}
  BY Holders
<1>2. Sh' = owners_' /\ Ex' = {mutex_owner'} \ {None}
  <2>1. ThreadAssumption
    BY ThreadAssumption
  <2> QED BY <2>1 DEF ThreadAssumption, RwLockInv, HoldIsReal, TypeOK
<1>3. CASE UNCHANGED vars
  BY <1>3 DEF vars, RW!vars
<1>4. CASE owners_' = owners_ /\ mutex_owner' = mutex_owner
  BY <1>1, <1>2, <1>4 DEF RW!vars
<1>5. ASSUME NEW t \in Thread, mutex_owner = None, t \notin owners_,
             owners_' = owners_ \union {t}, mutex_owner' = None
      PROVE  RW!AcquireShared(t)
  BY <1>1, <1>2, <1>5 DEF RW!AcquireShared
<1>6. ASSUME NEW t \in Thread, mutex_owner = None, owners_ = {},
             owners_' = {}, mutex_owner' = t
      PROVE  RW!AcquireExclusive(t)
  BY <1>1, <1>2, <1>6, ThreadAssumption DEF RW!AcquireExclusive
<1>7. ASSUME NEW t \in Thread, mutex_owner = t,
             owners_' = owners_, mutex_owner' = None
      PROVE  RW!Release(t)
  <2>1. t \notin owners_
    BY <1>7, ThreadAssumption DEF RwLockInv, HoldIsReal
  <2> QED BY <1>1, <1>2, <1>7, <2>1, ThreadAssumption DEF RW!Release
<1>8. ASSUME NEW t \in Thread, t \in owners_, mutex_owner' = mutex_owner,
             owners_' = owners_ \ {t}
      PROVE  RW!Release(t)
  <2>1. mutex_owner = None
    BY <1>8 DEF RwLockInv, HoldIsReal
  <2> QED BY <1>1, <1>2, <1>8, <2>1, ThreadAssumption DEF RW!Release
<1>9. ASSUME NEW t \in Thread, mutex_owner = t, owners_ = {},
             owners_' = {t}, mutex_owner' = None
      PROVE  RW!Downgrade(t)
  BY <1>1, <1>2, <1>9, ThreadAssumption DEF RW!Downgrade
<1>10. ASSUME NEW t \in Thread, owners_ = {t}, mutex_owner = None,
              owners_' = {}, mutex_owner' = t
       PROVE  RW!Upgrade(t)
  BY <1>1, <1>2, <1>10, ThreadAssumption DEF RW!Upgrade
<1>11. CASE Next
  BY <1>4, <1>5, <1>6, <1>7, <1>8, <1>9, <1>10, <1>11, OwnersStep DEF RW!Next
<1> QED BY <1>3, <1>11

(* The lock implements the abstract readers-writer lock.                   *)
THEOREM RwLockImplementsRW == Spec => ImplementsRW
<1>1. Init => RW!Init
  BY DEF Init, RW!Init
<1> QED BY <1>1, RwLockSafe, RWStep, PTL DEF Spec, ImplementsRW, RW!Spec
-----------------------------------------------------------------------------
(* Paired clients, whatever Misuse is: what they hold rules the aborts out.*)

(* No abort, and no thread blocked in a release.                           *)
Smooth == ~aborted /\ \A t \in Thread : pc[t] # "unshMutex"

LEMMA BlockSmooth ==
  ASSUME RwLockInv, Smooth, NEW t \in Thread, hold[t] = "none",
         NEW p \in {"exMutex", "shMutex"}, NEW w,
         BlockOnMutex(t, p) \/ BlockOnOwners(t, w)
  PROVE  Smooth'
<1>1. mutex_owner # t /\ t \notin owners_
  BY DEF RwLockInv, HoldIsReal
<1> QED BY <1>1 DEF BlockOnMutex, BlockOnOwners, Smooth, RwLockInv, TypeOK

LEMMA TakeSmooth ==
  ASSUME RwLockInv, Smooth, NEW t \in Thread, hold[t] = "none",
         TakeExclusive(t) \/ JoinOwners(t)
  PROVE  Smooth'
<1>1. t \notin owners_
  BY DEF RwLockInv, HoldIsReal
<1> QED BY <1>1 DEF TakeExclusive, JoinOwners, Return, Smooth, RwLockInv, TypeOK

LEMMA PairedCallSmooth ==
  ASSUME RwLockInv, Smooth, NEW t \in Thread, PairedCall(t)
  PROVE  Smooth'
<1>1. CASE hold[t] = "none" /\ (TryLockExclusive(t) \/ TryLockShared(t))
  <2>1. mutex_owner # t
    BY <1>1 DEF RwLockInv, HoldIsReal
  <2> QED BY <1>1, <2>1, TakeSmooth DEF TryLockExclusive, TryLockShared
<1>2. CASE hold[t] = "none" /\ (LockExclusive(t) \/ LockShared(t))
  BY <1>2, BlockSmooth, TakeSmooth DEF LockExclusive, LockShared
<1>3. CASE hold[t] = "exclusive" /\ ExclusiveToShared(t)
  <2>1. mutex_owner = t /\ owners_ = {}
    BY <1>3, ThreadAssumption DEF RwLockInv, HoldIsReal
  <2> QED BY <1>3, <2>1 DEF ExclusiveToShared, Return, Smooth, RwLockInv, TypeOK
<1>4. CASE hold[t] = "shared" /\ SharedToExclusive(t)
  <2>1. t \in owners_
    BY <1>4 DEF RwLockInv, HoldIsReal
  <2> QED BY <1>4, <2>1 DEF SharedToExclusive, Return, Smooth, RwLockInv, TypeOK
<1> QED BY <1>1, <1>2, <1>3, <1>4 DEF PairedCall

LEMMA PairedReleaseSmooth ==
  ASSUME RwLockInv, Smooth, NEW t \in Thread, PairedRelease(t)
  PROVE  Smooth'
<1>1. CASE hold[t] = "exclusive"
  <2>1. mutex_owner = t /\ owners_ = {} /\ ReleaseExclusive(t)
    BY <1>1, ThreadAssumption
       DEF RwLockInv, HoldIsReal, PairedRelease, UnlockExclusive, Unlock
  <2> QED BY <2>1 DEF ReleaseExclusive, Return, Smooth, RwLockInv, TypeOK
<1>2. CASE hold[t] = "shared"
  <2>1. t \in owners_ /\ mutex_owner = None /\ ReleaseShared(t)
    BY <1>2 DEF RwLockInv, HoldIsReal, PairedRelease, UnlockShared, Unlock
  <2> QED BY <2>1 DEF ReleaseShared, LeaveOwners, Return, Smooth, RwLockInv, TypeOK
<1> QED BY <1>1, <1>2 DEF PairedRelease

LEMMA ResumeSmooth ==
  ASSUME RwLockInv, Smooth, NEW t \in Thread, Resume(t)
  PROVE  Smooth'
<1>1. hold[t] = "none" /\ ~ResumeUnshMutex(t)
  BY DEF Resume, ResumeOwners, ResumeExMutex, ResumeShMutex, ResumeUnshMutex,
     In, RwLockInv, HolderNeverBlocks, Smooth
<1> QED BY <1>1, BlockSmooth, TakeSmooth
        DEF Resume, ResumeOwners, ResumeExMutex, ResumeShMutex

(* Clients of either kind take steps of the lock's specification.          *)
LEMMA MCStep == ASSUME MCNext PROVE [Next]_vars
BY PairedAssumption
   DEF MCNext, PairedNext, PairedCall, PairedRelease, Next, Call, Release

LEMMA NextPairedInv ==
  RwLockInv /\ (paired => Smooth) /\ [MCNext]_mcVars
     => RwLockInv' /\ (paired => Smooth)'
<1> SUFFICES ASSUME RwLockInv, paired => Smooth, [MCNext]_mcVars
             PROVE  RwLockInv' /\ (paired => Smooth)'
  OBVIOUS
<1>1. RwLockInv'
  BY MCStep, NextRwInv DEF mcVars
<1>2. CASE UNCHANGED mcVars
  BY <1>1, <1>2 DEF mcVars, vars, Smooth
<1>3. CASE MCNext /\ ~paired
  BY <1>1, <1>3 DEF MCNext
<1>4. CASE MCNext /\ paired
  <2>1. PairedNext /\ Smooth
    BY <1>4 DEF MCNext
  <2>2. ASSUME UNCHANGED vars PROVE Smooth'
    BY <2>1, <2>2 DEF vars, Smooth
  <2>3. ASSUME NEW t \in Thread, Dispatch(t) \/ Yield(t) \/ Park(t)
        PROVE  Smooth'
    BY <2>1, <2>3 DEF Dispatch, Yield, Park, Smooth
  <2>4. Smooth'
    BY <2>1, <2>2, <2>3, PairedCallSmooth, PairedReleaseSmooth, ResumeSmooth,
       PairedAssumption DEF PairedNext
  <2> QED BY <1>1, <2>4
<1> QED BY <1>2, <1>3, <1>4

(* Clients that release what they hold and lock what they do not meet none *)
(* of the lock's abort()s, and their releases do not block.                *)
THEOREM RwLockPairedClientsSafe == MCSpec => []PairedClientsSafe
<1>1. MCInit => RwLockInv /\ (paired => Smooth)
  BY InitRwInv DEF MCInit, Init, Smooth
<1>2. (paired => Smooth) => PairedClientsSafe
  BY DEF Smooth, PairedClientsSafe
<1> QED BY <1>1, <1>2, NextPairedInv, PTL DEF MCSpec
-----------------------------------------------------------------------------
(* What becomes of a paired client's call: it returns with mode m and the  *)
(* client keeps the processor, or the client, which holds nothing, blocks  *)
(* at p.  Nobody is taken off the ready set.                               *)
Returns(t, m) == /\ pc' = [pc EXCEPT ![t] = "idle"]
                 /\ hold' = [hold EXCEPT ![t] = m]
                 /\ ready \subseteq ready' /\ ready' \subseteq Thread
                 /\ running' = running

Blocks(t, p) == /\ pc' = [pc EXCEPT ![t] = p]
                /\ hold[t] = "none" /\ hold' = hold
                /\ ready \subseteq ready' /\ ready' \subseteq Thread
                /\ running' = Main
                /\ UNCHANGED <<owners_, mutex_owner>>

Waiting == {"exOwners", "exMutex", "shMutex"}
Mode == {"none", "shared", "exclusive"}

LEMMA AcquireOutcome ==
  ASSUME RwLockInv, NEW t \in Thread, hold[t] = "none",
         TakeExclusive(t) \/ JoinOwners(t)
  PROVE  \E m \in {"shared", "exclusive"} : Returns(t, m)
<1>1. t \notin owners_
  BY DEF RwLockInv, HoldIsReal
<1>2. CASE TakeExclusive(t)
  BY <1>2 DEF TakeExclusive, Return, Returns, RwLockInv, TypeOK
<1>3. CASE JoinOwners(t)
  BY <1>1, <1>3 DEF JoinOwners, Return, Returns, RwLockInv, TypeOK
<1> QED BY <1>2, <1>3

LEMMA BlockOnMutexOutcome ==
  ASSUME RwLockInv, NEW t \in Thread, hold[t] = "none",
         NEW p \in {"exMutex", "shMutex"}, BlockOnMutex(t, p)
  PROVE  Blocks(t, p) /\ ready' = ready
<1>1. mutex_owner # t
  BY DEF RwLockInv, HoldIsReal
<1> QED BY <1>1 DEF BlockOnMutex, Blocks, RwLockInv, TypeOK

LEMMA BlockOnOwnersOutcome ==
  ASSUME RwLockInv, NEW t \in Thread, hold[t] = "none",
         NEW w \in SUBSET Thread, BlockOnOwners(t, w)
  PROVE  Blocks(t, "exOwners") /\ ready' = ready \union (w \ {t})
<1>1. t \notin owners_
  BY DEF RwLockInv, HoldIsReal
<1> QED BY <1>1 DEF BlockOnOwners, Blocks, RwLockInv, TypeOK

LEMMA PairedCallOutcome ==
  ASSUME RwLockInv, Smooth, NEW t \in Thread, PairedCall(t)
  PROVE  /\ running = t /\ pc[t] = "idle"
         /\ \/ \E m \in Mode : Returns(t, m)
            \/ \E p \in Waiting : Blocks(t, p)
<1>0. running = t /\ pc[t] = "idle"
  BY DEF PairedCall, TryLockExclusive, TryLockShared, LockExclusive, LockShared,
     ExclusiveToShared, SharedToExclusive, May, Idle
<1>1. CASE hold[t] = "none" /\ (TryLockExclusive(t) \/ TryLockShared(t))
  <2>1. mutex_owner # t
    BY <1>1 DEF RwLockInv, HoldIsReal
  <2> QED BY <1>0, <1>1, <2>1, AcquireOutcome DEF TryLockExclusive, TryLockShared, Mode
<1>2. CASE hold[t] = "none" /\ LockExclusive(t)
  <2>1. CASE BlockOnOwners(t, {})
    BY <1>0, <1>2, <2>1, BlockOnOwnersOutcome DEF Waiting
  <2>2. CASE BlockOnMutex(t, "exMutex")
    BY <1>0, <1>2, <2>2, BlockOnMutexOutcome DEF Waiting
  <2>3. CASE TakeExclusive(t)
    BY <1>0, <1>2, <2>3, AcquireOutcome DEF Mode
  <2> QED BY <1>2, <2>1, <2>2, <2>3 DEF LockExclusive
<1>3. CASE hold[t] = "none" /\ LockShared(t)
  <2>1. CASE BlockOnMutex(t, "shMutex")
    BY <1>0, <1>3, <2>1, BlockOnMutexOutcome DEF Waiting
  <2>2. CASE JoinOwners(t)
    BY <1>0, <1>3, <2>2, AcquireOutcome DEF Mode
  <2> QED BY <1>3, <2>1, <2>2 DEF LockShared
<1>4. CASE hold[t] = "exclusive" /\ ExclusiveToShared(t)
  <2>1. mutex_owner = t /\ owners_ = {}
    BY <1>4, ThreadAssumption DEF RwLockInv, HoldIsReal
  <2> QED BY <1>0, <1>4, <2>1
          DEF ExclusiveToShared, Return, Returns, Mode, RwLockInv, TypeOK
<1>5. CASE hold[t] = "shared" /\ SharedToExclusive(t)
  <2>1. t \in owners_ /\ WokenByRemoveOwner(t) \subseteq Thread
    BY <1>5 DEF RwLockInv, HoldIsReal, TypeOK, WokenByRemoveOwner
  <2> QED BY <1>0, <1>5, <2>1
          DEF SharedToExclusive, Return, Returns, Mode, RwLockInv, TypeOK
<1> QED BY <1>1, <1>2, <1>3, <1>4, <1>5 DEF PairedCall

LEMMA PairedReleaseOutcome ==
  ASSUME RwLockInv, Smooth, NEW t \in Thread, PairedRelease(t)
  PROVE  running = t /\ pc[t] = "idle" /\ hold[t] # "none" /\ Returns(t, "none")
<1>0. running = t /\ pc[t] = "idle" /\ hold[t] # "none"
  BY DEF PairedRelease, UnlockExclusive, UnlockShared, Unlock, May, Idle
<1>1. CASE hold[t] = "exclusive"
  <2>1. mutex_owner = t /\ owners_ = {} /\ ReleaseExclusive(t)
    BY <1>1, ThreadAssumption
       DEF RwLockInv, HoldIsReal, PairedRelease, UnlockExclusive, Unlock
  <2> QED BY <1>0, <2>1 DEF ReleaseExclusive, Return, Returns, RwLockInv, TypeOK
<1>2. CASE hold[t] = "shared"
  <2>1. t \in owners_ /\ mutex_owner = None /\ ReleaseShared(t)
    BY <1>2 DEF RwLockInv, HoldIsReal, PairedRelease, UnlockShared, Unlock
  <2>2. WokenByRemoveOwner(t) \subseteq Thread
    BY DEF RwLockInv, TypeOK, WokenByRemoveOwner
  <2> QED BY <1>0, <2>1, <2>2
          DEF ReleaseShared, LeaveOwners, Return, Returns, RwLockInv, TypeOK
<1> QED BY <1>1, <1>2 DEF PairedRelease

(* A resumed thread gets the lock, blocks where it was without waking      *)
(* anybody, or blocks in the other list because it was in the wrong one.   *)
LEMMA ResumeOutcome ==
  ASSUME RwLockInv, Smooth, NEW t \in Thread, Resume(t)
  PROVE  /\ running = t /\ pc[t] # "idle" /\ hold[t] = "none"
         /\ \/ \E m \in {"shared", "exclusive"} : Returns(t, m)
            \/ Blocks(t, pc[t]) /\ pc[t] \in Waiting /\ ready' = ready
            \/ Blocks(t, "exMutex") /\ pc[t] = "exOwners" /\ owners_ = {}
            \/ Blocks(t, "exOwners") /\ pc[t] = "exMutex" /\ owners_ # {}
<1>0. /\ running = t /\ pc[t] # "idle" /\ hold[t] = "none"
      /\ ~ResumeUnshMutex(t)
  BY DEF Resume, ResumeOwners, ResumeExMutex, ResumeShMutex, ResumeUnshMutex,
     In, RwLockInv, HolderNeverBlocks, Smooth
<1>1. CASE TakeExclusive(t) \/ JoinOwners(t)
  BY <1>0, <1>1, AcquireOutcome
<1>2. CASE ResumeOwners(t) /\ owners_ # {} /\ BlockOnOwners(t, {})
  <2>1. Blocks(t, "exOwners") /\ ready' = ready \union ({} \ {t})
    BY <1>0, <1>2, BlockOnOwnersOutcome
  <2> QED BY <1>0, <1>2, <2>1 DEF ResumeOwners, In, Waiting
<1>3. CASE ResumeOwners(t) /\ owners_ = {} /\ BlockOnMutex(t, "exMutex")
  BY <1>0, <1>3, BlockOnMutexOutcome DEF ResumeOwners, In
<1>4. CASE ResumeExMutex(t) /\ BlockOnMutex(t, "exMutex")
  BY <1>0, <1>4, BlockOnMutexOutcome DEF ResumeExMutex, In, Waiting
<1>5. CASE ResumeExMutex(t) /\ owners_ # {} /\ BlockOnOwners(t, mutex_waiters)
  <2>1. mutex_waiters \in SUBSET Thread
    BY DEF RwLockInv, TypeOK
  <2> QED BY <1>0, <1>5, <2>1, BlockOnOwnersOutcome DEF ResumeExMutex, In
<1>6. CASE ResumeShMutex(t) /\ BlockOnMutex(t, "shMutex")
  BY <1>0, <1>6, BlockOnMutexOutcome DEF ResumeShMutex, In, Waiting
<1> QED BY <1>0, <1>1, <1>2, <1>3, <1>4, <1>5, <1>6
        DEF Resume, ResumeOwners, ResumeExMutex, ResumeShMutex

(* The invariant of the paired clients.                                    *)
PairedInv == /\ RwLockInv /\ (paired => Smooth) /\ HoldersGoOn
             /\ fuel \in [Thread -> Nat]

LEMMA GoOnStep ==
  ASSUME PairedInv, paired, paired' = paired, NEW t \in Paired, running = t,
         \/ \E m \in Mode : Returns(t, m)
         \/ \E p \in Waiting : Blocks(t, p)
  PROVE  HoldersGoOn'
<1> USE PairedAssumption, ThreadAssumption DEF PairedInv, RwLockInv, TypeOK, HoldersGoOn
<1>1. ASSUME NEW m \in Mode, Returns(t, m) PROVE HoldersGoOn'
  BY <1>1 DEF Returns, Mode
<1>2. ASSUME NEW p \in Waiting, Blocks(t, p) PROVE HoldersGoOn'
  BY <1>2 DEF Blocks, Waiting
<1> QED BY <1>1, <1>2

LEMMA PairedInvInit == MCInit => PairedInv
BY InitRwInv, PairedAssumption
   DEF MCInit, Init, PairedInv, Smooth, HoldersGoOn

LEMMA PairedInvNext == PairedInv /\ [MCNext]_mcVars => PairedInv'
<1> SUFFICES ASSUME PairedInv, [MCNext]_mcVars PROVE PairedInv'
  OBVIOUS
<1>1. RwLockInv' /\ (paired => Smooth)'
  BY NextPairedInv DEF PairedInv
<1>2. CASE UNCHANGED mcVars
  BY <1>1, <1>2 DEF PairedInv, mcVars, vars, HoldersGoOn
<1>3. CASE MCNext /\ ~paired
  BY <1>1, <1>3 DEF MCNext, PairedInv, HoldersGoOn
<1>4. CASE MCNext /\ paired
  <2>1. PairedNext /\ Smooth /\ RwLockInv /\ paired' = paired
    BY <1>4 DEF MCNext, PairedInv
  <2>2. fuel' \in [Thread -> Nat]
    BY <2>1, PairedAssumption DEF PairedNext, Spend, PairedInv
  <2>3. HoldersGoOn'
    <3>1. ASSUME NEW t \in Paired, Dispatch(t) \/ Yield(t)
          PROVE  HoldersGoOn'
      BY <1>4, <2>1, <3>1, PairedAssumption, ThreadAssumption
         DEF Dispatch, Yield, Idle, PairedInv, HoldersGoOn
    <3>2. ASSUME NEW t \in Paired, Park(t), hold[t] = "none"
          PROVE  HoldersGoOn'
      BY <1>4, <2>1, <3>2, PairedAssumption DEF Park, Idle, PairedInv, HoldersGoOn
    <3>3. ASSUME NEW t \in Paired, PairedCall(t)
          PROVE  HoldersGoOn'
      BY <1>4, <2>1, <3>3, PairedCallOutcome, GoOnStep, PairedAssumption
    <3>4. ASSUME NEW t \in Paired, PairedRelease(t)
          PROVE  HoldersGoOn'
      BY <1>4, <2>1, <3>4, PairedReleaseOutcome, GoOnStep, PairedAssumption DEF Mode
    <3>5. ASSUME NEW t \in Paired, Resume(t)
          PROVE  HoldersGoOn'
      BY <1>4, <2>1, <3>5, ResumeOutcome, GoOnStep, PairedAssumption
         DEF Mode, Waiting
    <3>6. ASSUME UNCHANGED <<vars, fuel>>
          PROVE  HoldersGoOn'
      BY <2>1, <3>6 DEF vars, PairedInv, HoldersGoOn
    <3> QED BY <2>1, <3>1, <3>2, <3>3, <3>4, <3>5, <3>6 DEF PairedNext
  <2> QED BY <1>1, <2>2, <2>3 DEF PairedInv
<1> QED BY <1>2, <1>3, <1>4

(* Once the paired clients' part of the queue has drained, none of them is *)
(* inside a lock call and none holds the lock: a blocked client waits for  *)
(* a holder, and a holder is always ready or running.                      *)
THEOREM RwLockNobodyStranded == MCSpec => []NobodyStranded
<1>1. PairedInv => NobodyStranded
  <2> SUFFICES ASSUME PairedInv, paired, running = Main,
                      ready \intersect Paired = {}, NEW t \in Paired
               PROVE  pc[t] = "idle" /\ hold[t] = "none"
    BY DEF NobodyStranded
  <2> USE PairedAssumption, ThreadAssumption
  <2>1. \A u \in Thread : hold[u] = "none"
    BY DEF PairedInv, HoldersGoOn
  <2>2. owners_ = {} /\ mutex_owner = None
    BY <2>1 DEF PairedInv, RwLockInv, TypeOK, HoldIsReal
  <2>3. t \notin waiters_ /\ t \notin mutex_waiters
    BY <2>2 DEF PairedInv, RwLockInv, NoLostWakeup
  <2>4. pc[t] = "idle"
    BY <2>3 DEF PairedInv, RwLockInv, TypeOK, Pc, WaitersMatchPc
  <2> QED BY <2>1, <2>4
<1> QED BY <1>1, PairedInvInit, PairedInvNext, PTL DEF MCSpec

Settles ==
    \/ Below(fuel', fuel)
    \/ fuel' = fuel /\ Below(stages', stages)
    \/ /\ UNCHANGED <<fuel, stages>>
       /\ Misplaced' \subseteq Misplaced /\ Misplaced' # Misplaced
    \/ /\ UNCHANGED <<fuel, stages, Misplaced>>
       /\ ready' \subseteq ready
       /\ ready' # ready \/ (running # Main /\ running' = Main)

(* A return lowers the client's stage.                                     *)
LEMMA ReturnsBelow ==
  ASSUME RwLockInv, NEW t \in Thread, NEW m \in Mode, Returns(t, m),
         pc[t] # "idle" \/ (hold[t] # "none" /\ m = "none")
  PROVE  Below(stages', stages)
<1>1. \A u \in Thread : u # t => pc'[u] = pc[u] /\ hold'[u] = hold[u]
  BY DEF Returns, RwLockInv, TypeOK
<1>2. pc'[t] = "idle" /\ hold'[t] = m
  BY DEF Returns, RwLockInv, TypeOK
<1>3. /\ stages = [u \in Thread |-> Stage(u)]
      /\ stages' = [u \in Thread |-> Stage(u)']
  BY DEF stages
<1>4. \A u \in Thread : u # t => stages'[u] = stages[u]
  BY <1>1, <1>3 DEF Stage
<1>5. \A u \in Thread : stages[u] \in 0..2
  BY <1>3 DEF Stage
<1>6. stages'[t] < stages[t]
  BY <1>2, <1>3 DEF Stage, Mode
<1>7. stages'[t] \in 0..2
  BY <1>3 DEF Stage
<1>8. \A u \in Thread : stages'[u] <= stages[u]
  BY <1>4, <1>5, <1>6, <1>7
<1> QED BY <1>6, <1>8 DEF Below

(* A thread that blocks inside a call it had begun keeps its stage.        *)
LEMMA BlocksStage ==
  ASSUME RwLockInv, NEW t \in Thread, NEW p \in Waiting, Blocks(t, p),
         pc[t] # "idle"
  PROVE  stages' = stages
<1>1. \A u \in Thread : u # t => pc'[u] = pc[u]
  BY DEF Blocks, RwLockInv, TypeOK
<1>2. pc'[t] = p /\ p # "idle" /\ hold' = hold
  BY DEF Blocks, RwLockInv, TypeOK, Waiting
<1>3. \A u \in Thread : Stage(u)' = Stage(u)
  BY <1>1, <1>2 DEF Stage
<1> QED BY <1>3 DEF stages

LEMMA ResumeSettles ==
  ASSUME RwLockInv, Smooth, NEW t \in Thread, Resume(t), fuel' = fuel
  PROVE  Settles
<1>0. running = t /\ pc[t] # "idle" /\ t # Main
  BY ResumeOutcome, ThreadAssumption
<1>1. CASE \E m \in {"shared", "exclusive"} : Returns(t, m)
  BY <1>0, <1>1, ReturnsBelow DEF Settles, Mode
<1>2. CASE Blocks(t, pc[t]) /\ pc[t] \in Waiting /\ ready' = ready
  <2>1. stages' = stages
    BY <1>0, <1>2, BlocksStage
  <2>2. pc' = pc /\ running' = Main /\ owners_' = owners_
    BY <1>2 DEF Blocks, RwLockInv, TypeOK
  <2>3. Misplaced' = Misplaced
    BY <2>2 DEF Misplaced
  <2> QED BY <1>0, <1>2, <2>1, <2>2, <2>3 DEF Settles
<1>3. ASSUME NEW p \in {"exMutex", "exOwners"}, Blocks(t, p),
             pc[t] = (IF owners_ = {} THEN "exOwners" ELSE "exMutex"),
             p # pc[t]
      PROVE  Settles
  <2>1. stages' = stages
    BY <1>0, <1>3, BlocksStage DEF Waiting
  <2>2. /\ owners_' = owners_ /\ pc'[t] = p
        /\ \A u \in Thread : u # t => pc'[u] = pc[u]
    BY <1>3 DEF Blocks, RwLockInv, TypeOK
  <2>3. t \in Misplaced /\ Misplaced' = Misplaced \ {t}
    BY <1>3, <2>2 DEF Misplaced
  <2> QED BY <2>1, <2>3 DEF Settles
<1> QED BY <1>1, <1>2, <1>3, ResumeOutcome

LEMMA PairedSettles ==
  ASSUME PairedInv, paired, MCNext
  PROVE  Settles \/ UNCHANGED mcVars
<1>1. /\ PairedNext /\ Smooth /\ RwLockInv /\ fuel \in [Thread -> Nat]
      /\ paired' = paired
  BY DEF MCNext, PairedInv
<1>2. ASSUME NEW t \in Thread, Spend(t) PROVE Settles
  <2>1. fuel'[t] < fuel[t] /\ \A u \in Thread : fuel'[u] <= fuel[u]
    BY <1>1, <1>2 DEF Spend
  <2> QED BY <2>1 DEF Below, Settles
<1>3. ASSUME NEW t \in Thread, Dispatch(t), fuel' = fuel PROVE Settles
  <2>1. /\ UNCHANGED <<owners_, pc, hold>>
        /\ t \in ready /\ ready' = ready \ {t}
    BY <1>3 DEF Dispatch, lock
  <2>2. UNCHANGED <<stages, Misplaced>>
    BY <2>1 DEF stages, Stage, Misplaced
  <2> QED BY <1>3, <2>1, <2>2 DEF Settles
<1>4. ASSUME NEW t \in Thread, Park(t), fuel' = fuel PROVE Settles
  <2>1. /\ UNCHANGED <<owners_, pc, hold, ready>>
        /\ running = t /\ t # Main /\ running' = Main
    BY <1>4, ThreadAssumption DEF Park, Idle, lock
  <2>2. UNCHANGED <<stages, Misplaced>>
    BY <2>1 DEF stages, Stage, Misplaced
  <2> QED BY <1>4, <2>1, <2>2 DEF Settles
<1>5. ASSUME NEW t \in Thread, PairedRelease(t), fuel' = fuel PROVE Settles
  BY <1>1, <1>5, PairedReleaseOutcome, ReturnsBelow DEF Settles, Mode
<1>6. ASSUME NEW t \in Thread, Resume(t), fuel' = fuel PROVE Settles
  BY <1>1, <1>6, ResumeSettles
<1> QED BY <1>1, <1>2, <1>3, <1>4, <1>5, <1>6, PairedAssumption
        DEF PairedNext, mcVars

(* Woken waiters that find the lock taken again, writers that move from    *)
(* one list to the other and readers that wake them cannot keep each other *)
(* busy: every step of paired clients makes progress in a well-founded     *)
(* order, whatever thread is dispatched.                                   *)
THEOREM RwLockWokenWaitersSettle == MCSpec => WokenWaitersSettle
<1>1. PairedInv /\ [MCNext]_mcVars => [paired => Settles]_mcVars
  BY PairedSettles
<1>2. MCSpec => [][paired => Settles]_mcVars
  BY <1>1, PairedInvInit, PairedInvNext, PTL DEF MCSpec
<1> QED BY <1>2 DEF Settles, WokenWaitersSettle
=============================================================================
