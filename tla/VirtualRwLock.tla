--------------------------- MODULE VirtualRwLock ---------------------------
(***************************************************************************)
(* third_party/concurrence/sync/rwlock.cc: a readers-writer lock made of a *)
(* set of readers (owners_), an inner VirtualMutex (mutex_) that a writer  *)
(* keeps for as long as it holds the lock and a reader only while it joins *)
(* or leaves owners_, and the two waiters_ lists of Sync.  Threads run on  *)
(* the one processor of CoopScheduler; code between two Block() calls is   *)
(* atomic.  waiters_ keeps a thread until that thread removes itself, and  *)
(* holds it once (AddWaiter removes it first), so it is a set.             *)
(***************************************************************************)
CONSTANTS Thread,
          Main,       \* the thread Block() switches to
          None,       \* owner_ = 0
          Misuse      \* TRUE: clients may also call out of turn

ASSUME ThreadAssumption == Main \notin Thread /\ None \notin Thread
ASSUME MisuseAssumption == Misuse \in BOOLEAN

VARIABLES owners_,         \* readers
          waiters_,        \* threads in LockExclusive waiting for no reader
          mutex_owner,     \* mutex_.owner_
          mutex_waiters,   \* mutex_.waiters_
          ready, running,  \* the scheduler
          pc,              \* where a thread is blocked; "idle": in no call
          hold,            \* what the calls a thread made have returned to it
          aborted

lock == <<owners_, waiters_, mutex_owner, mutex_waiters>>
vars == <<lock, ready, running, pc, hold, aborted>>

Pc == {"idle", "exOwners", "exMutex", "shMutex", "unshMutex"}

TypeOK == /\ owners_ \subseteq Thread /\ waiters_ \subseteq Thread
          /\ mutex_owner \in Thread \union {None}
          /\ mutex_waiters \subseteq Thread
          /\ ready \subseteq Thread /\ running \in Thread \union {Main}
          /\ pc \in [Thread -> Pc]
          /\ hold \in [Thread -> {"none", "shared", "exclusive"}]
          /\ aborted \in BOOLEAN

Init == /\ owners_ = {} /\ waiters_ = {}
        /\ mutex_owner = None /\ mutex_waiters = {}
        /\ ready = Thread /\ running = Main
        /\ pc = [t \in Thread |-> "idle"]
        /\ hold = [t \in Thread |-> "none"]
        /\ aborted = FALSE
-----------------------------------------------------------------------------
(* The scheduler, and what threads do between lock calls.                  *)

Dispatch(t) == /\ ~aborted /\ running = Main /\ t \in ready
               /\ running' = t
               /\ ready' = ready \ {t}
               /\ UNCHANGED <<lock, pc, hold, aborted>>

(* The running thread t is in none of the lock's calls.                    *)
Idle(t) == ~aborted /\ running = t /\ pc[t] = "idle"

Yield(t) == /\ Idle(t)
            /\ running' = Main
            /\ ready' = ready \union {t}
            /\ UNCHANGED <<lock, pc, hold, aborted>>

(* The thread blocks for a reason of its own, or ends.                     *)
Park(t) == /\ Idle(t)
           /\ running' = Main
           /\ UNCHANGED <<lock, ready, pc, hold, aborted>>

(* Host::ThreadWakeup and the like make any thread runnable, blocked in    *)
(* this lock or not.                                                       *)
SpuriousWake(t) == /\ ~aborted /\ t # running
                   /\ ready' = ready \union {t}
                   /\ UNCHANGED <<lock, running, pc, hold, aborted>>
-----------------------------------------------------------------------------
(* Outcomes of a call by the running thread t.                             *)

Abort == aborted' = TRUE /\ UNCHANGED <<lock, ready, running, pc, hold>>

(* Return with mode m, having made the threads w runnable.                 *)
Return(t, m, w) == /\ pc' = [pc EXCEPT ![t] = "idle"]
                   /\ hold' = [hold EXCEPT ![t] = m]
                   /\ ready' = ready \union (w \ {t})
                   /\ UNCHANGED <<running, aborted>>

(* Mutant: AddWaiter without HandleNestedWait.                             *)
BlockOnMutexNested(t, p) ==
    /\ mutex_waiters' = mutex_waiters \union {t}
    /\ waiters_' = waiters_ \ {t}
    /\ pc' = [pc EXCEPT ![t] = p]
    /\ running' = Main
    /\ UNCHANGED <<owners_, mutex_owner, ready, hold, aborted>>

(* AddWaiter on mutex_, then Block, to go on at p; aborts when nested.     *)
BlockOnMutex(t, p) ==
    IF mutex_owner = t THEN Abort
    ELSE /\ mutex_waiters' = mutex_waiters \union {t}
         /\ waiters_' = waiters_ \ {t}
         /\ pc' = [pc EXCEPT ![t] = p]
         /\ running' = Main
         /\ UNCHANGED <<owners_, mutex_owner, ready, hold, aborted>>

(* AddWaiter on the rwlock, then Block, in LockExclusive's inner loop.     *)
BlockOnOwners(t, w) ==
    IF t \in owners_ THEN Abort
    ELSE /\ waiters_' = waiters_ \union {t}
         /\ mutex_waiters' = mutex_waiters \ {t}
         /\ pc' = [pc EXCEPT ![t] = "exOwners"]
         /\ ready' = ready \union (w \ {t})
         /\ running' = Main
         /\ UNCHANGED <<owners_, mutex_owner, hold, aborted>>

(* mutex_ is taken by t and kept.                                          *)
TakeExclusive(t) == /\ mutex_owner' = t
                    /\ mutex_waiters' = mutex_waiters \ {t}
                    /\ waiters_' = waiters_ \ {t}
                    /\ UNCHANGED owners_
                    /\ Return(t, "exclusive", {})

(* mutex_ is taken by t, AddOwner, mutex_ is released.                     *)
JoinOwners(t) ==
    IF t \in owners_ THEN Abort
    ELSE /\ owners_' = owners_ \union {t}
         /\ mutex_owner' = None
         /\ mutex_waiters' = mutex_waiters \ {t}
         /\ UNCHANGED waiters_
         /\ Return(t, "shared", mutex_waiters)

(* Mutant: RemoveOwner wakes nobody.                                       *)
WokenByNobody(t) == {}

(* Whom RemoveOwner of t wakes: the waiting writers, by the last reader.   *)
WokenByRemoveOwner(t) == IF owners_ = {t} THEN waiters_ ELSE {}

(* mutex_ is taken by t, RemoveOwner, mutex_ is released.                  *)
LeaveOwners(t) ==
    IF t \notin owners_ THEN Abort
    ELSE /\ owners_' = owners_ \ {t}
         /\ mutex_waiters' = mutex_waiters \ {t}
         /\ UNCHANGED <<waiters_, mutex_owner>>
         /\ Return(t, "none", WokenByRemoveOwner(t) \union mutex_waiters)
-----------------------------------------------------------------------------
(* The calls.  A TryLock that returns false changes nothing.               *)

May(t, m) == Idle(t) /\ (Misuse \/ hold[t] = m)

TryLockExclusive(t) ==
    /\ May(t, "none")
    /\ owners_ = {}
    /\ \/ mutex_owner = t /\ Abort
       \/ mutex_owner = None /\ TakeExclusive(t)

TryLockShared(t) ==
    /\ May(t, "none")
    /\ \/ mutex_owner = t /\ Abort
       \/ mutex_owner = None /\ JoinOwners(t)

LockExclusive(t) ==
    /\ May(t, "none")
    /\ \/ owners_ # {} /\ BlockOnOwners(t, {})
       \/ owners_ = {} /\ mutex_owner # None /\ BlockOnMutex(t, "exMutex")
       \/ owners_ = {} /\ mutex_owner = None /\ TakeExclusive(t)

(* Mutant: LockShared does not go through mutex_.                          *)
LockSharedNoMutex(t) == May(t, "none") /\ JoinOwners(t)

LockShared(t) ==
    /\ May(t, "none")
    /\ \/ mutex_owner # None /\ BlockOnMutex(t, "shMutex")
       \/ mutex_owner = None /\ JoinOwners(t)

ReleaseExclusive(t) ==
    IF mutex_owner # t \/ owners_ # {} THEN Abort
    ELSE /\ mutex_owner' = None
         /\ UNCHANGED <<owners_, waiters_, mutex_waiters>>
         /\ Return(t, "none", mutex_waiters)

ReleaseShared(t) ==
    \/ mutex_owner # None /\ BlockOnMutex(t, "unshMutex")
    \/ mutex_owner = None /\ LeaveOwners(t)

UnlockExclusive(t) == May(t, "exclusive") /\ ReleaseExclusive(t)

UnlockShared(t) == May(t, "shared") /\ ReleaseShared(t)

(* Mutant: IsShared() negated.                                             *)
UnlockSwapped(t) == /\ May(t, "exclusive") \/ May(t, "shared")
                    /\ \/ owners_ # {} /\ ReleaseExclusive(t)
                       \/ owners_ = {} /\ ReleaseShared(t)

(* Unlock() looks at owners_ to tell which of the two the caller means.    *)
Unlock(t) == /\ May(t, "exclusive") \/ May(t, "shared")
             /\ \/ owners_ = {} /\ ReleaseExclusive(t)
                \/ owners_ # {} /\ ReleaseShared(t)

ExclusiveToShared(t) ==
    /\ May(t, "exclusive")
    /\ IF mutex_owner # t \/ owners_ # {} THEN Abort
       ELSE /\ owners_' = {t}
            /\ mutex_owner' = None
            /\ UNCHANGED <<waiters_, mutex_waiters>>
            /\ Return(t, "shared", mutex_waiters)

(* RemoveOwner, then TryLockExclusive: on failure the lock is lost.        *)
SharedToExclusive(t) ==
    /\ May(t, "shared")
    /\ IF t \notin owners_ THEN Abort
       ELSE /\ owners_' = owners_ \ {t}
            /\ UNCHANGED <<waiters_, mutex_waiters>>
            /\ \/ /\ owners_ = {t} /\ mutex_owner = None
                  /\ mutex_owner' = t
                  /\ Return(t, "exclusive", WokenByRemoveOwner(t))
               \/ /\ owners_ # {t} \/ mutex_owner # None
                  /\ UNCHANGED mutex_owner
                  /\ Return(t, "none", WokenByRemoveOwner(t))
-----------------------------------------------------------------------------
(* A thread resumed inside a call goes on after Block().                   *)

In(t, p) == ~aborted /\ running = t /\ pc[t] = p

(* LockExclusive's inner loop, then mutex_.Lock().                         *)
ResumeOwners(t) ==
    /\ In(t, "exOwners")
    /\ \/ owners_ # {} /\ BlockOnOwners(t, {})
       \/ owners_ = {} /\ mutex_owner # None /\ BlockOnMutex(t, "exMutex")
       \/ owners_ = {} /\ mutex_owner = None /\ TakeExclusive(t)

(* Mutant: the readers are not looked at again once mutex_ is taken.       *)
ResumeExMutexNoRecheck(t) ==
    /\ In(t, "exMutex")
    /\ \/ mutex_owner # None /\ BlockOnMutex(t, "exMutex")
       \/ mutex_owner = None /\ TakeExclusive(t)

(* mutex_.Lock() of LockExclusive: when readers came in meanwhile, mutex_  *)
(* is released again and the outer loop starts over.                       *)
ResumeExMutex(t) ==
    /\ In(t, "exMutex")
    /\ \/ mutex_owner # None /\ BlockOnMutex(t, "exMutex")
       \/ mutex_owner = None /\ owners_ = {} /\ TakeExclusive(t)
       \/ mutex_owner = None /\ owners_ # {} /\ BlockOnOwners(t, mutex_waiters)

ResumeShMutex(t) ==
    /\ In(t, "shMutex")
    /\ \/ mutex_owner # None /\ BlockOnMutex(t, "shMutex")
       \/ mutex_owner = None /\ JoinOwners(t)

ResumeUnshMutex(t) ==
    /\ In(t, "unshMutex")
    /\ ReleaseShared(t)

Call(t) == \/ TryLockExclusive(t) \/ TryLockShared(t)
           \/ LockExclusive(t) \/ LockShared(t)
           \/ ExclusiveToShared(t) \/ SharedToExclusive(t)

Release(t) == UnlockExclusive(t) \/ UnlockShared(t) \/ Unlock(t)

Resume(t) == \/ ResumeOwners(t) \/ ResumeExMutex(t)
             \/ ResumeShMutex(t) \/ ResumeUnshMutex(t)

Stopped == aborted /\ UNCHANGED vars

Next == \/ \E t \in Thread : \/ Dispatch(t) \/ Yield(t) \/ Park(t)
                             \/ SpuriousWake(t)
                             \/ Call(t) \/ Release(t) \/ Resume(t)
        \/ Stopped

Spec == Init /\ [][Next]_vars
-----------------------------------------------------------------------------
(* Never a writer together with a reader or another writer, in terms of    *)
(* what the calls returned: rwlock_test.cc ReadersWaitForWriter for every  *)
(* interleaving.                                                           *)
Exclusion == \A t, u \in Thread :
                hold[t] = "exclusive" /\ t # u => hold[u] = "none"

(* A thread blocked in this lock whose reason to wait is gone is on its    *)
(* way to the processor: no unlock loses a wakeup, although a woken thread *)
(* can find the lock taken again and must wait again.                      *)
NoLostWakeup ==
    /\ \A t \in waiters_ : owners_ = {} => t \in ready \union {running}
    /\ \A t \in mutex_waiters : mutex_owner = None => t \in ready \union {running}

(* A thread that holds the lock is never blocked inside it; in particular  *)
(* a release never blocks.  lck_rw_sleep releases between assert_wait and  *)
(* thread_block, where blocking would cancel the wait.                     *)
HolderNeverBlocks == /\ \A t \in Thread : hold[t] # "none" => pc[t] = "idle"
                     /\ Misuse \/ \A t \in Thread : pc[t] # "unshMutex"

(* None of the lock's own abort()s (nested wait, reader already owned,     *)
(* release by a non-owner, readers at an exclusive release) fires for      *)
(* clients that release what they hold and lock what they do not.          *)
PairedCallsNeverAbort == Misuse \/ ~aborted

(* A thread waits in at most one of the two lists, in the one its place in *)
(* the code says; GetObjectWithWaiter relies on it.                        *)
WaitersMatchPc == \A t \in Thread :
    /\ t \in waiters_ <=> pc[t] = "exOwners"
    /\ t \in mutex_waiters <=> pc[t] \in {"exMutex", "shMutex", "unshMutex"}

(* The implementation of hold: a reader is in owners_, a writer owns       *)
(* mutex_, and nobody keeps mutex_ while there are readers.                *)
HoldIsReal == /\ \A t \in Thread : /\ hold[t] = "shared" <=> t \in owners_
                                   /\ hold[t] = "exclusive" <=> mutex_owner = t
              /\ owners_ # {} => mutex_owner = None

RwLockInv == /\ TypeOK
             /\ WaitersMatchPc
             /\ HoldIsReal
             /\ NoLostWakeup
             /\ HolderNeverBlocks
             /\ PairedCallsNeverAbort

(* The lock implements the abstract readers-writer lock.                   *)
RW == INSTANCE ReadersWriter
        WITH readers <- {t \in Thread : hold[t] = "shared"},
             writers <- {t \in Thread : hold[t] = "exclusive"}

ImplementsRW == RW!Spec
=============================================================================
