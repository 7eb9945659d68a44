---------------------------- MODULE HwTicketLock ----------------------------
(***************************************************************************)
(* fuzz/host/hw_ticket_lock_manager.cc: one ticket lock (an address that   *)
(* holds a VirtualMutex) from Allocate through Invalidate to Destroy, with *)
(* the threads that lock, wait and unlock around that.                     *)
(*                                                                         *)
(* One processor: an action is what a thread does up to the next Block or  *)
(* Yield.  Of the kernel the model keeps the protocol of the callers:      *)
(* whoever invalidates the lock holds it, a lock that was not invalidated  *)
(* is destroyed when nobody uses it, and no thread locks what it has.      *)
(***************************************************************************)
CONSTANTS Thread,
          None,               \* owner_ = 0
          LocksInvalid        \* Lock(allow_invalid = false) may be called on
                              \* a lock that has been invalidated

ASSUME NoneAssumption == None \notin Thread
ASSUME CallerAssumption == LocksInvalid \in BOOLEAN

VARIABLES live_locks_,          \* TRUE when the set has the lock
          invalidated_locks_,
          mutex,                \* the VirtualMutex is allocated
          owner_, waiters_,
          awake,                \* waiters made runnable
          pc,                   \* what each thread is in
          acquired              \* threads told they have the lock

vars == <<live_locks_, invalidated_locks_, mutex, owner_, waiters_, awake, pc,
          acquired>>

TypeOK == /\ live_locks_ \in BOOLEAN /\ invalidated_locks_ \in BOOLEAN
          /\ mutex \in BOOLEAN
          /\ owner_ \in Thread \union {None}
          /\ waiters_ \subseteq Thread /\ awake \subseteq Thread
          /\ pc \in [Thread -> {"idle", "Lock", "Destroy"}]
          /\ acquired \subseteq Thread

Init == /\ live_locks_ = FALSE /\ invalidated_locks_ = FALSE
        /\ mutex = FALSE
        /\ owner_ = None /\ waiters_ = {} /\ awake = {}
        /\ pc = [t \in Thread |-> "idle"]
        /\ acquired = {}
-----------------------------------------------------------------------------
(* The thread's earlier call has returned.                                 *)
Idle(t) == pc[t] = "idle"

Destroying == \E t \in Thread : pc[t] = "Destroy"

Allocate(t, locked) ==
    /\ Idle(t) /\ ~mutex
    /\ live_locks_' = TRUE /\ mutex' = TRUE
    /\ owner_' = IF locked THEN t ELSE None
    /\ waiters_' = {} /\ awake' = {}
    /\ acquired' = IF locked THEN acquired \union {t} ELSE acquired
    /\ UNCHANGED <<invalidated_locks_, pc>>

Invalidate(t) ==
    /\ Idle(t) /\ mutex /\ live_locks_ /\ owner_ = t
    /\ live_locks_' = FALSE /\ invalidated_locks_' = TRUE
    /\ UNCHANGED <<mutex, owner_, waiters_, awake, pc, acquired>>

(* Lock of an invalidated lock, or of one that is not there, returns       *)
(* without a look at the mutex.                                            *)
LockInvalid(t, allow_invalid) ==
    /\ Idle(t) /\ t \notin acquired
    /\ ~live_locks_ \/ invalidated_locks_
    /\ ~allow_invalid /\ invalidated_locks_ => LocksInvalid
    /\ acquired' = IF invalidated_locks_ /\ ~allow_invalid
                   THEN acquired \union {t}  \* HW_LOCK_ACQUIRED
                   ELSE acquired             \* HW_LOCK_INVALID
    /\ UNCHANGED <<live_locks_, invalidated_locks_, mutex, owner_, waiters_,
                   awake, pc>>

(* VirtualMutex::Lock: take it, or wait for the owner to wake the waiters. *)
Lock(t) ==
    /\ Idle(t) /\ t \notin acquired
    /\ live_locks_ /\ ~invalidated_locks_
    /\ IF owner_ = None
       THEN /\ owner_' = t
            /\ acquired' = acquired \union {t}
            /\ UNCHANGED <<waiters_, awake, pc>>
       ELSE /\ waiters_' = waiters_ \union {t}
            /\ pc' = [pc EXCEPT ![t] = "Lock"]
            /\ UNCHANGED <<owner_, awake, acquired>>
    /\ UNCHANGED <<live_locks_, invalidated_locks_, mutex>>

(* Mutants: the waiter does not look at owner_ again; it keeps the mutex   *)
(* of the invalidated lock.                                                *)
LockResumesOnce(t) ==
    /\ pc[t] = "Lock" /\ t \in awake
    /\ waiters_' = waiters_ \ {t}
    /\ pc' = [pc EXCEPT ![t] = "idle"]
    /\ owner_' = t
    /\ awake' = awake \ {t}
    /\ acquired' = acquired \union {t}
    /\ UNCHANGED <<live_locks_, invalidated_locks_, mutex>>

LockResumesKeeps(t) ==
    /\ pc[t] = "Lock" /\ t \in awake
    /\ awake' = awake \ {t}
    /\ IF owner_ # None THEN UNCHANGED <<owner_, waiters_, pc>>
       ELSE /\ waiters_' = waiters_ \ {t}
            /\ pc' = [pc EXCEPT ![t] = "idle"]
            /\ owner_' = t
    /\ acquired' = IF owner_ = None /\ ~invalidated_locks_
                   THEN acquired \union {t} ELSE acquired
    /\ UNCHANGED <<live_locks_, invalidated_locks_, mutex>>

(* The waiter runs again, in VirtualMutex::Lock: it may find a new owner;  *)
(* when it gets the mutex of a lock invalidated meanwhile it lets go.      *)
LockResumes(t) ==
    /\ pc[t] = "Lock" /\ t \in awake
    /\ IF owner_ # None
       THEN /\ awake' = awake \ {t}
            /\ UNCHANGED <<owner_, waiters_, pc, acquired>>
       ELSE /\ waiters_' = waiters_ \ {t}
            /\ pc' = [pc EXCEPT ![t] = "idle"]
            /\ IF invalidated_locks_
               THEN /\ awake' = waiters_ \ {t}
                    /\ UNCHANGED <<owner_, acquired>>
               ELSE /\ owner_' = t
                    /\ awake' = awake \ {t}
                    /\ acquired' = acquired \union {t}
    /\ UNCHANGED <<live_locks_, invalidated_locks_, mutex>>

TryLock(t) ==
    /\ Idle(t) /\ t \notin acquired
    /\ live_locks_ /\ owner_ = None
    /\ owner_' = t
    /\ acquired' = acquired \union {t}
    /\ UNCHANGED <<live_locks_, invalidated_locks_, mutex, waiters_, awake, pc>>

(* Nothing but the return when the lock is gone or the mutex not held.     *)
Unlock(t) ==
    /\ Idle(t) /\ t \in acquired
    /\ acquired' = acquired \ {t}
    /\ IF (live_locks_ \/ invalidated_locks_) /\ owner_ = t
       THEN owner_' = None /\ awake' = waiters_
       ELSE UNCHANGED <<owner_, awake>>
    /\ UNCHANGED <<live_locks_, invalidated_locks_, mutex, waiters_, pc>>
-----------------------------------------------------------------------------
(* The end of Destroy: forget the lock and free the mutex.                 *)
Free == /\ invalidated_locks_' = FALSE
        /\ mutex' = FALSE
        /\ owner_' = None /\ waiters_' = {} /\ awake' = {}

(* Mutant: Destroy without WakeupWaiters.                                  *)
DestroyAtOnce(t, sync) ==
    /\ Idle(t) /\ mutex /\ ~Destroying
    /\ acquired \subseteq {t}
    /\ waiters_ # {} => sync /\ invalidated_locks_
    /\ live_locks_' = FALSE
    /\ acquired' = acquired \ {t}
    /\ Free /\ UNCHANGED pc

(* Destroy.  The caller has the lock, or nobody has; only the destroyer of *)
(* an invalidated lock (sync) may meet waiters.  It then gives the mutex   *)
(* up, wakes them, and yields until they have left.                        *)
Destroy(t, sync) ==
    /\ Idle(t) /\ mutex /\ ~Destroying
    /\ acquired \subseteq {t}
    /\ waiters_ # {} => sync /\ invalidated_locks_
    /\ live_locks_' = FALSE
    /\ acquired' = acquired \ {t}
    /\ IF waiters_ = {} THEN Free /\ UNCHANGED pc
       ELSE /\ pc' = [pc EXCEPT ![t] = "Destroy"]
            /\ IF owner_ = t THEN owner_' = None /\ awake' = waiters_
                             ELSE UNCHANGED <<owner_, awake>>
            /\ UNCHANGED <<invalidated_locks_, mutex, waiters_>>

(* The loop of WakeupWaiters ends.                                         *)
WaitersLeft(t) ==
    /\ pc[t] = "Destroy" /\ waiters_ = {}
    /\ Free
    /\ pc' = [pc EXCEPT ![t] = "idle"]
    /\ UNCHANGED <<live_locks_, acquired>>

Next == \E t \in Thread : \/ \E l \in BOOLEAN : Allocate(t, l)
                          \/ Invalidate(t)
                          \/ \E a \in BOOLEAN : LockInvalid(t, a)
                          \/ Lock(t)
                          \/ LockResumes(t)
                          \/ TryLock(t)
                          \/ Unlock(t)
                          \/ \E s \in BOOLEAN : Destroy(t, s)
                          \/ WaitersLeft(t)

(* Every queued thread is picked in the end, as the scheduler's rand()     *)
(* does once the input is used up, and the destroyer's Yield does yield.   *)
Fairness == \A t \in Thread : WF_vars(LockResumes(t)) /\ WF_vars(WaitersLeft(t))

Spec == Init /\ [][Next]_vars
FairSpec == Spec /\ Fairness
-----------------------------------------------------------------------------
(* "Wakeup any waiters in the invalid case so we don't UaF": no thread is  *)
(* inside the Lock of a mutex that has been freed.                         *)
NoUseAfterFree == \A t \in Thread : pc[t] = "Lock" => mutex /\ t \in waiters_

(* A thread that was told HW_LOCK_ACQUIRED owns the mutex until it unlocks *)
(* or destroys it, through invalidation too: the lock excludes.            *)
AcquiredMeansHeld == \A t \in acquired : mutex /\ owner_ = t

(* Destroy returns: the waiters see the lock invalid and leave.            *)
DestroyReturns == \A t \in Thread : pc[t] = "Destroy" ~> pc[t] = "idle"

(* The safety behind DestroyReturns: while the destroyer waits, nobody     *)
(* joins the waiters, all of them can run, each that runs leaves, and the  *)
(* destroyer goes on only when none is left.                               *)
DestroyDrains ==
    [][\A t \in Thread : pc[t] = "Destroy" =>
          /\ waiters_' \subseteq waiters_
          /\ \A u \in Thread : LockResumes(u) => waiters_' = waiters_ \ {u}
          /\ pc'[t] = "Destroy" => waiters_' \subseteq awake'
          /\ pc'[t] # "Destroy" => waiters_ = {}]_vars

(* To callers that do not lock an invalid lock plainly, allocation,        *)
(* invalidation and destruction included, it is a lock that excludes.      *)
RW == INSTANCE ReadersWriter WITH readers <- {}, writers <- acquired

ImplementsRW == RW!Spec

(* The inductive invariant.  waiters_ names the threads inside Lock, which *)
(* are all runnable once the mutex is free; the sets agree with the state  *)
(* of the mutex; whoever owns it was told so, and without plain locks of   *)
(* an invalid lock nobody else was; one thread at most destroys the lock.  *)
WaitersAwake == /\ waiters_ = {t \in Thread : pc[t] = "Lock"}
                /\ owner_ = None => waiters_ \subseteq awake

SetsOfMutex == /\ ~(live_locks_ /\ invalidated_locks_)
               /\ mutex <=> live_locks_ \/ invalidated_locks_
               /\ ~mutex => owner_ = None /\ waiters_ = {}

OwnerWasTold == /\ owner_ # None => owner_ \in acquired
                /\ LocksInvalid \/ acquired \subseteq {owner_}

OneDestroyer == \A t \in Thread : pc[t] = "Destroy" =>
                   /\ invalidated_locks_ /\ owner_ = None
                   /\ \A u \in Thread : pc[u] = "Destroy" => u = t

TicketInv == /\ TypeOK
             /\ WaitersAwake
             /\ SetsOfMutex
             /\ OwnerWasTold
             /\ OneDestroyer
=============================================================================
