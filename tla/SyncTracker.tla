---------------------------- MODULE SyncTracker ----------------------------
(***************************************************************************)
(* third_party/concurrence/sync: the mutexes and readers-writer locks      *)
(* SyncTracker allocates, who owns and who waits for each, and the search  *)
(* for a deadlock that AddWaiter makes in a verbose run (DetectDeadlock,   *)
(* FindDependencyPath).                                                    *)
(*                                                                         *)
(* A child thread's call is atomic up to the Block() in it; a blocked      *)
(* thread may be resumed at any time (by an unlock or by anybody else) and *)
(* then repeats the test it blocked on, so the action that starts a call   *)
(* is also the one that continues it.  A thread is in the waiters_ of one  *)
(* object at most (VirtualRwLock!WaitersMatchPc), named by waiting.  Every *)
(* rwlock has an inner VirtualMutex, mutex_, which is constructed directly *)
(* and not through the tracker.                                            *)
(***************************************************************************)
CONSTANTS Thread,    \* child threads (the main thread aborts when it waits)
          Mutex, RwLock,
          None

mutex_(r) == <<r>>

Sync == Mutex \union RwLock \union {mutex_(r) : r \in RwLock}

ASSUME SyncAssumption ==
    /\ Mutex \intersect RwLock = {} /\ None \notin Sync
    /\ \A r \in RwLock : mutex_(r) \notin Mutex \union RwLock

VARIABLES all_primitives_,   \* what the tracker has allocated
          owners,            \* owners() of every object
          waiting,           \* the object in whose waiters_ a thread is
          want,              \* what a thread waiting for a mutex_ is after
          aborted            \* "no", or why abort() was called

vars == <<all_primitives_, owners, waiting, want, aborted>>

TypeOK == /\ all_primitives_ \subseteq Mutex \union RwLock
          /\ owners \in [Sync -> SUBSET Thread]
          /\ waiting \in [Thread -> Sync \union {None}]
          /\ want \in [Thread -> {"shared", "exclusive"}]
          /\ aborted \in {"no", "nested", "misuse", "deadlock"}

Init == /\ all_primitives_ = {}
        /\ owners = [o \in Sync |-> {}]
        /\ waiting = [t \in Thread |-> None]
        /\ want = [t \in Thread |-> "shared"]
        /\ aborted = "no"
-----------------------------------------------------------------------------
(* GetObjectWithWaiter(t)->owners(): the search looks only at registered   *)
(* objects.                                                                *)
Dependencies(t) == IF waiting[t] \in all_primitives_
                   THEN owners[waiting[t]] ELSE {}

(* FindDependencyPath(source, destination): a depth-first search that      *)
(* stops at destination.  It succeeds iff destination is in every set that *)
(* contains source and the dependencies of its members.                    *)
ClosedUpTo(destination, S) ==
    \A t \in S \ {destination} : Dependencies(t) \subseteq S

FindDependencyPath(source, destination) ==
    \A S \in SUBSET Thread :
        source \in S /\ ClosedUpTo(destination, S) => destination \in S

(* Mutants: only the owners themselves are asked; an owner that waits for  *)
(* anything is taken for a deadlock.                                       *)
DetectDirect(t, o) == \E owner \in owners[o] : t \in Dependencies(owner)

DetectAnyWait(t, o) == \E owner \in owners[o] : Dependencies(owner) # {}

(* DetectDeadlock, of thread t that now waits for o.                       *)
DetectDeadlock(t, o) == \E owner \in owners[o] : FindDependencyPath(owner, t)

Abort(why) == aborted' = why
              /\ UNCHANGED <<all_primitives_, owners, waiting, want>>

(* Mutant: AddWaiter does not call DetectDeadlock.                         *)
AddWaiterSilent(t, o, w) ==
    IF t \in owners[o] THEN Abort("nested")
    ELSE /\ waiting' = [waiting EXCEPT ![t] = o]
         /\ want' = [want EXCEPT ![t] = w]
         /\ UNCHANGED <<all_primitives_, owners, aborted>>

(* AddWaiter on o, then Block().                                           *)
AddWaiter(t, o, w) ==
    IF t \in owners[o] THEN Abort("nested")
    ELSE /\ waiting' = [waiting EXCEPT ![t] = o]
         /\ want' = [want EXCEPT ![t] = w]
         /\ aborted' = IF DetectDeadlock(t, o) THEN "deadlock" ELSE "no"
         /\ UNCHANGED <<all_primitives_, owners>>

(* t becomes an owner of o and waits no longer.                            *)
Acquire(t, o) == /\ owners' = [owners EXCEPT ![o] = @ \union {t}]
                 /\ waiting' = [waiting EXCEPT ![t] = None]
                 /\ UNCHANGED <<all_primitives_, want, aborted>>

Disown(t, o) == /\ owners' = [owners EXCEPT ![o] = @ \ {t}]
                /\ UNCHANGED <<all_primitives_, waiting, want, aborted>>
-----------------------------------------------------------------------------
Running(t) == aborted = "no" /\ waiting[t] = None

AllocatePrimitive(o) == /\ aborted = "no"
                        /\ o \notin all_primitives_
                        /\ all_primitives_' = all_primitives_ \union {o}
                        /\ UNCHANGED <<owners, waiting, want, aborted>>

(* Clients destroy a lock that nobody holds or waits for.                  *)
FreePrimitive(o) ==
    LET parts == {o} \union ({mutex_(o)} \intersect Sync)
    IN  /\ aborted = "no"
        /\ o \in all_primitives_
        /\ \A p \in parts : owners[p] = {} /\ \A t \in Thread : waiting[t] # p
        /\ all_primitives_' = all_primitives_ \ {o}
        /\ UNCHANGED <<owners, waiting, want, aborted>>

MutexLock(t, m) ==
    /\ m \in all_primitives_
    /\ Running(t) \/ (aborted = "no" /\ waiting[t] = m)
    /\ \/ owners[m] = {} /\ Acquire(t, m)
       \/ owners[m] # {} /\ AddWaiter(t, m, "exclusive")

MutexTryLock(t, m) ==
    /\ m \in all_primitives_ /\ Running(t)
    /\ \/ t \in owners[m] /\ Abort("nested")
       \/ owners[m] = {} /\ Acquire(t, m)

MutexUnlock(t, m) ==
    /\ m \in all_primitives_ /\ Running(t)
    /\ IF t \in owners[m] THEN Disown(t, m) ELSE Abort("misuse")

(* AddOwner, under mutex_, which is released again.                        *)
AddOwner(t, r) == IF t \in owners[r] THEN Abort("misuse") ELSE Acquire(t, r)

LockShared(t, r) ==
    /\ r \in all_primitives_
    /\ \/ Running(t)
       \/ aborted = "no" /\ waiting[t] = mutex_(r) /\ want[t] = "shared"
    /\ \/ owners[mutex_(r)] # {} /\ AddWaiter(t, mutex_(r), "shared")
       \/ owners[mutex_(r)] = {} /\ AddOwner(t, r)

TryLockShared(t, r) ==
    /\ r \in all_primitives_ /\ Running(t)
    /\ \/ t \in owners[mutex_(r)] /\ Abort("nested")
       \/ owners[mutex_(r)] = {} /\ AddOwner(t, r)

(* Readers are waited for in the rwlock's list, then mutex_ in its own.    *)
LockExclusive(t, r) ==
    /\ r \in all_primitives_
    /\ \/ Running(t)
       \/ aborted = "no" /\ waiting[t] = r
       \/ aborted = "no" /\ waiting[t] = mutex_(r) /\ want[t] = "exclusive"
    /\ \/ owners[r] # {} /\ AddWaiter(t, r, "exclusive")
       \/ /\ owners[r] = {} /\ owners[mutex_(r)] # {}
          /\ AddWaiter(t, mutex_(r), "exclusive")
       \/ /\ owners[r] = {} /\ owners[mutex_(r)] = {}
          /\ Acquire(t, mutex_(r))

TryLockExclusive(t, r) ==
    /\ r \in all_primitives_ /\ Running(t)
    /\ owners[r] = {}
    /\ \/ t \in owners[mutex_(r)] /\ Abort("nested")
       \/ owners[mutex_(r)] = {} /\ Acquire(t, mutex_(r))

(* Unlock(): a release by a thread that holds the lock in the mode the     *)
(* lock is in; releases out of turn are VirtualRwLock's business.          *)
RwUnlock(t, r) ==
    /\ r \in all_primitives_ /\ Running(t)
    /\ \/ t \in owners[r] /\ Disown(t, r)
       \/ t \in owners[mutex_(r)] /\ Disown(t, mutex_(r))

ExclusiveToShared(t, r) ==
    /\ r \in all_primitives_ /\ Running(t)
    /\ t \in owners[mutex_(r)]
    /\ owners' = [owners EXCEPT ![r] = {t}, ![mutex_(r)] = {}]
    /\ UNCHANGED <<all_primitives_, waiting, want, aborted>>

SharedToExclusive(t, r) ==
    /\ r \in all_primitives_ /\ Running(t)
    /\ t \in owners[r]
    /\ owners' = IF owners[r] = {t}
                 THEN [owners EXCEPT ![r] = {}, ![mutex_(r)] = {t}]
                 ELSE [owners EXCEPT ![r] = @ \ {t}]
    /\ UNCHANGED <<all_primitives_, waiting, want, aborted>>

MutexStep(t, m) == MutexLock(t, m) \/ MutexTryLock(t, m) \/ MutexUnlock(t, m)

RwStep(t, r) == \/ LockShared(t, r) \/ TryLockShared(t, r)
                \/ LockExclusive(t, r) \/ TryLockExclusive(t, r)
                \/ RwUnlock(t, r)
                \/ ExclusiveToShared(t, r) \/ SharedToExclusive(t, r)

Stopped == aborted # "no" /\ UNCHANGED vars

Next == \/ \E o \in Mutex \union RwLock : AllocatePrimitive(o) \/ FreePrimitive(o)
        \/ \E t \in Thread, m \in Mutex : MutexStep(t, m)
        \/ \E t \in Thread, r \in RwLock : RwStep(t, r)
        \/ Stopped

Spec == Init /\ [][Next]_vars
-----------------------------------------------------------------------------
(* Threads that wait for each other: everyone in S waits for an object     *)
(* that someone in S owns.                                                 *)
Deadlocked(S) == \A t \in S : waiting[t] # None
                              /\ owners[waiting[t]] \intersect S # {}

(* The same, as far as the tracker can see.                                *)
TrackedDeadlock(S) == \A t \in S : Dependencies(t) \intersect S # {}

(* Every deadlock among registered objects is reported by the thread that  *)
(* closes the cycle, although the search runs only when a wait begins,     *)
(* waiters_ keeps threads that have been woken already, and locks change   *)
(* owner while threads wait for them.                                      *)
TrackedDeadlocksReported ==
    aborted = "no" => \A S \in SUBSET Thread : TrackedDeadlock(S) => S = {}

(* A reported deadlock is one: no false alarm, whatever stale waiters the  *)
(* lists hold.                                                             *)
ReportsAreReal == aborted = "deadlock" =>
                      \E S \in SUBSET Thread : S # {} /\ Deadlocked(S)

(* What sync.cc promises of DetectDeadlock ("If any owner has a dependency *)
(* chain leading back to us we have a deadlock"), for all locks.           *)
DeadlocksReported ==
    aborted = "no" => \A S \in SUBSET Thread : Deadlocked(S) => S = {}

(* No thread waits for what it owns (GetObjectWithWaiter aborts on it) or  *)
(* for a lock that is gone, and a lock has one writer or any readers.      *)
OwnersAndWaiters ==
    /\ \A t \in Thread : waiting[t] # None => t \notin owners[waiting[t]]
    /\ \A o \in (Mutex \union RwLock) \ all_primitives_ :
          owners[o] = {} /\ \A t \in Thread : waiting[t] # o
    /\ \A m \in Sync \ RwLock : \A t, u \in owners[m] : t = u
    /\ \A r \in RwLock : owners[r] = {} \/ owners[mutex_(r)] = {}
=============================================================================
