--------------------------- MODULE ThreadExecutor ---------------------------
(***************************************************************************)
(* third_party/concurrence/executor/stdthread: the executor that runs each *)
(* thread on an OS thread of its own and passes one token, executor_mutex_,*)
(* between them.  An action is what an OS thread does while it holds the   *)
(* mutex, up to the Await that gives it away; who takes a free mutex is up *)
(* to absl::Mutex: anyone whose condition holds.                           *)
(*                                                                         *)
(* The caller is FuzzedScheduler: it switches to live threads only, and    *)
(* main deletes threads reported as destroyed.  ~ThreadExecutor deletes    *)
(* the rest, whatever they are at.  Left out: names, backtraces and tid_.  *)
(***************************************************************************)
EXTENDS Naturals

CONSTANTS Thread,             \* CooperativeThread objects
          Main,               \* MAIN_THREAD_HANDLE
          None,               \* nobody
          DeleteUnstarted     \* the destructor finds threads never run

ASSUME HandleAssumption == Main \notin Thread /\ None \notin Thread \union {Main}
ASSUME UseAssumption == DeleteUnstarted \in BOOLEAN

VARIABLES executor_mutex_,      \* the OS thread that holds the mutex
          g_current_thread,
          main_thread_running_,
          running_, terminate_, joinable_,
          pc,                   \* where each OS thread is
          deleting,             \* the thread main is destroying
          destroyed,            \* reported by callbacks()->ThreadDestroyed
          closing,              \* ~ThreadExecutor has begun
          aborted               \* a CHECK failed

vars == <<executor_mutex_, g_current_thread, main_thread_running_, running_,
          terminate_, joinable_, pc, deleting, destroyed, closing, aborted>>

(* No OS thread; Start's LockWhen; executing; Wait; Wait inside            *)
(* NotifyDestroyed; Await of main_thread_running_; past ExitThread's       *)
(* Unlock; exited; main's Await of joinable_; main's join.                 *)
Pc == {"none", "LockWhen", "run", "Wait", "NotifyDestroyed", "AwaitMain",
       "exiting", "gone", "AwaitJoinable", "join"}

TypeOK == /\ executor_mutex_ \in Thread \union {Main, None}
          /\ g_current_thread \in Thread \union {Main}
          /\ main_thread_running_ \in BOOLEAN
          /\ running_ \in [Thread -> BOOLEAN]
          /\ terminate_ \in [Thread -> BOOLEAN]
          /\ joinable_ \in [Thread -> BOOLEAN]
          /\ pc \in [Thread \union {Main} -> Pc]
          /\ deleting \in Thread \union {None}
          /\ destroyed \subseteq Thread
          /\ closing \in BOOLEAN /\ aborted \in BOOLEAN

Init == /\ executor_mutex_ = Main /\ g_current_thread = Main
        /\ main_thread_running_ = TRUE
        /\ running_ = [t \in Thread |-> FALSE]
        /\ terminate_ = [t \in Thread |-> FALSE]
        /\ joinable_ = [t \in Thread |-> FALSE]
        /\ pc = [t \in Thread \union {Main} |-> IF t = Main THEN "run" ELSE "none"]
        /\ deleting = None /\ destroyed = {}
        /\ closing = FALSE /\ aborted = FALSE
-----------------------------------------------------------------------------
(* OS thread o executes the caller's code, with the mutex held.            *)
Runs(o) == ~aborted /\ executor_mutex_ = o /\ pc[o] = "run"

Abort == /\ aborted' = TRUE
         /\ UNCHANGED <<executor_mutex_, g_current_thread, main_thread_running_,
                        running_, terminate_, joinable_, pc, deleting,
                        destroyed, closing>>

CreateThread(o, t) ==
    /\ Runs(o) /\ ~closing
    /\ pc[t] = "none"
    /\ pc' = [pc EXCEPT ![t] = "LockWhen"]
    /\ UNCHANGED <<executor_mutex_, g_current_thread, main_thread_running_,
                   running_, terminate_, joinable_, deleting, destroyed,
                   closing, aborted>>

(* SwitchTo(h) by o: wake the target, then pause the thread that           *)
(* g_current_thread names.  Two CHECKs: main is not running yet, and no    *)
(* thread signals itself.                                                  *)
SwitchTo(o, h) ==
    /\ Runs(o) /\ (o = Main => ~closing)
    /\ h # g_current_thread
    /\ h = Main \/ (pc[h] # "none" /\ h \notin destroyed)
    /\ IF (h = Main /\ main_thread_running_) \/ h = o
       THEN Abort
       ELSE /\ g_current_thread' = h
            /\ main_thread_running_' = (h = Main \/ (main_thread_running_
                                                     /\ g_current_thread # Main))
            /\ running_' = [t \in Thread |->
                              IF t = g_current_thread THEN FALSE
                              ELSE t = h \/ running_[t]]
            /\ pc' = [pc EXCEPT ![o] =
                        IF g_current_thread = Main THEN "AwaitMain" ELSE "Wait"]
            /\ executor_mutex_' = None
            /\ UNCHANGED <<terminate_, joinable_, deleting, destroyed, closing,
                           aborted>>

(* ExitThread by t, which reports itself and then switches to main: it     *)
(* goes past that only when main is current, as it is for its destructor.  *)
ExitThread(t) ==
    IF g_current_thread # Main /\ main_thread_running_ THEN Abort
    ELSE /\ destroyed' = destroyed \union {t}
         /\ executor_mutex_' = None
         /\ IF g_current_thread = Main
            THEN /\ joinable_' = [joinable_ EXCEPT ![t] = TRUE]
                 /\ pc' = [pc EXCEPT ![t] = "exiting"]
                 /\ UNCHANGED <<g_current_thread, main_thread_running_, running_>>
            ELSE /\ g_current_thread' = Main
                 /\ main_thread_running_' = TRUE
                 /\ running_' = [running_ EXCEPT ![t] = FALSE]
                 /\ pc' = [pc EXCEPT ![t] = "NotifyDestroyed"]
                 /\ UNCHANGED joinable_
         /\ UNCHANGED <<terminate_, deleting, closing, aborted>>

(* The thread's target_ returns.                                           *)
TargetReturns(t) == Runs(t) /\ ExitThread(t)

(* Mutant: Start waits for a condition nobody sets.                        *)
WakeableStarted(o) ==
    \/ o # Main /\ pc[o] \in {"Wait", "NotifyDestroyed"} /\ running_[o]
    \/ pc[o] = "AwaitMain" /\ main_thread_running_
    \/ pc[o] = "AwaitJoinable" /\ joinable_[deleting]

(* The condition o waits for, with the mutex given away.                   *)
Wakeable(o) ==
    \/ o # Main /\ pc[o] \in {"LockWhen", "Wait", "NotifyDestroyed"} /\ running_[o]
    \/ pc[o] = "AwaitMain" /\ main_thread_running_
    \/ pc[o] = "AwaitJoinable" /\ joinable_[deleting]

(* Mutant: Wait does not look at terminate_.                               *)
ResumeTerminated(o) ==
    /\ ~aborted /\ executor_mutex_ = None /\ Wakeable(o)
    /\ pc[o] \in {"LockWhen", "Wait", "AwaitMain"}
    /\ executor_mutex_' = o
    /\ pc' = [pc EXCEPT ![o] = "run"]
    /\ UNCHANGED <<g_current_thread, main_thread_running_, running_,
                   terminate_, joinable_, deleting, destroyed, closing, aborted>>

(* o gets the mutex and goes on.                                           *)
Resume(o) ==
    /\ ~aborted /\ executor_mutex_ = None /\ Wakeable(o)
    /\ pc[o] \in {"LockWhen", "Wait", "AwaitMain"}
    /\ pc[o] = "Wait" => ~terminate_[o]
    /\ executor_mutex_' = o
    /\ pc' = [pc EXCEPT ![o] = "run"]
    /\ UNCHANGED <<g_current_thread, main_thread_running_, running_,
                   terminate_, joinable_, deleting, destroyed, closing, aborted>>

(* Wait finds terminate_ set.                                              *)
Terminated(t) ==
    /\ ~aborted /\ executor_mutex_ = None /\ Wakeable(t)
    /\ pc[t] \in {"Wait", "NotifyDestroyed"} /\ terminate_[t]
    /\ ExitThread(t)

PthreadExit(t) ==
    /\ ~aborted /\ pc[t] = "exiting"
    /\ pc' = [pc EXCEPT ![t] = "gone"]
    /\ UNCHANGED <<executor_mutex_, g_current_thread, main_thread_running_,
                   running_, terminate_, joinable_, deleting, destroyed,
                   closing, aborted>>
-----------------------------------------------------------------------------
(* ~ThreadExecutor begins to destroy threads_.                             *)
Close ==
    /\ Runs(Main) /\ ~closing
    /\ DeleteUnstarted \/ \A t \in Thread : pc[t] # "LockWhen"
    /\ closing' = TRUE
    /\ UNCHANGED <<executor_mutex_, g_current_thread, main_thread_running_,
                   running_, terminate_, joinable_, pc, deleting, destroyed,
                   aborted>>

(* Mutant: the destructor does not Signal the thread.                      *)
DeleteThreadNoSignal(t) ==
    /\ Runs(Main)
    /\ pc[t] # "none" /\ (t \in destroyed \/ closing)
    /\ terminate_' = [terminate_ EXCEPT ![t] = TRUE]
    /\ deleting' = t
    /\ pc' = [pc EXCEPT ![Main] = "AwaitJoinable"]
    /\ executor_mutex_' = None
    /\ UNCHANGED <<g_current_thread, main_thread_running_, running_,
                   joinable_, destroyed, closing, aborted>>

(* ~CooperativeThread on main: wake the thread so that it exits, wait for  *)
(* joinable_, join.                                                        *)
DeleteThread(t) ==
    /\ Runs(Main)
    /\ pc[t] # "none" /\ (t \in destroyed \/ closing)
    /\ terminate_' = [terminate_ EXCEPT ![t] = TRUE]
    /\ running_' = [running_ EXCEPT ![t] = TRUE]
    /\ deleting' = t
    /\ pc' = [pc EXCEPT ![Main] = "AwaitJoinable"]
    /\ executor_mutex_' = None
    /\ UNCHANGED <<g_current_thread, main_thread_running_, joinable_,
                   destroyed, closing, aborted>>

SeesJoinable ==
    /\ ~aborted /\ executor_mutex_ = None
    /\ pc[Main] = "AwaitJoinable" /\ joinable_[deleting]
    /\ executor_mutex_' = Main
    /\ pc' = [pc EXCEPT ![Main] = "join"]
    /\ UNCHANGED <<g_current_thread, main_thread_running_, running_,
                   terminate_, joinable_, deleting, destroyed, closing, aborted>>

Joined ==
    /\ ~aborted /\ pc[Main] = "join" /\ pc[deleting] = "gone"
    /\ pc' = [pc EXCEPT ![Main] = "run", ![deleting] = "none"]
    /\ running_' = [running_ EXCEPT ![deleting] = FALSE]
    /\ terminate_' = [terminate_ EXCEPT ![deleting] = FALSE]
    /\ joinable_' = [joinable_ EXCEPT ![deleting] = FALSE]
    /\ destroyed' = destroyed \ {deleting}
    /\ deleting' = None
    /\ UNCHANGED <<executor_mutex_, g_current_thread, main_thread_running_,
                   closing, aborted>>

Closed == /\ aborted \/ (closing /\ \A t \in Thread : pc[t] = "none")
          /\ UNCHANGED vars

Next == \/ \E o \in Thread \union {Main}, t \in Thread : CreateThread(o, t)
        \/ \E o, h \in Thread \union {Main} : SwitchTo(o, h)
        \/ \E t \in Thread : TargetReturns(t)
        \/ \E o \in Thread \union {Main} : Resume(o)
        \/ \E t \in Thread : Terminated(t)
        \/ \E t \in Thread : PthreadExit(t)
        \/ Close
        \/ \E t \in Thread : DeleteThread(t)
        \/ SeesJoinable
        \/ Joined
        \/ Closed

(* The OS runs every thread that can run, and absl::Mutex wakes a waiter   *)
(* whose condition holds; what the callers' code does is up to it.         *)
Fairness == /\ WF_vars(\E o \in Thread \union {Main} : Resume(o))
            /\ WF_vars(\E t \in Thread : Terminated(t))
            /\ WF_vars(\E t \in Thread : PthreadExit(t))
            /\ WF_vars(SeesJoinable)
            /\ WF_vars(Joined)

Spec == Init /\ [][Next]_vars
FairSpec == Spec /\ Fairness
-----------------------------------------------------------------------------
(* thread_executor.h: the mutex is the token that must be held for any     *)
(* thread to be runnable.  It is never lost and never contended: when it   *)
(* is free exactly one OS thread is due to take it, and while it is held   *)
(* nobody else is awake.                                                   *)
TokenPassedToOne ==
    LET Due(o) == executor_mutex_ = o \/ Wakeable(o)
    IN  \E o \in Thread \union {Main} :
           Due(o) /\ \A p \in Thread \union {Main} : Due(p) => p = o

(* The code that runs is that of the thread g_current_thread names.        *)
RunnerIsCurrent == \A o \in Thread \union {Main} :
                      pc[o] = "run" => o = g_current_thread

(* A thread destroyed by main only exits: its code does not run again.     *)
(* This needs every thread to have been started before it is destroyed,    *)
(* since Start does not test terminate_ (DeleteUnstarted).                 *)
TerminatedOnlyExits == \A t \in Thread : terminate_[t] => pc[t] # "run"

(* Main returns from DeleteThread: the thread exits and is joined.         *)
DeleteThreadReturns == pc[Main] = "AwaitJoinable" ~> pc[Main] = "run"

(* SwitchTo reaches its target: the thread named current gets to run.      *)
SwitchArrives == \A o \in Thread \union {Main} :
                    g_current_thread = o ~> (pc[o] = "run" \/ g_current_thread # o)

(* The safety behind SwitchArrives: once SwitchTo has named a thread       *)
(* current, nobody else takes the free mutex, and nobody names another     *)
(* thread before that one runs.                                            *)
SwitchNotOvertaken ==
    [][/\ executor_mutex_ = None /\ executor_mutex_' # None
             => executor_mutex_' = g_current_thread
       /\ g_current_thread' # g_current_thread
             => pc[g_current_thread] = "run" /\ executor_mutex_ = g_current_thread]_vars

(* The safety behind DeleteThreadReturns: what is left of a deletion, in   *)
(* steps of the deleted thread and of main; every step is one of these,    *)
(* and the last one leaves main running and the thread gone.               *)
DeleteLeft == (IF pc[deleting] \in {"exiting", "gone"} THEN 0 ELSE 1)
              + (IF pc[deleting] = "gone" THEN 0 ELSE 1)
              + (IF pc[Main] = "join" THEN 0 ELSE 1)

DeletionAdvances ==
    [][deleting # None =>
         /\ \A t \in Thread \ {deleting} : pc'[t] = pc[t] /\ running_'[t] = running_[t]
         /\ \/ deleting' = deleting /\ DeleteLeft' < DeleteLeft
            \/ /\ deleting' = None /\ DeleteLeft = 0
               /\ pc'[Main] = "run" /\ pc'[deleting] = "none"]_vars

(* The executor on its own implements the one-processor specification: a   *)
(* thread that was created and not reported as destroyed can be switched   *)
(* to.                                                                     *)
alive == {t \in Thread : pc[t] # "none" /\ t \notin destroyed}

Coop == INSTANCE CoopScheduler
          WITH Handle <- Thread,
               ready <- alive \ {g_current_thread},
               running <- g_current_thread

ImplementsCoop == Coop!Spec
-----------------------------------------------------------------------------
(* The inductive invariant, for an executor that is destroyed when every   *)
(* thread has run.  No CHECK has failed, and main_thread_running_ says     *)
(* whether main is current.                                                *)
ChecksPass == ~aborted /\ (main_thread_running_ <=> g_current_thread = Main)

(* A thread that is not being deleted: running_ says whether it is current,*)
(* it waits unless it has the mutex, and it is in NotifyDestroyed exactly  *)
(* when it was reported.                                                   *)
Undisturbed(t) ==
    /\ running_[t] <=> t = g_current_thread
    /\ ~terminate_[t] /\ ~joinable_[t]
    /\ pc[t] \in {"none", "LockWhen", "Wait", "NotifyDestroyed", "run"}
    /\ t \in destroyed <=> pc[t] = "NotifyDestroyed"
    /\ t = g_current_thread => pc[t] \in {"LockWhen", "Wait", "run"}
    /\ pc[t] = "run" <=> executor_mutex_ = t
    /\ pc[t] = "run" => t = g_current_thread

(* Between deletions the mutex is the current thread's, or free for it.    *)
TokenAtRest ==
    deleting = None =>
       /\ \A t \in Thread : Undisturbed(t)
       /\ pc[Main] \in {"run", "AwaitMain"}
       /\ pc[Main] = "run" <=> executor_mutex_ = Main
       /\ pc[Main] = "run" => g_current_thread = Main

(* While main deletes a thread main stays current, the mutex is for that   *)
(* thread until it is joinable and for main afterwards.                    *)
TokenInDeletion ==
    deleting # None =>
       /\ g_current_thread = Main
       /\ \A t \in Thread \ {deleting} : Undisturbed(t)
       /\ running_[deleting] /\ terminate_[deleting]
       /\ \/ /\ pc[deleting] \in {"Wait", "NotifyDestroyed"}
             /\ ~joinable_[deleting]
             /\ pc[Main] = "AwaitJoinable" /\ executor_mutex_ = None
          \/ /\ pc[deleting] \in {"exiting", "gone"} /\ joinable_[deleting]
             /\ deleting \in destroyed
             /\ \/ pc[Main] = "AwaitJoinable" /\ executor_mutex_ = None
                \/ pc[Main] = "join" /\ executor_mutex_ = Main

(* Once ~ThreadExecutor has begun nothing is switched to or started.       *)
NoneUnstarted ==
    closing => g_current_thread = Main /\ \A t \in Thread : pc[t] # "LockWhen"

ExecutorInv == /\ TypeOK
               /\ ChecksPass
               /\ TokenAtRest
               /\ TokenInDeletion
               /\ NoneUnstarted
=============================================================================
