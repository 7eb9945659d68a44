---------------------------- MODULE HostThread ----------------------------
(***************************************************************************)
(* fuzz/host/host.cc: the kernel-thread state the Host keeps beside the    *)
(* scheduler (waiting_, terminating_, suspended_, wait results,            *)
(* continuations) and the calls the kernel makes on it to wait, wake,      *)
(* block, yield, suspend, terminate and destroy threads.                   *)
(*                                                                         *)
(* One processor; an action is what happens between two switches and, when *)
(* it ends in a switch, the resumption of the other thread (ThreadResumed) *)
(* too.  The run queue is CoopScheduler's set of ready threads, from which *)
(* any may be picked.  Left out: the hypercalls that only read, thread     *)
(* names, the scheduling-report callbacks, and wake_active.                *)
(***************************************************************************)
CONSTANTS Thread,       \* kernel threads other than main_thread
          Main,         \* main_thread
          Debug,        \* FALSE when built with NDEBUG
          SelfWake,     \* the kernel may clear_wait() the running thread
          Suspension    \* the kernel may suspend threads

ASSUME MainAssumption == Main \notin Thread
ASSUME SwitchesAssumption ==
    Debug \in BOOLEAN /\ SelfWake \in BOOLEAN /\ Suspension \in BOOLEAN

WakeResult == {"AWAKENED", "TIMED_OUT", "INTERRUPTED"}

VARIABLES runnable,              \* threads queued in the scheduler
          current,               \* the thread that has the processor
          waiting_, uninterruptible_, wait_report_,
          terminating_, enqueued_for_termination_,
          suspended_, suspended_runnable_,
          wait_results_,
          continuations_,        \* threads with a continuation set
          at,                    \* where a thread is: see At
          given,                 \* result given to the wait of a thread
          aborted

flags == <<waiting_, uninterruptible_, wait_report_>>
ending == <<terminating_, enqueued_for_termination_>>
suspension == <<suspended_, suspended_runnable_>>
vars == <<runnable, current, flags, ending, suspension, wait_results_,
          continuations_, at, given, aborted>>

(* Not existing, created and not started, executing, in ThreadBlock, in    *)
(* Yield, in a lock's Block.                                               *)
At == {"none", "new", "run", "ThreadBlock", "Yield", "Block"}

Live == {t \in Thread : at[t] # "none"}

TypeOK == /\ runnable \subseteq Thread /\ current \in Thread \union {Main}
          /\ waiting_ \subseteq Thread /\ uninterruptible_ \subseteq Thread
          /\ wait_report_ \subseteq Thread
          /\ terminating_ \subseteq Thread
          /\ enqueued_for_termination_ \subseteq Thread
          /\ suspended_ \subseteq Thread /\ suspended_runnable_ \subseteq Thread
          /\ wait_results_ \in [Thread -> WakeResult \union {"WAITING"}]
          /\ continuations_ \subseteq Thread
          /\ at \in [Thread -> At]
          /\ given \in [Thread -> WakeResult \union {"NONE"}]
          /\ aborted \in BOOLEAN

Init == /\ runnable = {} /\ current = Main
        /\ waiting_ = {} /\ uninterruptible_ = {} /\ wait_report_ = {}
        /\ terminating_ = {} /\ enqueued_for_termination_ = {}
        /\ suspended_ = {} /\ suspended_runnable_ = {}
        /\ wait_results_ = [t \in Thread |-> "WAITING"]
        /\ continuations_ = {}
        /\ at = [t \in Thread |-> "none"]
        /\ given = [t \in Thread |-> "NONE"]
        /\ aborted = FALSE
-----------------------------------------------------------------------------
Abort == /\ aborted' = TRUE
         /\ UNCHANGED <<runnable, current, flags, ending, suspension,
                        wait_results_, continuations_, at, given>>

(* A kernel thread is created waiting, uninterruptibly, to be started by a *)
(* wakeup; it may be given a continuation to run.                          *)
CreateThread(t, continuation) ==
    /\ ~aborted /\ at[t] = "none"
    /\ at' = [at EXCEPT ![t] = "new"]
    /\ waiting_' = waiting_ \union {t}
    /\ uninterruptible_' = uninterruptible_ \union {t}
    /\ continuations_' = IF continuation THEN continuations_ \union {t}
                                         ELSE continuations_
    /\ UNCHANGED <<runnable, current, wait_report_, ending, suspension,
                   wait_results_, given, aborted>>

(* assert_wait of the running thread, one at a time; a pending abort makes *)
(* it return INTERRUPTED instead (MarkWaitInterrupted).                    *)
ThreadMarkWaitLocked(interruptible, report) ==
    /\ ~aborted /\ current # Main /\ current \notin waiting_
    /\ IF /\ Debug
          /\ current \in waiting_ \union uninterruptible_ \union wait_report_
                           \union enqueued_for_termination_
       THEN Abort
       ELSE /\ waiting_' = waiting_ \union {current}
            /\ uninterruptible_' = IF interruptible THEN uninterruptible_
                                   ELSE uninterruptible_ \union {current}
            /\ wait_report_' = IF report THEN wait_report_ \union {current}
                               ELSE wait_report_
            /\ wait_results_' = [wait_results_ EXCEPT ![current] = "WAITING"]
            /\ given' = [given EXCEPT ![current] = "NONE"]
            /\ UNCHANGED <<runnable, current, ending, suspension,
                           continuations_, at, aborted>>

MarkWaitInterrupted ==
    /\ ~aborted /\ current # Main /\ current \notin waiting_
    /\ ~Debug \/ current \notin uninterruptible_ \union wait_report_
                               \union enqueued_for_termination_
    /\ wait_results_' = [wait_results_ EXCEPT ![current] = "INTERRUPTED"]
    /\ given' = [given EXCEPT ![current] = "NONE"]
    /\ UNCHANGED <<runnable, current, flags, ending, suspension,
                   continuations_, at, aborted>>

(* Mutant: the uninterruptible flag survives the wait.                     *)
ClearWaitOnly(t, result) ==
    /\ waiting_' = waiting_ \ {t}
    /\ wait_report_' = wait_report_ \ {t}
    /\ wait_results_' = [wait_results_ EXCEPT ![t] = result]
    /\ UNCHANGED uninterruptible_

(* ThreadClearWait(t, result) on the flags.                                *)
ClearWait(t, result) ==
    /\ waiting_' = waiting_ \ {t}
    /\ uninterruptible_' = uninterruptible_ \ {t}
    /\ wait_report_' = wait_report_ \ {t}
    /\ wait_results_' = [wait_results_ EXCEPT ![t] = result]

(* thread_go.  The kernel wakes threads it finds in a wait (one that has   *)
(* since blocked on a lock, too); the last wait of a terminating thread is *)
(* for nothing and nobody ends it.  The early return is for a thread that  *)
(* is queued already.                                                      *)
ThreadWakeup(t, result) ==
    /\ ~aborted
    /\ t \in waiting_ \ terminating_
    /\ t # current \/ SelfWake
    /\ ClearWait(t, result)
    /\ runnable' = runnable \union {t}
    /\ given' = IF at[t] = "ThreadBlock" THEN [given EXCEPT ![t] = result]
                                         ELSE given
    /\ UNCHANGED <<current, ending, suspension, continuations_, at, aborted>>
-----------------------------------------------------------------------------
(* Mutants: a preempted thread is not queued; one that waits is; one that  *)
(* terminates is handed over although it does not wait yet.                *)
SwitchFromLoses(q) ==
    /\ runnable' = q \ {current}
    /\ enqueued_for_termination_' =
          enqueued_for_termination_
              \union ({current} \intersect terminating_ \intersect waiting_)

SwitchFromQueues(q) ==
    /\ runnable' = q \union ({current} \ {Main})
    /\ UNCHANGED enqueued_for_termination_

SwitchFromReaps(q) ==
    /\ runnable' = IF current \in waiting_ THEN q \ {current}
                   ELSE q \union ({current} \ {Main})
    /\ enqueued_for_termination_' =
          enqueued_for_termination_ \union ({current} \intersect terminating_)

(* SwitchFrom: the leaving thread is queued again unless it waits; one     *)
(* that waits and is terminating is handed to the reaper, once.            *)
SwitchFrom(q) ==
    IF current \in waiting_
    THEN /\ runnable' = q \ {current}
         /\ enqueued_for_termination_' =
               enqueued_for_termination_ \union ({current} \intersect terminating_)
    ELSE /\ runnable' = q \union ({current} \ {Main})
         /\ UNCHANGED enqueued_for_termination_

(* ThreadResumed, on the thread h that got the processor, when c are the   *)
(* threads with a continuation and the one that left h the processor is at *)
(* p.  A continuation is taken and called, with AWAKENED as the result.    *)
Resume(h, p, c) ==
    /\ current' = h
    /\ at' = [t \in Thread |-> IF t = h THEN "run"
                               ELSE IF t = current THEN p ELSE at[t]]
    /\ IF h = Main THEN UNCHANGED <<flags, wait_results_>>
                   ELSE ClearWait(h, "AWAKENED")
    /\ continuations_' = c \ {h}

(* ThreadSelect and SwitchTo, from a child: any queued thread is picked,   *)
(* or Main when there is none.                                             *)
SwitchAway(p, c) ==
    /\ \/ \E h \in runnable \ {current} :
             SwitchFrom(runnable \ {h}) /\ Resume(h, p, c)
       \/ runnable = {} /\ SwitchFrom({}) /\ Resume(Main, p, c)
    /\ UNCHANGED <<terminating_, suspension, aborted>>

(* Mutant: the same when the thread was picked itself.                     *)
KeepRunningKeepsContinuation(c) ==
    /\ current \in runnable
    /\ runnable' = runnable \ {current}
    /\ continuations_' = c
    /\ UNCHANGED <<current, flags, ending, suspension, wait_results_, at,
                   given, aborted>>

(* The pick is the running thread itself, which was queued: SwitchTo calls *)
(* its continuation or returns at once, and clears no wait.                *)
KeepRunning(c) ==
    /\ current \in runnable
    /\ runnable' = runnable \ {current}
    /\ continuations_' = c \ {current}
    /\ aborted' = (Debug /\ current \in waiting_ /\ current \notin c)
    /\ UNCHANGED <<current, flags, ending, suspension, wait_results_, at, given>>

(* ThreadBlockReason: set or clear the continuation, then ThreadBlock.     *)
ThreadBlock(continuation) ==
    LET c == IF continuation THEN continuations_ \union {current}
                             ELSE continuations_ \ {current}
    IN  /\ ~aborted /\ current # Main
        /\ \/ SwitchAway("ThreadBlock", c) /\ UNCHANGED given
           \/ KeepRunning(c)

(* A preemption point; nothing for a thread that waits already.            *)
Yield ==
    /\ ~aborted /\ current # Main /\ current \notin waiting_
    /\ \/ SwitchAway("Yield", continuations_) /\ given' = [given EXCEPT ![current] = "NONE"]
       \/ KeepRunning(continuations_)

(* FuzzedScheduler::Block, of a thread that needs a lock: ThreadWillBlock, *)
(* then straight to main without SwitchFrom.                               *)
Block ==
    /\ ~aborted /\ current # Main
    /\ waiting_' = waiting_ \union {current}
    /\ uninterruptible_' = uninterruptible_ \union {current}
    /\ at' = [at EXCEPT ![current] = "Block"]
    /\ given' = [given EXCEPT ![current] = "NONE"]
    /\ current' = Main
    /\ UNCHANGED <<runnable, wait_report_, ending, suspension, wait_results_,
                   continuations_, aborted>>

(* WakeupWaiters of the lock: MakeRunnable, and nothing else.              *)
LockReleased(t) ==
    /\ ~aborted /\ at[t] = "Block"
    /\ runnable' = runnable \union {t}
    /\ UNCHANGED <<current, flags, ending, suspension, wait_results_,
                   continuations_, at, given, aborted>>

(* RunUntilEmpty on main: hand the processor to a queued thread.           *)
RunOne == /\ ~aborted /\ current = Main
          /\ \E h \in runnable : runnable' = runnable \ {h} /\ Resume(h, "run", continuations_)
          /\ UNCHANGED <<ending, suspension, given, aborted>>
-----------------------------------------------------------------------------
(* The running thread is about to end: it is marked and waits for good.    *)
Terminate ==
    /\ ~aborted /\ current # Main /\ current \notin waiting_
    /\ terminating_' = terminating_ \union {current}
    /\ UNCHANGED <<runnable, current, flags, enqueued_for_termination_,
                   suspension, wait_results_, continuations_, at, given, aborted>>

(* The reaper destroys a thread it was handed.                             *)
ThreadDestroyed(t) ==
    /\ ~aborted /\ t \in enqueued_for_termination_ /\ t # current
    /\ at' = [at EXCEPT ![t] = "none"]
    /\ waiting_' = waiting_ \ {t}
    /\ uninterruptible_' = uninterruptible_ \ {t}
    /\ wait_report_' = wait_report_ \ {t}
    /\ terminating_' = terminating_ \ {t}
    /\ enqueued_for_termination_' = enqueued_for_termination_ \ {t}
    /\ suspended_' = suspended_ \ {t}
    /\ continuations_' = continuations_ \ {t}
    /\ wait_results_' = [wait_results_ EXCEPT ![t] = "WAITING"]
    /\ given' = [given EXCEPT ![t] = "NONE"]
    /\ runnable' = runnable \ {t}
    /\ UNCHANGED <<current, suspended_runnable_, aborted>>

SetSuspended(t) ==
    /\ ~aborted /\ Suspension /\ t \in Live
    /\ suspended_' = suspended_ \union {t}
    /\ suspended_runnable_' = suspended_runnable_ \union ({t} \intersect runnable)
    /\ runnable' = runnable \ {t}
    /\ UNCHANGED <<current, flags, ending, wait_results_, continuations_, at,
                   given, aborted>>

(* Mutant: a thread suspended while queued is not queued again.            *)
SetNotSuspendedLoses(t) ==
    /\ ~aborted /\ Suspension /\ t \in Live
    /\ suspended_' = suspended_ \ {t}
    /\ suspended_runnable_' = suspended_runnable_ \ {t}
    /\ UNCHANGED <<runnable, current, flags, ending, wait_results_,
                   continuations_, at, given, aborted>>

SetNotSuspended(t) ==
    /\ ~aborted /\ Suspension /\ t \in Live
    /\ suspended_' = suspended_ \ {t}
    /\ suspended_runnable_' = suspended_runnable_ \ {t}
    /\ runnable' = runnable \union ({t} \intersect suspended_runnable_)
    /\ UNCHANGED <<current, flags, ending, wait_results_, continuations_, at,
                   given, aborted>>

Stopped == aborted /\ UNCHANGED vars

Next == \/ \E t \in Thread, c \in BOOLEAN : CreateThread(t, c)
        \/ \E i, r \in BOOLEAN : ThreadMarkWaitLocked(i, r)
        \/ MarkWaitInterrupted
        \/ \E t \in Thread, r \in WakeResult : ThreadWakeup(t, r)
        \/ \E c \in BOOLEAN : ThreadBlock(c)
        \/ Yield
        \/ Block
        \/ \E t \in Thread : LockReleased(t)
        \/ RunOne
        \/ Terminate
        \/ \E t \in Thread : ThreadDestroyed(t)
        \/ \E t \in Thread : SetSuspended(t) \/ SetNotSuspended(t)
        \/ Stopped

Spec == Init /\ [][Next]_vars
-----------------------------------------------------------------------------
(* No thread is lost: one that is off the processor waits, is queued, or   *)
(* will be queued when its suspension ends, whatever order waits, wakeups, *)
(* blocks, preemptions and suspensions came in.                            *)
NoThreadLost ==
    \A t \in Live \ {current} :
        \/ t \in waiting_ \union runnable
        \/ t \in suspended_ \intersect suspended_runnable_

(* A thread blocked in a wait runs again only after a ThreadWakeup: while  *)
(* the wait lasts it is not queued.                                        *)
WaitEndsByWakeup == \A t \in waiting_ :
    at[t] \in {"new", "ThreadBlock"} => t \notin runnable

(* A continuation replaces the stack of the thread that resumes: one is    *)
(* pending only for threads that gave their stack up, never for one that   *)
(* was preempted or blocks on a lock and must return into its frames.      *)
ContinuationsArePending ==
    \A t \in continuations_ : at[t] \in {"new", "ThreadBlock"}

(* A thread handed to the reaper never runs again.                         *)
ReapedNeverRun == \A t \in enqueued_for_termination_ :
                     t # current /\ t \notin runnable /\ t \in terminating_

(* The debug build's checks hold: assert_wait finds every flag of the last *)
(* wait cleared, and no thread returns from ThreadBlock still waiting.     *)
DebugChecksPass == aborted => SelfWake \/ Suspension

(* The result a wakeup gives (timeout, interruption) is the one the thread *)
(* that was blocked in ThreadBlock gets.                                   *)
WaitResultDelivered ==
    \A t \in Thread : at[t] = "run" /\ given[t] # "NONE" /\ t \notin waiting_
                        => wait_results_[t] = given[t]

(* The inductive invariant.  RunsAtRun and FlagsOfWaits hold always,       *)
(* NoneSuspended is what the absence of suspension adds, and QueuedOnce    *)
(* what the absence of self-wakeups adds to that.                          *)
RunsAtRun == /\ \A t \in Thread : at[t] = "run" <=> t = current
             /\ runnable \subseteq Live

FlagsOfWaits == /\ waiting_ \subseteq Live
                /\ uninterruptible_ \union wait_report_ \subseteq waiting_

NoneSuspended ==
    /\ suspended_ = {} /\ suspended_runnable_ = {}
    /\ WaitEndsByWakeup
    /\ ReapedNeverRun
    /\ \A t \in enqueued_for_termination_ : at[t] = "ThreadBlock"

QueuedOnce == current \notin runnable /\ ~aborted

HostInv == /\ TypeOK
           /\ RunsAtRun
           /\ FlagsOfWaits
           /\ NoThreadLost
           /\ ContinuationsArePending
           /\ Suspension \/ NoneSuspended
           /\ SelfWake \/ Suspension \/ QueuedOnce
=============================================================================
