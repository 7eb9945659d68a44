---------------------------- MODULE FuzzSession ----------------------------
(***************************************************************************)
(* One fuzzing session after another: HandleSession on the main thread     *)
(* makes three kernel threads that carry out the commands of the input,    *)
(* runs them until nothing is runnable, aborts and releases them, kills    *)
(* what is left and ends, and the next session starts on the same kernel.  *)
(*                                                                         *)
(* Everything is one OS thread, so an action is a stretch of code of       *)
(* g_current_thread between two places where it can lose the processor.    *)
(* The XNU kernel is external: inside a call a thread may do whatever the  *)
(* fakes let it do (yield, wait, take a stub, wake another thread), Fuel   *)
(* times per session.  The kernel's daemons are one thread, Daemon, which  *)
(* reaps ended threads and frees those that nobody refers to.              *)
(***************************************************************************)
EXTENDS Integers, FiniteSets, FuzzCommands, KernelStubs

CONSTANTS Handles,           \* stack addresses: 1..Handles
          Main, Daemon, None,
          Commands,          \* bound on the commands of a thread
          DelayNanoseconds,  \* the delays that kernel code asks for
          Sessions,          \* bound on the sessions
          Fuel,              \* bound on the kernel's steps in a session
          MaxStuck           \* bound on threads in uninterruptible waits

ASSUME BoundsAssumption ==
    /\ {Handles, Commands, Sessions, Fuel, MaxStuck} \subseteq Nat
    /\ Handles >= 3 + MaxStuck
    /\ DelayNanoseconds \subseteq Nat

Handle == 1..Handles
Slot == 1..3

ASSUME ThreadAssumption == /\ Main # Daemon
                           /\ {Main, Daemon, None} \intersect Handle = {}

VARIABLES step,                 \* the next statement of the main thread
          session,              \* sessions begun so far
          slot,                 \* thread1, thread2, thread3
          g_current_thread,
          runnable,
          st,                   \* where each thread is, or will resume
          todo,                 \* commands left to the thread
          shape,                \* kind of its current call, or "none"
          continued,            \* its call has been replaced by a continuation
          aborting,             \* TH_SFLAG_ABORT
          old,                  \* its session, and its commands, are gone
          copyin_blocked_,
          skipped,              \* UnblockCopyin calls a longjmp went past
          section,              \* of code with interrupts disabled
          xnu_fdp,              \* what the two data provider pointers
          thread_choices_,      \*   point to
          ready_for_preemption,
          interrupts_enabled_,
          fuel,
          crash

thread == <<todo, shape, continued, aborting, old>>
copy == <<copyin_blocked_, skipped>>
providers == <<xnu_fdp, thread_choices_>>
main == <<step, session, slot, ready_for_preemption>>
vars == <<main, g_current_thread, runnable, st, thread, copy, section,
          providers, interrupts_enabled_, fuel, crash>>

Places == {"free",      \* no such thread
           "new",       \* created, waits for its task to be released
           "user",      \* in CommandThread's loop
           "call",      \* in the kernel
           "disable",   \* in ml_set_interrupts_enabled, past its Yield
           "delay",     \* in machine_delay_until, past its Yield
           "wait",      \* interruptible wait
           "stuck",     \* uninterruptible wait
           "ended",     \* terminated, to be reaped
           "reaped"}    \* reaped, the session still has a reference

Steps == {"boot", "bootrun", "booted", "rest", "clone1", "clone2", "clone3",
          "clear1", "clear2", "provide", "run0", "abort1", "run1", "abort2",
          "run2", "abort3", "run3", "dealloc", "run4", "kill", "run5", "end"}

(* Every variable keeps its type.                                          *)
TypeOK ==
    /\ step \in Steps /\ session \in 0..Sessions
    /\ slot \in [Slot -> Handle \union {None}]
    /\ g_current_thread \in Handle \union {Main, Daemon}
    /\ runnable \subseteq Handle \union {Daemon}
    /\ st \in [Handle -> Places]
    /\ todo \in [Handle -> 0..Commands]
    /\ shape \in [Handle -> Shapes \union {"none"}]
    /\ {continued, aborting, old} \subseteq [Handle -> BOOLEAN]
    /\ {copyin_blocked_, skipped} \subseteq [Handle -> Int]
    /\ section \in [Handle -> {"no", "intact", "split"}]
    /\ {xnu_fdp, thread_choices_} \subseteq {"null", "live", "dead"}
    /\ {ready_for_preemption, interrupts_enabled_} \subseteq BOOLEAN
    /\ fuel \in 0..Fuel
    /\ crash \in {"no", "abort", "null", "dead", "freed"}

Init ==
    /\ step = "boot" /\ session = 0 /\ slot = [i \in Slot |-> None]
    /\ g_current_thread = Main /\ runnable = {}
    /\ st = [h \in Handle |-> "free"]
    /\ todo = [h \in Handle |-> 0]
    /\ shape = [h \in Handle |-> "none"]
    /\ continued = [h \in Handle |-> FALSE]
    /\ aborting = [h \in Handle |-> FALSE]
    /\ old = [h \in Handle |-> FALSE]
    /\ copyin_blocked_ = [h \in Handle |-> 0]
    /\ skipped = [h \in Handle |-> 0]
    /\ section = [h \in Handle |-> "no"]
    /\ xnu_fdp = "null" /\ thread_choices_ = "null"
    /\ ready_for_preemption = FALSE /\ interrupts_enabled_ = TRUE
    /\ fuel = 0 /\ crash = "no"
-----------------------------------------------------------------------------
(* Reads through the two pointers.  GetFuzzedUint32 and its kin follow     *)
(* xnu_fdp unchecked; the scheduler checks thread_choices_.                *)
ReadFdp == IF xnu_fdp = "live" THEN crash ELSE xnu_fdp

ReadChoices == IF thread_choices_ = "dead" THEN "dead" ELSE crash

(* GetRandomRunnableHandle draws a choice only between several threads.    *)
Pick(ready, back) ==
    /\ \E t \in ready : /\ g_current_thread' = t
                        /\ runnable' = (ready \ {t}) \union back
    /\ crash' = IF Cardinality(ready) > 1 THEN ReadChoices ELSE crash

(* Host::ThreadBlock: the processor goes to a runnable thread, to main     *)
(* when there is none; "back" stays runnable.  Whoever resumes has         *)
(* interrupts enabled.                                                     *)
ThreadBlock(ready, back) ==
    /\ \/ Pick(ready, back)
       \/ /\ ready = {}
          /\ g_current_thread' = Main /\ runnable' = back
          /\ UNCHANGED crash
    /\ interrupts_enabled_' = TRUE

Stay == UNCHANGED <<g_current_thread, runnable, crash, interrupts_enabled_>>

(* Mutant: Yield without the test of the interrupt flag.                   *)
CanYieldAlways(enabled) == ready_for_preemption

(* The conditions of Host::Yield.                                          *)
CanYield(enabled) == ready_for_preemption /\ enabled

YieldWith(enabled) ==
    IF CanYield(enabled) THEN ThreadBlock(runnable, {g_current_thread})
    ELSE /\ interrupts_enabled_' = enabled
         /\ UNCHANGED <<g_current_thread, runnable, crash>>

Yield == YieldWith(interrupts_enabled_)
-----------------------------------------------------------------------------
Running(h, place) == crash = "no" /\ g_current_thread = h /\ st[h] = place

Move(h, place) == st' = [st EXCEPT ![h] = place]

(* CommandThread takes its next command.  A thread left over from an       *)
(* earlier session finds its list of commands freed.                       *)
StartCommand(h, s) ==
    /\ Running(h, "user") /\ todo[h] > 0
    /\ IF old[h] THEN /\ crash' = "freed"
                      /\ UNCHANGED <<st, thread, copy>>
       ELSE /\ todo' = [todo EXCEPT ![h] = @ - 1]
            /\ shape' = [shape EXCEPT ![h] = s]
            /\ Move(h, IF s = "none" THEN "user" ELSE "call")
            /\ copyin_blocked_' = [copyin_blocked_ EXCEPT
                                      ![h] = @ + (IF s = "raw" THEN 1 ELSE 0)]
            /\ UNCHANGED <<continued, aborting, old, skipped, crash>>
    /\ UNCHANGED <<main, g_current_thread, runnable, section, providers,
                   interrupts_enabled_, fuel>>

(* Host::ThreadFinished: the thread terminates itself, which puts it on    *)
(* the reaper's queue, and never runs again.                               *)
ThreadFinished(h) ==
    /\ Running(h, "user") /\ todo[h] = 0
    /\ Move(h, "ended")
    /\ ThreadBlock(runnable \union {Daemon}, {})
    /\ UNCHANGED <<main, thread, copy, section, providers, fuel>>

(* The thread is back in CommandThread.                                    *)
CallOver(h) == /\ Move(h, "user")
               /\ shape' = [shape EXCEPT ![h] = "none"]
               /\ continued' = [continued EXCEPT ![h] = FALSE]
               /\ UNCHANGED <<todo, aborting, old>>

(* The call returns to HandleCommand, which yields.                        *)
ReturnToHandler(h) ==
    /\ Running(h, "call") /\ section[h] = "no" /\ ~continued[h]
    /\ copyin_blocked_' = [copyin_blocked_ EXCEPT
                              ![h] = @ - (IF shape[h] = "raw" THEN 1 ELSE 0)]
    /\ CallOver(h)
    /\ Yield
    /\ UNCHANGED <<main, skipped, section, providers, fuel>>

(* thread_syscall_return and its kin: longjmp to HandleCommand's setjmp,   *)
(* past UnblockCopyin and the Yield.                                       *)
SyscallReturn(h) ==
    /\ Running(h, "call") /\ section[h] = "no"
    /\ CallOver(h)
    /\ skipped' = [skipped EXCEPT
                      ![h] = @ + (IF shape[h] = "raw" THEN 1 ELSE 0)]
    /\ Stay
    /\ UNCHANGED <<main, copyin_blocked_, section, providers, fuel>>
-----------------------------------------------------------------------------
(* What the fakes let kernel code do inside a call.                        *)

Kernel(h) == Running(h, "call") /\ fuel > 0 /\ fuel' = fuel - 1

(* Atomics, IOSleep and the locks yield.                                   *)
KernelYield(h) ==
    /\ Kernel(h) /\ Yield
    /\ UNCHANGED <<main, st, thread, copy, section, providers>>

(* A stub that aborts, or that draws from xnu_fdp.                         *)
CallStub(h, b) ==
    /\ Kernel(h)
    /\ \/ b = "abort" /\ crash' = "abort"
       \/ b \in {"word", "copy"} /\ crash' = ReadFdp
    /\ UNCHANGED <<main, g_current_thread, runnable, st, thread, copy,
                   section, providers, interrupts_enabled_>>

(* _enable_preemption, also inside a section.                              *)
EnablePreemption(h) ==
    /\ Kernel(h)
    /\ interrupts_enabled_' = TRUE
    /\ section' = [section EXCEPT ![h] = IF @ = "no" THEN "no" ELSE "split"]
    /\ UNCHANGED <<main, g_current_thread, runnable, st, thread, copy,
                   providers, crash>>

(* ml_set_interrupts_enabled(FALSE) yields, then disables; (TRUE) enables, *)
(* then yields.                                                            *)
BeginSection(h) ==
    /\ Kernel(h) /\ section[h] = "no"
    /\ Move(h, "disable")
    /\ Yield
    /\ UNCHANGED <<main, thread, copy, section, providers>>

DisableInterrupts(h) ==
    /\ Running(h, "disable")
    /\ Move(h, "call")
    /\ interrupts_enabled_' = FALSE
    /\ section' = [section EXCEPT ![h] = "intact"]
    /\ UNCHANGED <<main, g_current_thread, runnable, thread, copy, providers,
                   fuel, crash>>

EndSection(h) ==
    /\ Running(h, "call") /\ section[h] # "no"
    /\ section' = [section EXCEPT ![h] = "no"]
    /\ YieldWith(TRUE)
    /\ UNCHANGED <<main, st, thread, copy, providers, fuel>>

(* The clock.  One tick is a second, and the clock stands still.           *)
NSEC_PER_SEC == 1000000000

clock_interval_to_absolutetime_interval(ns) == ns \div NSEC_PER_SEC

mach_absolute_time == 0

(* Mutant: the delay ends only after its deadline.                         *)
DelayNotOver(deadline) == mach_absolute_time <= deadline

(* The loop condition of machine_delay_until.                              *)
DelayGoesOn(deadline) == mach_absolute_time < deadline

StartDelay(h) ==
    /\ Kernel(h)
    /\ Move(h, "delay")
    /\ Yield
    /\ UNCHANGED <<main, thread, copy, section, providers>>

machine_delay_until(h, ns) ==
    /\ Running(h, "delay")
    /\ IF DelayGoesOn(clock_interval_to_absolutetime_interval(ns))
       THEN Yield /\ UNCHANGED st
       ELSE Stay /\ Move(h, "call")
    /\ UNCHANGED <<main, thread, copy, section, providers, fuel>>

(* Mutant: an abort does not stop a thread from waiting again.             *)
MayWaitAgain(h) == TRUE

(* XNUThreadMarkWaitLocked: an aborted thread's interruptible wait returns *)
(* at once.                                                                *)
MayWait(h) == ~aborting[h]

(* thread_block in an interruptible wait, with or without a continuation.  *)
Wait(h, continuation) ==
    /\ Kernel(h) /\ section[h] = "no" /\ MayWait(h)
    /\ Move(h, "wait")
    /\ continued' = [continued EXCEPT ![h] = @ \/ continuation]
    /\ ThreadBlock(runnable, {})
    /\ UNCHANGED <<main, todo, shape, aborting, old, copy, section,
                   providers>>

Stuck == {h \in Handle : st[h] = "stuck"}

(* An uninterruptible wait, possibly inside a section (a lock), goes to    *)
(* main.                                                                   *)
WaitUninterruptibly(h) ==
    /\ Kernel(h) /\ Cardinality(Stuck) < MaxStuck
    /\ Move(h, "stuck")
    /\ section' = [section EXCEPT ![h] = IF @ = "no" THEN "no" ELSE "split"]
    /\ g_current_thread' = Main
    /\ interrupts_enabled_' = TRUE
    /\ UNCHANGED <<main, runnable, thread, copy, providers, crash>>

(* Kernel code of one thread wakes another.                                *)
Wake(h, t) ==
    /\ Kernel(h) /\ st[t] \in {"wait", "stuck"}
    /\ Move(t, "call")
    /\ runnable' = runnable \union {t}
    /\ UNCHANGED <<main, g_current_thread, thread, copy, section, providers,
                   interrupts_enabled_, crash>>
-----------------------------------------------------------------------------
Referenced == {slot[i] : i \in Slot}

Destroyed == {h \in Handle \ Referenced : st[h] \in {"ended", "reaped"}}

(* Mutant: Host::ThreadDestroyed leaves the copyin counter behind.         *)
CopyinKept == copyin_blocked_

(* Host::ThreadDestroyed erases what is kept per thread.                   *)
CopyinAfterDestroy ==
    [h \in Handle |-> IF h \in Destroyed THEN 0 ELSE copyin_blocked_[h]]

(* The daemons reap what has ended, destroy what nobody refers to, and     *)
(* wait for more.                                                          *)
DaemonRuns ==
    /\ crash = "no" /\ g_current_thread = Daemon
    /\ st' = [h \in Handle |-> IF h \in Destroyed THEN "free"
                               ELSE IF st[h] = "ended" THEN "reaped"
                               ELSE st[h]]
    /\ copyin_blocked_' = CopyinAfterDestroy
    /\ skipped' = [h \in Handle |-> IF h \in Destroyed THEN 0 ELSE skipped[h]]
    /\ aborting' = [h \in Handle |-> aborting[h] /\ h \notin Destroyed]
    /\ old' = [h \in Handle |-> old[h] /\ h \notin Destroyed]
    /\ ThreadBlock(runnable, {})
    /\ UNCHANGED <<main, todo, shape, continued, section, providers, fuel>>
-----------------------------------------------------------------------------
(* The main thread.                                                        *)

At(s) == crash = "no" /\ g_current_thread = Main /\ step = s

Goto(s) == step' = s /\ UNCHANGED <<session, slot, ready_for_preemption>>

(* InitializeHost: the kernel boots with an empty data provider.           *)
InitializeHost ==
    /\ At("boot") /\ Goto("bootrun")
    /\ xnu_fdp' = "live" /\ thread_choices_' = "live"
    /\ interrupts_enabled_' = FALSE
    /\ runnable' = {Daemon}
    /\ UNCHANGED <<g_current_thread, st, thread, copy, section, fuel, crash>>

(* Where each RunUntilEmpty of the program is, and what follows it.        *)
AfterRun == [bootrun |-> "booted", run0 |-> "abort1", run1 |-> "abort2",
             run2 |-> "abort3", run3 |-> "dealloc", run4 |-> "kill",
             run5 |-> "end"]

(* One round of Host::RunUntilEmpty.                                       *)
RunOne ==
    /\ step \in DOMAIN AfterRun /\ At(step)
    /\ Pick(runnable, {})
    /\ interrupts_enabled_' = TRUE
    /\ UNCHANGED <<main, st, thread, copy, section, providers, fuel>>

RunReturns ==
    /\ step \in DOMAIN AfterRun /\ At(step)
    /\ runnable = {}
    /\ Goto(AfterRun[step])
    /\ Stay
    /\ UNCHANGED <<st, thread, copy, section, providers, fuel>>

(* Kernel code on the main thread yields like any other: while it makes    *)
(* the threads, and after it has woken some of them (at run1 to run4 the   *)
(* thread_abort or thread_deallocate before it may still be running).      *)
MainYield ==
    /\ step \in {"clone1", "clone2", "clone3", "clear1", "clear2", "run1",
                 "run2", "run3", "run4"}
    /\ At(step)
    /\ CanYield(interrupts_enabled_) /\ runnable # {}
    /\ ThreadBlock(runnable, {})
    /\ UNCHANGED <<main, st, thread, copy, section, providers, fuel>>

(* The locals that the pointers name go out of scope.                      *)
Dead(p) == IF p = "live" THEN "dead" ELSE p

Booted ==
    /\ At("booted") /\ Goto("rest")
    /\ xnu_fdp' = "null" /\ thread_choices_' = Dead(thread_choices_)
    /\ Stay
    /\ UNCHANGED <<st, thread, copy, section, fuel>>

(* Mutant: preemption stays as the previous session left it.               *)
PreemptionAtBegin == ready_for_preemption

PreemptionOff == FALSE

BeginSession ==
    /\ At("rest") /\ session < Sessions
    /\ step' = "clone1" /\ session' = session + 1
    /\ ready_for_preemption' = PreemptionOff
    /\ interrupts_enabled_' = TRUE
    /\ fuel' = Fuel
    /\ UNCHANGED <<slot, g_current_thread, runnable, st, thread, copy,
                   section, providers, crash>>

(* CloneTaskFromInit or CreateWaitingThread, and ThreadSetContinuation:    *)
(* the thread waits in its task with CommandThread as its continuation.    *)
CloneSteps == [clone1 |-> 1, clone2 |-> 2, clone3 |-> 3]

FreshHandle == CHOOSE h \in Handle :
                  /\ st[h] = "free"
                  /\ \A k \in Handle : st[k] = "free" => h <= k

CreateCommandThread(n) ==
    /\ step \in DOMAIN CloneSteps /\ At(step)
    /\ \E h \in Handle : st[h] = "free"
    /\ step' = CASE step = "clone1" -> "clone2"
                 [] step = "clone2" -> "clone3"
                 [] step = "clone3" -> "clear1"
    /\ slot' = [slot EXCEPT ![CloneSteps[step]] = FreshHandle]
    /\ Move(FreshHandle, "new")
    /\ todo' = [todo EXCEPT ![FreshHandle] = n]
    /\ Stay
    /\ UNCHANGED <<session, ready_for_preemption, shape, continued, aborting,
                   old, copy, section, providers, fuel>>

(* The first two threads share a task, the third has its own.              *)
ClearTaskWait ==
    /\ \/ At("clear1") /\ Goto("clear2")
       \/ At("clear2") /\ Goto("provide")
    /\ LET task == IF step = "clear1" THEN {slot[1], slot[2]} ELSE {slot[3]}
       IN  /\ st' = [h \in Handle |-> IF h \in task /\ st[h] = "new"
                                      THEN "user" ELSE st[h]]
           /\ runnable' = runnable \union task
    /\ UNCHANGED <<g_current_thread, thread, copy, section, providers,
                   interrupts_enabled_, fuel, crash>>

SetProviders ==
    /\ At("provide") /\ step' = "run0"
    /\ xnu_fdp' = "live" /\ thread_choices_' = "live"
    /\ ready_for_preemption' = TRUE
    /\ Stay
    /\ UNCHANGED <<session, slot, st, thread, copy, section, fuel>>

AbortSteps == [abort1 |-> 1, abort2 |-> 2, abort3 |-> 3]

(* thread_abort: an interruptible wait ends, and none will begin again.    *)
ThreadAbort ==
    /\ step \in DOMAIN AbortSteps /\ At(step)
    /\ LET h == slot[AbortSteps[step]]
           waits == st[h] = "wait"
       IN  /\ aborting' = [aborting EXCEPT ![h] = TRUE]
           /\ Move(h, IF waits THEN "call" ELSE st[h])
           /\ runnable' = IF waits THEN runnable \union {h} ELSE runnable
    /\ Goto(CASE step = "abort1" -> "run1"
              [] step = "abort2" -> "run2"
              [] step = "abort3" -> "run3")
    /\ UNCHANGED <<g_current_thread, todo, shape, continued, old, copy,
                   section, providers, interrupts_enabled_, fuel, crash>>

(* The session drops its references; the daemons free what was reaped.     *)
ThreadDeallocate ==
    /\ At("dealloc") /\ step' = "run4"
    /\ slot' = [i \in Slot |-> None]
    /\ runnable' = runnable \union {Daemon}
    /\ UNCHANGED <<session, ready_for_preemption, g_current_thread, st,
                   thread, copy, section, providers, interrupts_enabled_,
                   fuel, crash>>

(* SIGKILL to every process but init ends the interruptible wait of the    *)
(* threads that it is delivered to; stuck ones cannot be killed.           *)
KillAllNonInitProcs ==
    /\ At("kill") /\ Goto("run5")
    /\ interrupts_enabled_' = FALSE
    /\ \E woken \in SUBSET {h \in Handle : st[h] = "wait"} :
          /\ st' = [h \in Handle |-> IF h \in woken THEN "call" ELSE st[h]]
          /\ runnable' = runnable \union woken
    /\ UNCHANGED <<g_current_thread, thread, copy, section, providers, fuel,
                   crash>>

EndSession ==
    /\ At("end") /\ Goto("rest")
    /\ xnu_fdp' = "null" /\ thread_choices_' = Dead(thread_choices_)
    /\ old' = [h \in Handle |-> st[h] # "free"]
    /\ Stay
    /\ UNCHANGED <<st, todo, shape, continued, aborting, copy, section, fuel>>

Stopped == /\ crash # "no" \/ (step = "rest" /\ session = Sessions)
           /\ UNCHANGED vars

KernelStep(h) ==
    \/ KernelYield(h)
    \/ \E b \in StubBehaviours : CallStub(h, b)
    \/ EnablePreemption(h)
    \/ BeginSection(h) \/ DisableInterrupts(h) \/ EndSection(h)
    \/ StartDelay(h)
    \/ \E ns \in DelayNanoseconds : machine_delay_until(h, ns)
    \/ \E continuation \in BOOLEAN : Wait(h, continuation)
    \/ WaitUninterruptibly(h)
    \/ \E t \in Handle : Wake(h, t)

ThreadStep(h) ==
    \/ \E s \in Shapes : StartCommand(h, s)
    \/ ThreadFinished(h)
    \/ ReturnToHandler(h)
    \/ SyscallReturn(h)
    \/ KernelStep(h)

MainStep ==
    \/ InitializeHost \/ Booted \/ BeginSession
    \/ \E n \in 0..Commands : CreateCommandThread(n)
    \/ ClearTaskWait \/ SetProviders
    \/ RunOne \/ RunReturns \/ MainYield
    \/ ThreadAbort \/ ThreadDeallocate \/ KillAllNonInitProcs \/ EndSession

Next == MainStep \/ DaemonRuns \/ (\E h \in Handle : ThreadStep(h)) \/ Stopped

Spec == Init /\ [][Next]_vars

(* The program is one OS thread, which keeps running.                      *)
FairSpec == Spec /\ WF_vars(Next)
-----------------------------------------------------------------------------
(* session.cc: no thread ever draws a scheduling choice or fuzzed data     *)
(* from a provider that went out of scope with an earlier session (or with *)
(* the boot), although the scheduler keeps its pointer, and command        *)
(* threads never find xnu_fdp null.                                        *)
ProvidersOutliveReaders == crash \notin {"dead", "null"}

(* host.cc: the copyin counter of a thread is what its open raw command    *)
(* and the skipped UnblockCopyin calls make it: never negative, above zero *)
(* throughout a raw command, and zero again for a new thread on a recycled *)
(* handle.                                                                 *)
CopyinCounterExact ==
    \A h \in Handle :
       /\ copyin_blocked_[h] =
             skipped[h] + (IF shape[h] = "raw" THEN 1 ELSE 0)
       /\ st[h] \in {"free", "new"} => copyin_blocked_[h] = 0

(* Code that has disabled interrupts keeps the processor, with interrupts  *)
(* disabled, until it blocks or enables preemption itself: no Yield, of    *)
(* any thread, cuts it in two.                                             *)
SectionsNotPreempted ==
    \A h \in Handle : section[h] = "intact" =>
       g_current_thread = h /\ ~interrupts_enabled_

(* session.cc: when a session ends nothing is runnable, and of all the     *)
(* threads of this and earlier sessions only those in uninterruptible      *)
(* waits remain ("Uninterruptible threads cannot be killed").              *)
SessionEndsClean ==
    step = "end" => /\ runnable = {}
                    /\ \A h \in Handle : st[h] \in {"free", "stuck"}

(* Every session that is begun ends, or the process does.                  *)
SessionEnds == (step = "clone1") ~> (step = "rest" \/ crash # "no")
-----------------------------------------------------------------------------
(* The inductive invariant.                                                *)

(* The threads that have or will get the processor are those that are not  *)
(* waiting, each once.                                                     *)
Scheduled == (runnable \union {g_current_thread}) \ {Main}

QueueMatches ==
    /\ g_current_thread \notin runnable
    /\ \A h \in Handle :
          h \in Scheduled <=> st[h] \in {"user", "call", "disable", "delay"}

(* Main gives the processor away only in RunUntilEmpty, or just before it. *)
MainWaits == g_current_thread # Main => step \in DOMAIN AfterRun

CreatingSteps == {"clone1", "clone2", "clone3", "clear1", "clear2", "provide"}

(* What the session uses the providers and the preemption for.             *)
ProvidersInPlace ==
    /\ step \in CreatingSteps => ~ready_for_preemption
    /\ step \in Steps \ (CreatingSteps \union {"boot", "rest"}) =>
          xnu_fdp = "live" /\ thread_choices_ = "live"

(* A section is left before its thread can wait interruptibly or return.   *)
SectionsInCalls ==
    \A h \in Handle : section[h] # "no" => st[h] \in {"call", "delay", "stuck"}

(* Only a thread inside a command has a kind of call.                      *)
ShapesInCalls ==
    \A h \in Handle :
       /\ skipped[h] >= 0
       /\ shape[h] # "none" =>
             st[h] \in {"call", "disable", "delay", "wait", "stuck"}

(* The steps at which thread i exists and is referenced by the session,    *)
(* and those of them before it has been aborted.                           *)
Before(i) == {"clone1"} \union (IF i = 1 THEN {} ELSE {"clone2"})
             \union (IF i = 3 THEN {"clone3"} ELSE {})

Referring(i) ==
    {"clone1", "clone2", "clone3", "clear1", "clear2", "provide", "run0",
     "abort1", "run1", "abort2", "run2", "abort3", "run3", "dealloc"} \ Before(i)

Aborted(i) ==
    {"run3", "dealloc"} \union (IF i = 3 THEN {} ELSE {"run2", "abort3"})
    \union (IF i = 1 THEN {"run1", "abort2"} ELSE {})

(* The session refers to its threads from their creation to the end; they  *)
(* are new until their task is released, and no other thread is.           *)
Waiting(i) == IF i = 3 THEN {"clear1", "clear2"}
              ELSE {"clone2", "clone3", "clear1"} \ Before(i)

SlotsInUse ==
    /\ \A i \in Slot : slot[i] \in Handle <=> step \in Referring(i)
    /\ \A i \in Slot : step \in Waiting(i) => st[slot[i]] = "new"
    /\ \A i, j \in Slot : i # j /\ slot[i] \in Handle => slot[i] # slot[j]
    /\ \A h \in Handle : st[h] = "new" =>
          \E i \in Slot : slot[i] = h /\ step \in Waiting(i)

(* A thread that still exists has been aborted, or the session will do it; *)
(* an aborted thread does not wait.                                        *)
AllAborted ==
    \A h \in Handle :
       /\ st[h] # "free" /\ ~aborting[h] =>
             \E i \in Slot : slot[i] = h /\ step \notin Aborted(i)
       /\ st[h] = "wait" => ~aborting[h]

(* The daemons will run when there is something to reap or to free.        *)
DaemonComes ==
    \A h \in Handle :
       st[h] = "ended" \/ (st[h] = "reaped" /\ h \notin Referenced) =>
          Daemon \in Scheduled

EndIsIdle == step = "end" => runnable = {}

(* There are no threads before the kernel has booted.                      *)
NoneAtBoot == step = "boot" => \A h \in Handle : st[h] = "free"

SessionInv == /\ TypeOK
              /\ QueueMatches
              /\ MainWaits
              /\ ProvidersInPlace /\ ProvidersOutliveReaders
              /\ SectionsInCalls /\ SectionsNotPreempted
              /\ ShapesInCalls /\ CopyinCounterExact
              /\ SlotsInUse
              /\ AllAborted
              /\ DaemonComes
              /\ NoneAtBoot /\ EndIsIdle
-----------------------------------------------------------------------------
(* Why sessions end: what is left to do, from the coarsest measure to the  *)
(* finest.  The statements of the main thread, in this and later sessions: *)
StepsLeft ==
    [boot |-> 3, bootrun |-> 2, booted |-> 1, rest |-> 0, clone1 |-> 18,
     clone2 |-> 17, clone3 |-> 16, clear1 |-> 15, clear2 |-> 14,
     provide |-> 13, run0 |-> 12, abort1 |-> 11, run1 |-> 10, abort2 |-> 9,
     run2 |-> 8, abort3 |-> 7, run3 |-> 6, dealloc |-> 5, run4 |-> 4,
     kill |-> 3, run5 |-> 2, end |-> 1]

Ahead == 20 * (Sessions - session) + StepsLeft[step]

(* What a thread does before it waits or ends, the kernel's steps aside.   *)
PlaceLeft == [user |-> 1, call |-> 2, delay |-> 3, disable |-> 4]

ToDo == [h \in Handle |->
           IF st[h] \in DOMAIN PlaceLeft
           THEN 5 * todo[h] + PlaceLeft[st[h]]
                + (IF section[h] = "no" THEN 0 ELSE 1)
           ELSE 0]

(* Every step ends the process or comes nearer to the end of the session:  *)
(* the main thread goes to a later statement, the kernel uses Fuel, some   *)
(* thread has less to do and none has more, or else the daemons have run,  *)
(* or main lets somebody run: no thread spins.  (A delay that converts to  *)
(* a tick or more would.)                                                  *)
SessionAdvances ==
    [][\/ crash' # "no"
       \/ Ahead' < Ahead
       \/ Ahead' = Ahead /\ fuel' < fuel
       \/ /\ Ahead' = Ahead /\ fuel' = fuel
          /\ \A h \in Handle : ToDo'[h] <= ToDo[h]
          /\ \/ \E h \in Handle : ToDo'[h] < ToDo[h]
             \/ Daemon \in Scheduled /\ Scheduled' \subseteq Scheduled \ {Daemon}
             \/ /\ g_current_thread = Main /\ g_current_thread' # Main
                /\ Scheduled' \subseteq Scheduled]_vars
=============================================================================
