-------------------------- MODULE FuzzedScheduler --------------------------
(***************************************************************************)
(* third_party/concurrence/scheduler/fuzzed_scheduler.cc over a coroutine  *)
(* executor: the run queue, the set of live threads, deferred deletion of  *)
(* dead threads' stacks, and the loops that hand the processor around.     *)
(*                                                                         *)
(* Everything is one OS thread: the code between two switches is atomic,   *)
(* so an action is enabled only for g_current_thread.  The two loops that  *)
(* pick a thread (RunUntilEmpty on the main thread, ChooseThread on        *)
(* whoever runs) take one step per iteration.  The index of a pick comes from the *)
(* fuzzer's input or from rand(), hence any index; with no input provider  *)
(* (thread_choices_ = nullptr) it is the last one.  Whoever gets the       *)
(* processor runs callbacks_->ThreadResumed, which (Host) enables          *)
(* interrupts.  bytes_needed_, a statistic, is left out.                   *)
(***************************************************************************)
EXTENDS Integers, Sequences

CONSTANTS Handle,           \* stack addresses the executor may hand out
          Main,             \* executor_->GetMainThreadHandle()
          Null,             \* handle 0
          Debug,            \* FALSE when built with NDEBUG
          ThreadChoices     \* TRUE when thread_choices_ is set

ASSUME HandleAssumption == /\ Main \notin Handle /\ Null \notin Handle
                           /\ Main # Null
ASSUME BuildAssumption == Debug \in BOOLEAN /\ ThreadChoices \in BOOLEAN

VARIABLES runnable_,            \* vector of runnable handles
          live_set_,            \* threads not deleted or pending deletion
          pending_deletion_,    \* destroyed, stack not yet unmapped
          interrupts_enabled_,
          g_current_thread,
          stacks,               \* handles whose stack is mapped (executor)
          main_loop,            \* main is inside RunUntilEmpty
          choosing,             \* the current thread is inside ChooseThread
          aborted               \* abort() was called

vars == <<runnable_, live_set_, pending_deletion_, interrupts_enabled_,
          g_current_thread, stacks, main_loop, choosing, aborted>>

sets == <<live_set_, pending_deletion_, stacks>>

Entry == Handle \union {Null}

TypeOK == /\ runnable_ \in Seq(Entry)
          /\ live_set_ \subseteq Handle
          /\ pending_deletion_ \subseteq Handle
          /\ interrupts_enabled_ \in BOOLEAN
          /\ g_current_thread \in Handle \union {Main}
          /\ stacks \subseteq Handle
          /\ main_loop \in BOOLEAN
          /\ choosing \in {"no", "other", "any"}
          /\ aborted \in BOOLEAN

Init == /\ runnable_ = <<>>
        /\ live_set_ = {} /\ pending_deletion_ = {} /\ stacks = {}
        /\ interrupts_enabled_ = TRUE
        /\ g_current_thread = Main
        /\ main_loop = FALSE /\ choosing = "no" /\ aborted = FALSE
-----------------------------------------------------------------------------
(* Operations on the runnable_ vector.                                     *)

Entries(q) == {q[i] : i \in 1..Len(q)}

(* runnable_.erase(runnable_.begin() + i - 1)                              *)
Erase(q, i) == [j \in 1..(Len(q) - 1) |-> IF j < i THEN q[j] ELSE q[j + 1]]

(* Mutant: MakeRunnable without the std::find.                             *)
PushRunnable(q, h) == IF h = Main THEN q ELSE Append(q, h)

(* MakeRunnable on the vector: nothing for main, nothing when queued.      *)
WithRunnable(q, h) == IF h = Main \/ h \in Entries(q) THEN q ELSE Append(q, h)

(* MakeNotRunnable on the vector: erase the handle's entry, if any.  There *)
(* is at most one (NoDoubleEnqueue), so std::find's first match is it.     *)
WithoutRunnable(q, h) ==
    IF h \in Entries(q)
    THEN Erase(q, CHOOSE i \in 1..Len(q) : q[i] = h)
    ELSE q

(* The checks of MakeRunnable that the debug build makes before pushing.   *)
MakeRunnableAborts(h) == /\ Debug
                         /\ h # Main /\ h \notin Entries(runnable_)
                         /\ h = Null \/ h \in pending_deletion_
-----------------------------------------------------------------------------
(* Somebody runs code (is not inside one of the two picking loops).        *)
Executing == /\ ~aborted /\ choosing = "no"
             /\ g_current_thread = Main => ~main_loop

InChild == Executing /\ g_current_thread # Main

Abort == /\ aborted' = TRUE
         /\ UNCHANGED <<runnable_, live_set_, pending_deletion_,
                        interrupts_enabled_, g_current_thread, stacks,
                        main_loop, choosing>>

(* mmap returns an address that is not mapped, possibly a recycled one.    *)
CreateThread(h, runnable) ==
    /\ Executing
    /\ h \notin stacks
    /\ stacks' = stacks \union {h}
    /\ live_set_' = live_set_ \union {h}
    /\ runnable_' = IF runnable THEN WithRunnable(runnable_, h) ELSE runnable_
    /\ UNCHANGED <<pending_deletion_, interrupts_enabled_, g_current_thread,
                   main_loop, choosing, aborted>>

(* Callers hold handles of threads not yet deleted; a lookup that failed   *)
(* (Host::ThreadTToHandle) yields 0.                                       *)
MakeRunnable(h) ==
    /\ Executing
    /\ h \in live_set_ \union pending_deletion_ \union {Null}
    /\ IF MakeRunnableAborts(h) THEN Abort
       ELSE /\ runnable_' = WithRunnable(runnable_, h)
            /\ UNCHANGED <<sets, interrupts_enabled_, g_current_thread,
                           main_loop, choosing, aborted>>

MakeNotRunnable(h) ==
    /\ Executing
    /\ IF h = Main THEN Abort
       ELSE /\ runnable_' = WithoutRunnable(runnable_, h)
            /\ UNCHANGED <<sets, interrupts_enabled_, g_current_thread,
                           main_loop, choosing, aborted>>

SetInterruptsEnabled(enabled) ==
    /\ Executing
    /\ interrupts_enabled_' = enabled
    /\ UNCHANGED <<runnable_, sets, g_current_thread, main_loop, choosing,
                   aborted>>

(* A thread's function returned: the executor reports ThreadDestroyed and  *)
(* switches to main.  The handle may stay in runnable_.                    *)
ThreadReturns ==
    /\ InChild
    /\ live_set_' = live_set_ \ {g_current_thread}
    /\ pending_deletion_' = pending_deletion_ \union {g_current_thread}
    /\ g_current_thread' = Main
    /\ interrupts_enabled_' = TRUE
    /\ UNCHANGED <<runnable_, stacks, main_loop, choosing, aborted>>

(* ThreadDestroyed of a parked thread (machine_thread_destroy by the       *)
(* reaper).                                                                *)
ThreadDestroyed(h) ==
    /\ Executing
    /\ h \in live_set_ \ {g_current_thread}
    /\ live_set_' = live_set_ \ {h}
    /\ pending_deletion_' = pending_deletion_ \union {h}
    /\ UNCHANGED <<runnable_, stacks, interrupts_enabled_, g_current_thread,
                   main_loop, choosing, aborted>>
-----------------------------------------------------------------------------
(* Block() on main aborts; on a child it switches to main, which goes on   *)
(* with its loop or with what it was doing when it yielded.                *)
Block ==
    /\ Executing
    /\ IF g_current_thread = Main THEN Abort
       ELSE /\ g_current_thread' = Main
            /\ interrupts_enabled_' = TRUE
            /\ UNCHANGED <<runnable_, sets, main_loop, choosing, aborted>>

(* Yield() is a nop on main, with interrupts disabled or with nothing else *)
(* to run; otherwise the caller queues itself and blocks.                  *)
Yield ==
    /\ InChild
    /\ interrupts_enabled_
    /\ runnable_ # <<>>
    /\ IF MakeRunnableAborts(g_current_thread) THEN Abort
       ELSE /\ runnable_' = WithRunnable(runnable_, g_current_thread)
            /\ g_current_thread' = Main
            /\ interrupts_enabled_' = TRUE
            /\ UNCHANGED <<sets, main_loop, choosing, aborted>>

(* SwitchTo(h): silently nothing for a handle that is neither main nor     *)
(* live.                                                                   *)
SwitchTarget(h) == IF h \in live_set_ \union {Main} THEN h ELSE g_current_thread

(* GetRandomRunnableHandle: the positions a pick may take.                 *)
Picks == IF ThreadChoices THEN 1..Len(runnable_) ELSE {Len(runnable_)}

RunUntilEmpty ==
    /\ Executing /\ g_current_thread = Main
    /\ runnable_ # <<>>
    /\ main_loop' = TRUE
    /\ UNCHANGED <<runnable_, sets, interrupts_enabled_, g_current_thread,
                   choosing, aborted>>

InLoop == ~aborted /\ g_current_thread = Main /\ main_loop

(* ThreadResumed, unless SwitchTo found a dead handle and did nothing.     *)
Resumed == interrupts_enabled_ \/ g_current_thread' # Main

(* Mutant: GetRandomRunnableHandle does not erase what it returns.         *)
RunOnePeeks == /\ InLoop
               /\ \E i \in Picks \ {0} :
                     g_current_thread' = SwitchTarget(runnable_[i])
               /\ interrupts_enabled_' = Resumed
               /\ UNCHANGED <<runnable_, sets, main_loop, choosing, aborted>>

RunOne == /\ InLoop
          /\ \E i \in Picks :
                /\ i # 0
                /\ runnable_' = Erase(runnable_, i)
                /\ g_current_thread' = SwitchTarget(runnable_[i])
          /\ interrupts_enabled_' = Resumed
          /\ UNCHANGED <<sets, main_loop, choosing, aborted>>

(* Mutants: dead threads are cleaned up while handles are still queued;    *)
(* pending_deletion_ is cleared before it is walked.                       *)
CleanupAnyTime ==
    /\ InLoop
    /\ stacks' = stacks \ pending_deletion_
    /\ pending_deletion_' = {}
    /\ main_loop' = (runnable_ # <<>>)
    /\ UNCHANGED <<runnable_, live_set_, interrupts_enabled_,
                   g_current_thread, choosing, aborted>>

CleanupClearsFirst ==
    /\ InLoop
    /\ runnable_ = <<>>
    /\ pending_deletion_' = {}
    /\ main_loop' = FALSE
    /\ UNCHANGED <<runnable_, live_set_, stacks, interrupts_enabled_,
                   g_current_thread, choosing, aborted>>

(* The loop ends; CleanupDeadThreads unmaps every pending stack.           *)
CleanupDeadThreads ==
    /\ InLoop
    /\ runnable_ = <<>>
    /\ stacks' = stacks \ pending_deletion_
    /\ pending_deletion_' = {}
    /\ main_loop' = FALSE
    /\ UNCHANGED <<runnable_, live_set_, interrupts_enabled_,
                   g_current_thread, choosing, aborted>>
-----------------------------------------------------------------------------
(* ChooseThread as Host::ThreadBlock uses it, from a child or from main    *)
(* outside its loop: pick until a live handle comes up, then switch        *)
(* straight to it.  can_choose_existing is granted only to a thread that   *)
(* is itself queued (Host::ThreadSelect), never to main.                   *)
ChooseThread(can_choose_existing) ==
    /\ Executing
    /\ can_choose_existing => g_current_thread \in Entries(runnable_)
    /\ choosing' = IF can_choose_existing THEN "any" ELSE "other"
    /\ UNCHANGED <<runnable_, sets, interrupts_enabled_, g_current_thread,
                   main_loop, aborted>>

(* Host::SwitchFrom queues the leaving thread again unless it waits; only  *)
(* a thread that may not choose itself can be waiting.  Main is never on   *)
(* the queue, and if it waits it aborts (MakeNotRunnable).                 *)
Leave(q, h) == /\ choosing' = "no"
               /\ \/ runnable_' = WithRunnable(q, g_current_thread)
                  \/ /\ choosing = "other" /\ g_current_thread # Main
                     /\ runnable_' = WithoutRunnable(q, g_current_thread)
               /\ g_current_thread' = h
               /\ interrupts_enabled_' = TRUE
               /\ UNCHANGED <<sets, main_loop, aborted>>

(* The pick returned the current thread itself; Host::SwitchTo enables     *)
(* interrupts even so.                                                     *)
Keep(q) == /\ choosing' = "no"
           /\ runnable_' = q
           /\ interrupts_enabled_' = TRUE
           /\ UNCHANGED <<sets, g_current_thread, main_loop, aborted>>

(* One iteration that draws position i: current thread, dead handle        *)
(* (continue) or a live one.                                               *)
ChooseStep(i) ==
    LET h == runnable_[i]
        q == Erase(runnable_, i)
    IN  \/ choosing = "any" /\ h = g_current_thread /\ Keep(q)
        \/ /\ ~(choosing = "any" /\ h = g_current_thread)
           /\ h \notin live_set_
           /\ runnable_' = q
           /\ UNCHANGED <<sets, interrupts_enabled_, g_current_thread,
                          main_loop, choosing, aborted>>
        \/ h \in live_set_ /\ h # g_current_thread /\ Leave(q, h)
        \/ choosing = "other" /\ h = g_current_thread /\ Keep(q)

Choose ==
    /\ ~aborted /\ choosing # "no"
    /\ \/ \E i \in Picks \ {0} : ChooseStep(i)
       \/ \* the draw beyond the vector keeps the current thread
          /\ choosing = "any" /\ ThreadChoices /\ Len(runnable_) > 1
          /\ Keep(WithoutRunnable(runnable_, g_current_thread))
       \/ \* nothing left: the current thread, or main
          /\ runnable_ = <<>>
          /\ \/ choosing = "any" /\ Keep(<<>>)
             \/ choosing = "other" /\ Leave(<<>>, Main)

Stopped == aborted /\ UNCHANGED vars

Next == \/ \E h \in Handle, r \in BOOLEAN : CreateThread(h, r)
        \/ \E h \in Entry : MakeRunnable(h)
        \/ \E h \in Handle \union {Main} : MakeNotRunnable(h)
        \/ \E b \in BOOLEAN : SetInterruptsEnabled(b)
        \/ ThreadReturns
        \/ \E h \in Handle : ThreadDestroyed(h)
        \/ Block
        \/ Yield
        \/ RunUntilEmpty
        \/ RunOne
        \/ CleanupDeadThreads
        \/ \E b \in BOOLEAN : ChooseThread(b)
        \/ Choose
        \/ Stopped

Spec == Init /\ [][Next]_vars
-----------------------------------------------------------------------------
(* fuzzed_scheduler.h: runnable_ never holds a handle twice, whoever makes *)
(* a thread runnable and however often.                                    *)
NoDoubleEnqueue == \A i, j \in 1..Len(runnable_) :
                      runnable_[i] = runnable_[j] => i = j

(* A handle left behind in runnable_ by a destroyed thread is purged       *)
(* before its stack is unmapped: the queue never names an unmapped stack   *)
(* (which mmap could hand to an unrelated, not yet runnable thread).       *)
QueuedStacksMapped == Entries(runnable_) \ {Null} \subseteq stacks

(* The processor is never on a destroyed thread or an unmapped stack.      *)
CurrentIsLive == g_current_thread \in (live_set_ \intersect stacks) \union {Main}

(* A mapped stack is live or awaits deletion, never both: no stack leaks   *)
(* and none is unmapped twice.                                             *)
StacksAccounted == /\ live_set_ \union pending_deletion_ = stacks
                   /\ live_set_ \intersect pending_deletion_ = {}

(* Main is never in both of the loops that pick a thread.                  *)
MainInOneLoop == g_current_thread = Main /\ choosing # "no" => ~main_loop

(* What the safety properties need to be preserved by every step.          *)
SchedulerInv == /\ TypeOK
                /\ NoDoubleEnqueue
                /\ QueuedStacksMapped
                /\ StacksAccounted
                /\ MainInOneLoop
                /\ CurrentIsLive

(* The scheduler implements the abstract one-processor specification.      *)
Coop == INSTANCE CoopScheduler
          WITH alive <- live_set_,
               ready <- Entries(runnable_) \intersect live_set_,
               running <- g_current_thread

ImplementsCoop == Coop!Spec
=============================================================================
