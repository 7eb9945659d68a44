-------------------------- MODULE FuzzSessionProofs --------------------------
(***************************************************************************)
(* Sessions, for any number of handles, commands, sessions and kernel      *)
(* steps.                                                                  *)
(***************************************************************************)
EXTENDS FuzzSession, WellFoundedInduction, TLAPS

LEMMA ThreadsDiffer ==
  Main # Daemon /\ Main \notin Handle /\ Daemon \notin Handle /\ None \notin Handle
BY ThreadAssumption

LEMMA RunSteps ==
  /\ DOMAIN AfterRun =
        {"bootrun", "run0", "run1", "run2", "run3", "run4", "run5"}
  /\ AfterRun["bootrun"] = "booted" /\ AfterRun["run0"] = "abort1"
  /\ AfterRun["run1"] = "abort2" /\ AfterRun["run2"] = "abort3"
  /\ AfterRun["run3"] = "dealloc" /\ AfterRun["run4"] = "kill"
  /\ AfterRun["run5"] = "end"
BY DEF AfterRun

LEMMA LeastOf ==
  ASSUME NEW T \in SUBSET Nat, T # {}
  PROVE  \E m \in T : \A k \in T : m <= k
<1>1. ASSUME NEW k \in Nat, NEW m \in Nat, k < m
      PROVE  <<k, m>> \in OpToRel(<, Nat)
  BY <1>1, Zenon DEF OpToRel
<1>2. PICK m \in T : \A k \in T : ~(<<k, m>> \in OpToRel(<, Nat))
  BY WFMin, NatLessThanWellFounded
<1>3. \A k \in T : ~(k < m)
  BY <1>1, <1>2, Zenon
<1> QED BY <1>3

(* The handle of a new thread belongs to no thread that still exists.      *)
LEMMA FreshHandleIsFree ==
  ASSUME \E h \in Handle : st[h] = "free"
  PROVE  FreshHandle \in Handle /\ st[FreshHandle] = "free"
<1> DEFINE T == {h \in Handle : st[h] = "free"}
<1>1. T \in SUBSET Nat /\ T # {}
  BY BoundsAssumption DEF Handle
<1> HIDE DEF T
<1>2. PICK m \in T : \A k \in T : m <= k
  BY <1>1, LeastOf
<1>3. m \in Handle /\ st[m] = "free" /\ \A k \in Handle : st[k] = "free" => m <= k
  BY <1>2 DEF T
<1> QED BY <1>3 DEF FreshHandle

LEMMA InitSessionInv == Init => SessionInv
<1> SUFFICES ASSUME Init PROVE SessionInv
  OBVIOUS
<1>1. TypeOK
  <2>1. 0 \in 0..Sessions /\ 0 \in 0..Commands /\ 0 \in 0..Fuel
    BY BoundsAssumption
  <2>2. /\ step \in Steps /\ session \in 0..Sessions /\ fuel \in 0..Fuel
        /\ slot \in [Slot -> Handle \union {None}]
        /\ g_current_thread \in Handle \union {Main, Daemon}
        /\ runnable \subseteq Handle \union {Daemon}
        /\ st \in [Handle -> Places]
        /\ todo \in [Handle -> 0..Commands]
    BY <2>1 DEF Init, Steps, Places
  <2>3. /\ shape \in [Handle -> Shapes \union {"none"}]
        /\ {continued, aborting, old} \subseteq [Handle -> BOOLEAN]
        /\ {copyin_blocked_, skipped} \subseteq [Handle -> Int]
        /\ section \in [Handle -> {"no", "intact", "split"}]
    BY DEF Init
  <2> QED BY <2>2, <2>3 DEF Init, TypeOK
<1>2. SlotsInUse
  BY ThreadsDiffer DEF Init, SlotsInUse, Referring, Waiting, Before, Slot
<1> QED
  BY <1>1, <1>2, ThreadsDiffer
     DEF Init, SessionInv, QueueMatches, Scheduled, MainWaits,
         ProvidersInPlace, CreatingSteps, ProvidersOutliveReaders,
         SectionsInCalls, SectionsNotPreempted, ShapesInCalls,
         CopyinCounterExact, AllAborted, DaemonComes, NoneAtBoot, EndIsIdle
-----------------------------------------------------------------------------
(* The scheduler, with the providers in place: it loses no thread, and     *)
(* draws from a provider that is there.                                    *)
LEMMA PickFacts ==
  ASSUME thread_choices_ = "live",
         NEW ready \in SUBSET (Handle \union {Daemon}),
         NEW back \in SUBSET (Handle \union {Daemon}),
         ready \intersect back = {}, Pick(ready, back)
  PROVE  /\ g_current_thread' \in ready
         /\ runnable' = (ready \ {g_current_thread'}) \union back
         /\ g_current_thread' \notin runnable'
         /\ Scheduled' = ready \union back
         /\ crash' = crash
BY ThreadsDiffer DEF Pick, ReadChoices, Scheduled

LEMMA BlockFacts ==
  ASSUME thread_choices_ = "live",
         NEW ready \in SUBSET (Handle \union {Daemon}),
         NEW back \in SUBSET (Handle \union {Daemon}),
         ready \intersect back = {}, ThreadBlock(ready, back)
  PROVE  /\ g_current_thread' \in Handle \union {Main, Daemon}
         /\ runnable' \subseteq Handle \union {Daemon}
         /\ g_current_thread' \notin runnable'
         /\ Scheduled' = ready \union back
         /\ crash' = crash
         /\ interrupts_enabled_' = TRUE
<1>1. CASE Pick(ready, back)
  BY <1>1, PickFacts DEF ThreadBlock
<1>2. CASE ready = {} /\ g_current_thread' = Main /\ runnable' = back
            /\ UNCHANGED crash
  BY <1>2, ThreadsDiffer DEF ThreadBlock, Scheduled
<1> QED BY <1>1, <1>2 DEF ThreadBlock

(* The thread that blocks does not stay runnable.                          *)
LEMMA LeaveFacts ==
  ASSUME thread_choices_ = "live",
         NEW ready \in SUBSET (Handle \union {Daemon}), ThreadBlock(ready, {})
  PROVE  /\ g_current_thread' \in Handle \union {Main, Daemon}
         /\ runnable' \subseteq Handle \union {Daemon}
         /\ g_current_thread' \notin runnable'
         /\ Scheduled' = ready
         /\ crash' = crash
         /\ interrupts_enabled_' = TRUE
<1>1. /\ {} \in SUBSET (Handle \union {Daemon})
      /\ ready \intersect {} = {} /\ ready \union {} = ready
  OBVIOUS
<1> QED BY <1>1, BlockFacts

(* While a thread runs, main is inside RunUntilEmpty.                      *)
LEMMA ThreadRuns ==
  ASSUME SessionInv, g_current_thread # Main
  PROVE  xnu_fdp = "live" /\ thread_choices_ = "live"
BY RunSteps DEF SessionInv, MainWaits, ProvidersInPlace, TypeOK, CreatingSteps,
                Steps

LEMMA YieldFacts ==
  ASSUME SessionInv, NEW h \in Handle, g_current_thread = h,
         NEW enabled \in BOOLEAN, YieldWith(enabled)
  PROVE  /\ g_current_thread' \in Handle \union {Main, Daemon}
         /\ runnable' \subseteq Handle \union {Daemon}
         /\ g_current_thread' \notin runnable'
         /\ Scheduled' = Scheduled
         /\ crash' = crash
         /\ interrupts_enabled_' \in BOOLEAN
         /\ ~enabled => g_current_thread' = h /\ ~interrupts_enabled_'
<1>1. /\ thread_choices_ = "live" /\ runnable \subseteq Handle \union {Daemon}
      /\ Scheduled = runnable \union {h} /\ h \notin runnable
  BY ThreadsDiffer, ThreadRuns
     DEF SessionInv, TypeOK, QueueMatches, Scheduled
<1>2. CASE CanYield(enabled)
  <2>1. ThreadBlock(runnable, {h}) /\ enabled
    BY <1>2 DEF YieldWith, CanYield
  <2> QED BY <1>1, <2>1, BlockFacts
<1>3. CASE ~CanYield(enabled)
  BY <1>1, <1>3 DEF YieldWith, SessionInv, TypeOK, Scheduled
<1> QED BY <1>2, <1>3
-----------------------------------------------------------------------------
(* What no step of a kernel thread disturbs: it leaves main, the providers *)
(* and the aborts alone, makes and frees no thread, begins to wait only if *)
(* it was not aborted, and calls the daemons when it ends.                 *)
Modest == /\ UNCHANGED <<main, providers, aborting>>
          /\ crash' \in {crash, "abort", "freed"}
          /\ Daemon \in Scheduled => Daemon \in Scheduled'
          /\ \A k \in Handle :
                /\ st'[k] = "new" <=> st[k] = "new"
                /\ st'[k] = "free" <=> st[k] = "free"
                /\ st'[k] = "reaped" <=> st[k] = "reaped"
                /\ st'[k] = "wait" => st[k] = "wait" \/ ~aborting[k]
                /\ st'[k] = "ended" => st[k] = "ended" \/ Daemon \in Scheduled'

LEMMA ModestInv ==
  ASSUME SessionInv, g_current_thread # Main, Modest
  PROVE  /\ MainWaits' /\ ProvidersInPlace' /\ ProvidersOutliveReaders'
         /\ SlotsInUse' /\ AllAborted' /\ DaemonComes' /\ NoneAtBoot' /\ EndIsIdle'
<1>1. step' = step /\ slot' = slot /\ ready_for_preemption' = ready_for_preemption
      /\ xnu_fdp' = xnu_fdp /\ thread_choices_' = thread_choices_
      /\ aborting' = aborting
  BY DEF Modest, main, providers
<1>2. MainWaits' /\ ProvidersInPlace' /\ ProvidersOutliveReaders'
  BY <1>1 DEF SessionInv, MainWaits, ProvidersInPlace, ProvidersOutliveReaders,
              Modest
<1>3. SlotsInUse'
  <2>1. step \in DOMAIN AfterRun
    BY DEF SessionInv, MainWaits
  <2>2. \A i \in Slot : step \notin Waiting(i)
    BY <2>1, RunSteps DEF Waiting, Before
  <2> QED BY <1>1, <2>2 DEF SessionInv, SlotsInUse, Modest
<1>4. AllAborted'
  BY <1>1 DEF SessionInv, AllAborted, Modest
<1>5. DaemonComes'
  BY <1>1 DEF SessionInv, DaemonComes, Referenced, Modest
<1>6. NoneAtBoot' /\ EndIsIdle'
  BY <1>1, RunSteps DEF SessionInv, MainWaits, NoneAtBoot, EndIsIdle, Modest
<1> QED BY <1>2, <1>3, <1>4, <1>5, <1>6

(* Facts about the thread h that runs.                                     *)
LEMMA RunningFacts ==
  ASSUME SessionInv, NEW h \in Handle, NEW p, Running(h, p)
  PROVE  /\ g_current_thread = h /\ g_current_thread # Main /\ crash = "no"
         /\ st[h] = p /\ h \notin runnable
         /\ Scheduled = runnable \union {h}
         /\ \A k \in Handle \ {h} : section[k] # "intact"
         /\ runnable \in SUBSET (Handle \union {Daemon})
         /\ xnu_fdp = "live" /\ thread_choices_ = "live"
BY ThreadsDiffer, ThreadRuns
   DEF Running, SessionInv, TypeOK, QueueMatches, Scheduled, SectionsNotPreempted

LEMMA StartCommandInv ==
  ASSUME SessionInv, NEW h \in Handle, NEW s \in Shapes, StartCommand(h, s)
  PROVE  SessionInv'
<1>0. /\ g_current_thread # Main /\ st[h] = "user" /\ todo[h] > 0 /\ TypeOK
      /\ section[h] = "no" /\ shape[h] = "none" /\ crash = "no"
  BY RunningFacts DEF StartCommand, SessionInv, SectionsInCalls, ShapesInCalls
<1>1. /\ UNCHANGED <<main, g_current_thread, runnable, section, providers,
                     interrupts_enabled_, fuel, continued, aborting, old, skipped>>
      /\ Scheduled' = Scheduled
  BY DEF StartCommand, thread, copy, Scheduled
<1>2. CASE old[h]
  <2>1. crash' = "freed" /\ UNCHANGED <<st, thread, copy>>
    BY <1>2 DEF StartCommand
  <2>2. Modest
    BY <1>1, <2>1 DEF Modest
  <2>3. TypeOK' /\ QueueMatches'
    BY <1>1, <2>1 DEF SessionInv, TypeOK, QueueMatches, Scheduled, main,
                      providers, thread, copy
  <2>4. /\ SectionsInCalls' /\ SectionsNotPreempted'
        /\ ShapesInCalls' /\ CopyinCounterExact'
    BY <1>1, <2>1 DEF SessionInv, SectionsInCalls, SectionsNotPreempted,
                      ShapesInCalls, CopyinCounterExact, thread, copy
  <2> QED BY <1>0, <2>2, <2>3, <2>4, ModestInv DEF SessionInv
<1>3. CASE ~old[h]
  <2>1. /\ todo' = [todo EXCEPT ![h] = @ - 1]
        /\ shape' = [shape EXCEPT ![h] = s]
        /\ st' = [st EXCEPT ![h] = IF s = "none" THEN "user" ELSE "call"]
        /\ copyin_blocked_' = [copyin_blocked_ EXCEPT
                                  ![h] = @ + (IF s = "raw" THEN 1 ELSE 0)]
        /\ crash' = crash
    BY <1>3 DEF StartCommand, Move
  <2>2. Modest
    BY <1>0, <1>1, <2>1 DEF Modest, TypeOK
  <2>3. TypeOK'
    <3>1. todo' \in [Handle -> 0..Commands]
      BY <1>0, <2>1, BoundsAssumption DEF TypeOK
    <3>2. copyin_blocked_' \in [Handle -> Int]
      BY <2>1 DEF SessionInv, TypeOK
    <3> QED BY <1>0, <1>1, <2>1, <3>1, <3>2 DEF TypeOK, Places, main, providers
  <2>4. QueueMatches'
    BY <1>0, <1>1, <2>1 DEF SessionInv, TypeOK, QueueMatches
  <2>5. SectionsInCalls' /\ SectionsNotPreempted'
    BY <1>0, <1>1, <2>1 DEF SessionInv, TypeOK, SectionsInCalls, SectionsNotPreempted
  <2>6. ShapesInCalls' /\ CopyinCounterExact'
    BY <1>0, <1>1, <2>1 DEF SessionInv, TypeOK, ShapesInCalls, CopyinCounterExact
  <2> QED BY <1>0, <2>2, <2>3, <2>4, <2>5, <2>6, ModestInv DEF SessionInv
<1> QED BY <1>2, <1>3

(* Host::ThreadFinished.                                                   *)
LEMMA ThreadFinishedInv ==
  ASSUME SessionInv, NEW h \in Handle, ThreadFinished(h)
  PROVE  SessionInv'
<1>0. /\ g_current_thread = h /\ g_current_thread # Main /\ crash = "no"
      /\ st[h] = "user" /\ h \notin runnable /\ TypeOK
      /\ Scheduled = runnable \union {h} /\ thread_choices_ = "live"
      /\ section[h] = "no" /\ shape[h] = "none"
      /\ \A k \in Handle : section[k] # "intact"
      /\ runnable \in SUBSET (Handle \union {Daemon})
  BY RunningFacts DEF ThreadFinished, SessionInv, SectionsInCalls, ShapesInCalls
<1>1. /\ UNCHANGED <<main, thread, copy, section, providers, fuel>>
      /\ st' = [st EXCEPT ![h] = "ended"]
      /\ ThreadBlock(runnable \union {Daemon}, {})
  BY DEF ThreadFinished, Move
<1>2. /\ g_current_thread' \in Handle \union {Main, Daemon}
      /\ runnable' \subseteq Handle \union {Daemon}
      /\ g_current_thread' \notin runnable'
      /\ Scheduled' = runnable \union {Daemon}
      /\ crash' = crash /\ interrupts_enabled_' = TRUE
  BY <1>0, <1>1, LeaveFacts
<1>3. Modest
  BY <1>0, <1>1, <1>2 DEF Modest, TypeOK, thread
<1>4. TypeOK'
  BY <1>0, <1>1, <1>2 DEF TypeOK, Places, main, providers, thread, copy
<1>5. QueueMatches'
  BY <1>0, <1>1, <1>2, ThreadsDiffer DEF SessionInv, TypeOK, QueueMatches
<1>6. SectionsInCalls' /\ SectionsNotPreempted'
  BY <1>0, <1>1 DEF SessionInv, TypeOK, SectionsInCalls, SectionsNotPreempted
<1>7. ShapesInCalls' /\ CopyinCounterExact'
  BY <1>0, <1>1 DEF SessionInv, TypeOK, ShapesInCalls, CopyinCounterExact,
                    thread, copy
<1> QED BY <1>0, <1>3, <1>4, <1>5, <1>6, <1>7, ModestInv DEF SessionInv

(* A return to HandleCommand, with or without UnblockCopyin and Yield.     *)
LEMMA ReturnInv ==
  ASSUME SessionInv, NEW h \in Handle, ReturnToHandler(h) \/ SyscallReturn(h)
  PROVE  SessionInv'
<1>0. /\ g_current_thread = h /\ g_current_thread # Main /\ crash = "no"
      /\ st[h] = "call" /\ h \notin runnable /\ TypeOK /\ section[h] = "no"
      /\ \A k \in Handle : section[k] # "intact"
  BY RunningFacts DEF ReturnToHandler, SyscallReturn, SessionInv
<1>1. /\ UNCHANGED <<main, todo, aborting, old, section, providers, fuel>>
      /\ st' = [st EXCEPT ![h] = "user"]
      /\ shape' = [shape EXCEPT ![h] = "none"]
      /\ continued' = [continued EXCEPT ![h] = FALSE]
  BY DEF ReturnToHandler, SyscallReturn, CallOver, Move
<1>2. /\ g_current_thread' \in Handle \union {Main, Daemon}
      /\ runnable' \subseteq Handle \union {Daemon}
      /\ g_current_thread' \notin runnable'
      /\ Scheduled' = Scheduled /\ crash' = crash
      /\ interrupts_enabled_' \in BOOLEAN
  <2>1. CASE ReturnToHandler(h)
    BY <1>0, <2>1, YieldFacts DEF ReturnToHandler, Yield, TypeOK
  <2>2. CASE SyscallReturn(h)
    BY <1>0, <2>2 DEF SyscallReturn, Stay, TypeOK, Scheduled
  <2> QED BY <2>1, <2>2
<1>3. \/ /\ copyin_blocked_' = [copyin_blocked_ EXCEPT
                                  ![h] = @ - (IF shape[h] = "raw" THEN 1 ELSE 0)]
         /\ skipped' = skipped
      \/ /\ copyin_blocked_' = copyin_blocked_
         /\ skipped' = [skipped EXCEPT
                           ![h] = @ + (IF shape[h] = "raw" THEN 1 ELSE 0)]
  BY DEF ReturnToHandler, SyscallReturn
<1>4. Modest
  BY <1>0, <1>1, <1>2 DEF Modest, TypeOK
<1>5. TypeOK'
  <2>1. {copyin_blocked_', skipped'} \subseteq [Handle -> Int]
    BY <1>0, <1>3 DEF TypeOK
  <2>2. continued' \in [Handle -> BOOLEAN]
    BY <1>0, <1>1 DEF TypeOK
  <2> QED BY <1>0, <1>1, <1>2, <2>1, <2>2 DEF TypeOK, Places, main, providers
<1>6. QueueMatches'
  BY <1>0, <1>1, <1>2 DEF SessionInv, TypeOK, QueueMatches
<1>7. SectionsInCalls' /\ SectionsNotPreempted'
  BY <1>0, <1>1 DEF SessionInv, TypeOK, SectionsInCalls, SectionsNotPreempted
<1>8. ShapesInCalls'
  BY <1>0, <1>1, <1>3 DEF SessionInv, TypeOK, ShapesInCalls
<1>9. CopyinCounterExact'
  BY <1>0, <1>1, <1>3 DEF SessionInv, TypeOK, CopyinCounterExact
<1> QED BY <1>0, <1>4, <1>5, <1>6, <1>7, <1>8, <1>9, ModestInv DEF SessionInv

(* A thread yields inside the kernel, to go on at p.                       *)
LEMMA YieldInv ==
  ASSUME SessionInv, NEW h \in Handle, NEW p \in {"call", "disable", "delay"},
         Running(h, "call") \/ Running(h, "delay"),
         p = "disable" => section[h] = "no",
         st' = [st EXCEPT ![h] = p], fuel' \in 0..Fuel, Yield,
         UNCHANGED <<main, thread, copy, section, providers>>
  PROVE  SessionInv'
<1>0. /\ g_current_thread = h /\ g_current_thread # Main /\ crash = "no"
      /\ st[h] \in {"call", "delay"} /\ TypeOK
      /\ \A k \in Handle \ {h} : section[k] # "intact"
      /\ interrupts_enabled_ \in BOOLEAN
  BY RunningFacts DEF SessionInv, TypeOK
<1>2. /\ g_current_thread' \in Handle \union {Main, Daemon}
      /\ runnable' \subseteq Handle \union {Daemon}
      /\ g_current_thread' \notin runnable'
      /\ Scheduled' = Scheduled /\ crash' = crash
      /\ interrupts_enabled_' \in BOOLEAN
      /\ ~interrupts_enabled_ => g_current_thread' = h /\ ~interrupts_enabled_'
  BY <1>0, YieldFacts DEF Yield
<1>3. Modest
  BY <1>0, <1>2 DEF Modest, TypeOK, thread
<1>4. TypeOK'
  BY <1>0, <1>2 DEF TypeOK, Places, main, providers, thread, copy
<1>5. QueueMatches'
  BY <1>0, <1>2 DEF SessionInv, TypeOK, QueueMatches
<1>6. SectionsInCalls' /\ SectionsNotPreempted'
  BY <1>0, <1>2 DEF SessionInv, TypeOK, SectionsInCalls, SectionsNotPreempted
<1>7. ShapesInCalls' /\ CopyinCounterExact'
  BY <1>0 DEF SessionInv, TypeOK, ShapesInCalls, CopyinCounterExact, thread, copy
<1> QED BY <1>0, <1>3, <1>4, <1>5, <1>6, <1>7, ModestInv DEF SessionInv

LEMMA KernelFuel ==
  ASSUME SessionInv, NEW h \in Handle, Kernel(h)
  PROVE  fuel' \in 0..Fuel /\ Running(h, "call")
BY BoundsAssumption DEF Kernel, SessionInv, TypeOK

LEMMA YieldingInv ==
  ASSUME SessionInv, NEW h \in Handle,
         KernelYield(h) \/ BeginSection(h) \/ StartDelay(h)
  PROVE  SessionInv'
<1>1. CASE KernelYield(h)
  <2>1. st' = [st EXCEPT ![h] = "call"] /\ Kernel(h)
    BY <1>1, KernelFuel DEF KernelYield, Running, SessionInv, TypeOK
  <2> QED BY <1>1, <2>1, KernelFuel, YieldInv DEF KernelYield
<1>2. CASE BeginSection(h)
  BY <1>2, KernelFuel, YieldInv DEF BeginSection, Move
<1>3. CASE StartDelay(h)
  BY <1>3, KernelFuel, YieldInv DEF StartDelay, Move
<1> QED BY <1>1, <1>2, <1>3

(* Inside the kernel, without giving the processor away: stubs, preemption *)
(* enabled, interrupts disabled, a delay that is over.                     *)
LEMMA StayInKernelInv ==
  ASSUME SessionInv, NEW h \in Handle,
         \/ \E b \in StubBehaviours : CallStub(h, b)
         \/ EnablePreemption(h)
         \/ DisableInterrupts(h)
  PROVE  SessionInv'
<1>0. /\ g_current_thread = h /\ g_current_thread # Main /\ crash = "no"
      /\ st[h] \in {"call", "disable"} /\ TypeOK
      /\ \A k \in Handle \ {h} : section[k] # "intact"
      /\ xnu_fdp = "live"
  BY RunningFacts DEF CallStub, EnablePreemption, DisableInterrupts, Kernel,
                      SessionInv
<1>1. /\ UNCHANGED <<main, g_current_thread, runnable, thread, copy, providers>>
      /\ Scheduled' = Scheduled /\ fuel' \in 0..Fuel
  BY <1>0, KernelFuel DEF CallStub, EnablePreemption, DisableInterrupts,
                          Scheduled, TypeOK
<1>2. \/ /\ crash' \in {crash, "abort"}
         /\ UNCHANGED <<st, section, interrupts_enabled_>>
      \/ /\ interrupts_enabled_' = TRUE /\ UNCHANGED <<st, crash>>
         /\ section' = [section EXCEPT ![h] = IF @ = "no" THEN "no" ELSE "split"]
         /\ st[h] = "call"
      \/ /\ interrupts_enabled_' = FALSE /\ UNCHANGED crash
         /\ section' = [section EXCEPT ![h] = "intact"]
         /\ st' = [st EXCEPT ![h] = "call"]
  BY <1>0 DEF CallStub, EnablePreemption, DisableInterrupts, ReadFdp, Move,
              Kernel, Running
<1>3. Modest
  BY <1>0, <1>1, <1>2 DEF Modest, TypeOK, thread
<1>4. TypeOK'
  BY <1>0, <1>1, <1>2 DEF TypeOK, Places, main, providers, thread, copy
<1>5. QueueMatches'
  BY <1>0, <1>1, <1>2 DEF SessionInv, TypeOK, QueueMatches
<1>6. SectionsInCalls' /\ SectionsNotPreempted'
  BY <1>0, <1>1, <1>2 DEF SessionInv, TypeOK, SectionsInCalls, SectionsNotPreempted
<1>7. ShapesInCalls' /\ CopyinCounterExact'
  BY <1>0, <1>1, <1>2 DEF SessionInv, TypeOK, ShapesInCalls, CopyinCounterExact,
                          thread, copy
<1> QED BY <1>0, <1>3, <1>4, <1>5, <1>6, <1>7, ModestInv DEF SessionInv

(* ml_set_interrupts_enabled(TRUE): the section is over before the Yield.  *)
LEMMA EndSectionInv ==
  ASSUME SessionInv, NEW h \in Handle, EndSection(h)
  PROVE  SessionInv'
<1>0. /\ g_current_thread = h /\ g_current_thread # Main /\ crash = "no"
      /\ st[h] = "call" /\ TypeOK
      /\ \A k \in Handle \ {h} : section[k] # "intact"
  BY RunningFacts DEF EndSection, SessionInv
<1>1. /\ UNCHANGED <<main, st, thread, copy, providers, fuel>>
      /\ section' = [section EXCEPT ![h] = "no"]
  BY DEF EndSection
<1>2. /\ g_current_thread' \in Handle \union {Main, Daemon}
      /\ runnable' \subseteq Handle \union {Daemon}
      /\ g_current_thread' \notin runnable'
      /\ Scheduled' = Scheduled /\ crash' = crash
      /\ interrupts_enabled_' \in BOOLEAN
  BY <1>0, YieldFacts DEF EndSection
<1>3. Modest
  BY <1>0, <1>1, <1>2 DEF Modest, TypeOK, thread
<1>4. TypeOK'
  BY <1>0, <1>1, <1>2 DEF TypeOK, Places, main, providers, thread, copy
<1>5. QueueMatches'
  BY <1>0, <1>1, <1>2 DEF SessionInv, TypeOK, QueueMatches
<1>6. SectionsInCalls' /\ SectionsNotPreempted'
  BY <1>0, <1>1 DEF SessionInv, TypeOK, SectionsInCalls, SectionsNotPreempted
<1>7. ShapesInCalls' /\ CopyinCounterExact'
  BY <1>1 DEF SessionInv, ShapesInCalls, CopyinCounterExact, thread, copy
<1> QED BY <1>0, <1>3, <1>4, <1>5, <1>6, <1>7, ModestInv DEF SessionInv

(* machine_delay_until yields as long as the delay goes on.                *)
LEMMA DelayInv ==
  ASSUME SessionInv, NEW h \in Handle, NEW ns, machine_delay_until(h, ns)
  PROVE  SessionInv'
<1>0. /\ g_current_thread = h /\ g_current_thread # Main /\ crash = "no"
      /\ st[h] = "delay" /\ TypeOK /\ Running(h, "delay")
  BY RunningFacts DEF machine_delay_until, SessionInv
<1>1. UNCHANGED <<main, thread, copy, section, providers, fuel>>
  BY DEF machine_delay_until
<1>2. CASE Yield /\ UNCHANGED st
  <2>1. st' = [st EXCEPT ![h] = "delay"] /\ fuel' \in 0..Fuel
    BY <1>0, <1>1, <1>2 DEF TypeOK
  <2> QED BY <1>0, <1>1, <1>2, <2>1, YieldInv
<1>3. CASE Stay /\ Move(h, "call")
  <2>1. /\ UNCHANGED <<g_current_thread, runnable, crash, interrupts_enabled_>>
        /\ st' = [st EXCEPT ![h] = "call"] /\ Scheduled' = Scheduled
    BY <1>3 DEF Stay, Move, Scheduled
  <2>2. Modest
    BY <1>0, <1>1, <2>1 DEF Modest, TypeOK, thread
  <2>3. TypeOK'
    BY <1>0, <1>1, <2>1 DEF TypeOK, Places, main, providers, thread, copy
  <2>4. QueueMatches'
    BY <1>0, <2>1 DEF SessionInv, TypeOK, QueueMatches
  <2>5. SectionsInCalls' /\ SectionsNotPreempted'
    BY <1>0, <1>1, <2>1 DEF SessionInv, TypeOK, SectionsInCalls, SectionsNotPreempted
  <2>6. ShapesInCalls' /\ CopyinCounterExact'
    BY <1>0, <1>1, <2>1 DEF SessionInv, TypeOK, ShapesInCalls,
                            CopyinCounterExact, thread, copy
  <2> QED BY <1>0, <2>2, <2>3, <2>4, <2>5, <2>6, ModestInv DEF SessionInv
<1> QED BY <1>2, <1>3 DEF machine_delay_until

(* An interruptible wait, which an aborted thread does not begin.          *)
LEMMA WaitInv ==
  ASSUME SessionInv, NEW h \in Handle, NEW c \in BOOLEAN, Wait(h, c)
  PROVE  SessionInv'
<1>0. /\ g_current_thread = h /\ g_current_thread # Main /\ crash = "no"
      /\ st[h] = "call" /\ h \notin runnable /\ TypeOK
      /\ Scheduled = runnable \union {h} /\ thread_choices_ = "live"
      /\ section[h] = "no" /\ ~aborting[h]
      /\ \A k \in Handle : section[k] # "intact"
      /\ runnable \in SUBSET (Handle \union {Daemon})
  BY RunningFacts DEF Wait, Kernel, MayWait, SessionInv
<1>1. /\ UNCHANGED <<main, todo, shape, aborting, old, copy, section, providers>>
      /\ st' = [st EXCEPT ![h] = "wait"]
      /\ continued' = [continued EXCEPT ![h] = @ \/ c]
      /\ ThreadBlock(runnable, {}) /\ fuel' \in 0..Fuel
  BY KernelFuel DEF Wait, Move
<1>2. /\ g_current_thread' \in Handle \union {Main, Daemon}
      /\ runnable' \subseteq Handle \union {Daemon}
      /\ g_current_thread' \notin runnable'
      /\ Scheduled' = runnable
      /\ crash' = crash /\ interrupts_enabled_' = TRUE
  BY <1>0, <1>1, LeaveFacts
<1>3. Modest
  BY <1>0, <1>1, <1>2, ThreadsDiffer DEF Modest, TypeOK
<1>4. TypeOK'
  <2>1. continued' \in [Handle -> BOOLEAN]
    BY <1>0, <1>1 DEF TypeOK
  <2> QED BY <1>0, <1>1, <1>2, <2>1 DEF TypeOK, Places, main, providers, copy
<1>5. QueueMatches'
  BY <1>0, <1>1, <1>2 DEF SessionInv, TypeOK, QueueMatches
<1>6. SectionsInCalls' /\ SectionsNotPreempted'
  BY <1>0, <1>1 DEF SessionInv, TypeOK, SectionsInCalls, SectionsNotPreempted
<1>7. ShapesInCalls' /\ CopyinCounterExact'
  BY <1>0, <1>1 DEF SessionInv, TypeOK, ShapesInCalls, CopyinCounterExact, copy
<1> QED BY <1>0, <1>3, <1>4, <1>5, <1>6, <1>7, ModestInv DEF SessionInv

(* An uninterruptible wait, which splits a section.                        *)
LEMMA WaitUninterruptiblyInv ==
  ASSUME SessionInv, NEW h \in Handle, WaitUninterruptibly(h)
  PROVE  SessionInv'
<1>0. /\ g_current_thread = h /\ g_current_thread # Main /\ crash = "no"
      /\ st[h] = "call" /\ h \notin runnable /\ TypeOK
      /\ Scheduled = runnable \union {h}
      /\ \A k \in Handle \ {h} : section[k] # "intact"
      /\ runnable \in SUBSET (Handle \union {Daemon})
  BY RunningFacts DEF WaitUninterruptibly, Kernel, SessionInv
<1>1. /\ UNCHANGED <<main, runnable, thread, copy, providers, crash>>
      /\ st' = [st EXCEPT ![h] = "stuck"]
      /\ section' = [section EXCEPT ![h] = IF @ = "no" THEN "no" ELSE "split"]
      /\ g_current_thread' = Main /\ interrupts_enabled_' = TRUE
      /\ fuel' \in 0..Fuel
  BY KernelFuel DEF WaitUninterruptibly, Move
<1>2. Scheduled' = runnable /\ g_current_thread' \notin runnable'
  BY <1>0, <1>1, ThreadsDiffer DEF Scheduled
<1>3. Modest
  BY <1>0, <1>1, <1>2, ThreadsDiffer DEF Modest, TypeOK, thread
<1>4. TypeOK'
  BY <1>0, <1>1 DEF TypeOK, Places, main, providers, thread, copy
<1>5. QueueMatches'
  BY <1>0, <1>1, <1>2 DEF SessionInv, TypeOK, QueueMatches
<1>6. SectionsInCalls' /\ SectionsNotPreempted'
  BY <1>0, <1>1 DEF SessionInv, TypeOK, SectionsInCalls, SectionsNotPreempted
<1>7. ShapesInCalls' /\ CopyinCounterExact'
  BY <1>0, <1>1 DEF SessionInv, TypeOK, ShapesInCalls, CopyinCounterExact,
                    thread, copy
<1> QED BY <1>0, <1>3, <1>4, <1>5, <1>6, <1>7, ModestInv DEF SessionInv

(* Kernel code of h wakes t.                                               *)
LEMMA WakeInv ==
  ASSUME SessionInv, NEW h \in Handle, NEW t \in Handle, Wake(h, t)
  PROVE  SessionInv'
<1>0. /\ g_current_thread = h /\ g_current_thread # Main /\ crash = "no"
      /\ st[h] = "call" /\ st[t] \in {"wait", "stuck"} /\ t # h /\ TypeOK
      /\ \A k \in Handle \ {h} : section[k] # "intact"
  BY RunningFacts DEF Wake, Kernel, SessionInv
<1>1. /\ UNCHANGED <<main, g_current_thread, thread, copy, section, providers,
                     interrupts_enabled_, crash>>
      /\ st' = [st EXCEPT ![t] = "call"]
      /\ runnable' = runnable \union {t} /\ fuel' \in 0..Fuel
  BY KernelFuel DEF Wake, Move
<1>2. Scheduled' = Scheduled \union {t} /\ g_current_thread' \notin runnable'
  BY <1>0, <1>1, ThreadsDiffer DEF SessionInv, QueueMatches, Scheduled
<1>3. Modest
  BY <1>0, <1>1, <1>2 DEF Modest, TypeOK, thread
<1>4. TypeOK'
  BY <1>0, <1>1 DEF TypeOK, Places, main, providers, thread, copy
<1>5. QueueMatches'
  BY <1>0, <1>1, <1>2 DEF SessionInv, TypeOK, QueueMatches
<1>6. SectionsInCalls' /\ SectionsNotPreempted'
  BY <1>0, <1>1 DEF SessionInv, TypeOK, SectionsInCalls, SectionsNotPreempted
<1>7. ShapesInCalls' /\ CopyinCounterExact'
  BY <1>0, <1>1 DEF SessionInv, TypeOK, ShapesInCalls, CopyinCounterExact,
                    thread, copy
<1> QED BY <1>0, <1>3, <1>4, <1>5, <1>6, <1>7, ModestInv DEF SessionInv

LEMMA ThreadStepInv ==
  ASSUME SessionInv, NEW h \in Handle, ThreadStep(h)
  PROVE  SessionInv'
BY StartCommandInv, ThreadFinishedInv, ReturnInv, YieldingInv,
   StayInKernelInv, EndSectionInv, DelayInv, WaitInv, WaitUninterruptiblyInv,
   WakeInv DEF ThreadStep, KernelStep

(* The daemons free only what nobody refers to, with its counter.          *)
LEMMA DaemonInv ==
  ASSUME SessionInv, DaemonRuns
  PROVE  SessionInv'
<1>0. /\ g_current_thread = Daemon /\ g_current_thread # Main /\ crash = "no"
      /\ TypeOK /\ thread_choices_ = "live"
      /\ runnable \in SUBSET (Handle \union {Daemon}) /\ Daemon \notin runnable
      /\ Scheduled = runnable \union {Daemon}
      /\ \A k \in Handle : section[k] # "intact"
  BY ThreadsDiffer, ThreadRuns
     DEF DaemonRuns, SessionInv, TypeOK, QueueMatches, Scheduled,
         SectionsNotPreempted
<1>1. /\ UNCHANGED <<main, todo, shape, continued, section, providers, fuel>>
      /\ st' = [h \in Handle |-> IF h \in Destroyed THEN "free"
                                 ELSE IF st[h] = "ended" THEN "reaped"
                                 ELSE st[h]]
      /\ copyin_blocked_' = [h \in Handle |-> IF h \in Destroyed THEN 0
                                              ELSE copyin_blocked_[h]]
      /\ skipped' = [h \in Handle |-> IF h \in Destroyed THEN 0 ELSE skipped[h]]
      /\ aborting' = [h \in Handle |-> aborting[h] /\ h \notin Destroyed]
      /\ old' = [h \in Handle |-> old[h] /\ h \notin Destroyed]
      /\ ThreadBlock(runnable, {})
  BY DEF DaemonRuns, CopyinAfterDestroy
<1>2. /\ g_current_thread' \in Handle \union {Main, Daemon}
      /\ runnable' \subseteq Handle \union {Daemon}
      /\ g_current_thread' \notin runnable'
      /\ Scheduled' = runnable
      /\ crash' = crash /\ interrupts_enabled_' = TRUE
  BY <1>0, <1>1, LeaveFacts
<1>3. \A h \in Handle : /\ h \in Destroyed => st[h] \in {"ended", "reaped"}
                        /\ h \in Destroyed <=> /\ h \notin Referenced
                                               /\ st[h] \in {"ended", "reaped"}
  BY DEF Destroyed
<1>4. TypeOK'
  <2>1. {copyin_blocked_', skipped'} \subseteq [Handle -> Int]
    BY <1>0, <1>1 DEF TypeOK
  <2>2. {continued', aborting', old'} \subseteq [Handle -> BOOLEAN]
    BY <1>0, <1>1 DEF TypeOK
  <2>3. st' \in [Handle -> Places]
    BY <1>0, <1>1 DEF TypeOK, Places
  <2> QED BY <1>0, <1>1, <1>2, <2>1, <2>2, <2>3 DEF TypeOK, main, providers
<1>5. QueueMatches'
  BY <1>0, <1>1, <1>2, <1>3, ThreadsDiffer DEF SessionInv, TypeOK, QueueMatches
<1>6. SectionsInCalls' /\ SectionsNotPreempted'
  BY <1>0, <1>1, <1>3 DEF SessionInv, TypeOK, SectionsInCalls, SectionsNotPreempted
<1>7. ShapesInCalls' /\ CopyinCounterExact'
  BY <1>0, <1>1, <1>3 DEF SessionInv, TypeOK, ShapesInCalls, CopyinCounterExact
<1>8. /\ MainWaits' /\ ProvidersInPlace' /\ ProvidersOutliveReaders'
      /\ NoneAtBoot' /\ EndIsIdle'
  BY <1>0, <1>1, <1>2, RunSteps
     DEF SessionInv, MainWaits, ProvidersInPlace, ProvidersOutliveReaders,
         NoneAtBoot, EndIsIdle, main, providers
<1>9. SlotsInUse'
  <2>1. \A i \in Slot : step \notin Waiting(i)
    BY <1>0, RunSteps DEF SessionInv, MainWaits, Waiting, Before
  <2> QED BY <1>1, <1>3, <2>1 DEF SessionInv, SlotsInUse, main
<1>10. AllAborted'
  BY <1>0, <1>1, <1>3 DEF SessionInv, TypeOK, AllAborted, main
<1>11. DaemonComes'
  BY <1>0, <1>1, <1>3 DEF SessionInv, TypeOK, DaemonComes, Referenced, main
<1> QED BY <1>4, <1>5, <1>6, <1>7, <1>8, <1>9, <1>10, <1>11 DEF SessionInv
-----------------------------------------------------------------------------
(* Steps of the main thread.                                               *)

LEMMA MainFacts ==
  ASSUME SessionInv, NEW s, At(s)
  PROVE  /\ g_current_thread = Main /\ crash = "no" /\ step = s
         /\ Scheduled = runnable /\ runnable \in SUBSET (Handle \union {Daemon})
         /\ \A k \in Handle : section[k] # "intact"
BY ThreadsDiffer DEF At, SessionInv, TypeOK, Scheduled, SectionsNotPreempted

(* A step of main that leaves the threads and what is known of them alone. *)
LEMMA QuietInv ==
  ASSUME SessionInv, g_current_thread = Main,
         UNCHANGED <<slot, g_current_thread, runnable, st, todo, shape,
                     continued, aborting, copy, section, crash>>,
         old' \in [Handle -> BOOLEAN], session' \in 0..Sessions,
         fuel' \in 0..Fuel, interrupts_enabled_' \in BOOLEAN,
         {xnu_fdp', thread_choices_'} \subseteq {"null", "live", "dead"},
         ready_for_preemption' \in BOOLEAN, step' \in Steps \ {"boot"},
         ProvidersInPlace', step' = "end" => runnable = {},
         \A i \in Slot : /\ step' \in Referring(i) <=> step \in Referring(i)
                         /\ step' \in Waiting(i) <=> step \in Waiting(i)
                         /\ step' \in Aborted(i) <=> step \in Aborted(i)
  PROVE  SessionInv'
<1>1. TypeOK'
  BY DEF SessionInv, TypeOK, copy
<1>2. QueueMatches' /\ MainWaits'
  BY DEF SessionInv, QueueMatches, MainWaits, Scheduled
<1>3. /\ SectionsInCalls' /\ SectionsNotPreempted' /\ ShapesInCalls'
      /\ CopyinCounterExact' /\ ProvidersOutliveReaders'
  BY ThreadsDiffer
     DEF SessionInv, SectionsInCalls, SectionsNotPreempted, ShapesInCalls,
         CopyinCounterExact, ProvidersOutliveReaders, copy
<1>4. SlotsInUse'
  BY DEF SessionInv, SlotsInUse
<1>5. AllAborted'
  BY DEF SessionInv, AllAborted
<1>6. DaemonComes' /\ NoneAtBoot' /\ EndIsIdle'
  BY DEF SessionInv, DaemonComes, NoneAtBoot, EndIsIdle, Referenced, Scheduled
<1> QED BY <1>1, <1>2, <1>3, <1>4, <1>5, <1>6 DEF SessionInv

(* Steps at which nothing is created, aborted or released.                 *)
LEMMA QuietStepsInv ==
  ASSUME SessionInv, Booted \/ BeginSession \/ SetProviders \/ EndSession
  PROVE  SessionInv'
<1>0. g_current_thread = Main /\ TypeOK
  BY MainFacts DEF Booted, BeginSession, SetProviders, EndSession, SessionInv
<1>1. CASE Booted \/ EndSession
  <2>1. /\ step \in {"booted", "end"} /\ step' = "rest"
        /\ UNCHANGED <<session, slot, ready_for_preemption, g_current_thread,
                       runnable, crash, interrupts_enabled_, st, todo, shape,
                       continued, aborting, copy, section, fuel>>
        /\ old' \in [Handle -> BOOLEAN]
        /\ xnu_fdp' = "null" /\ thread_choices_' = Dead(thread_choices_)
    BY <1>0, <1>1, MainFacts
       DEF Booted, EndSession, Goto, Stay, thread, TypeOK
  <2>2. {xnu_fdp', thread_choices_'} \subseteq {"null", "live", "dead"}
    BY <1>0, <2>1 DEF Dead, TypeOK
  <2>3. step' \in Steps \ {"boot"} /\ ProvidersInPlace'
    BY <2>1 DEF Steps, ProvidersInPlace, CreatingSteps
  <2>4. \A i \in Slot : /\ step' \in Referring(i) <=> step \in Referring(i)
                        /\ step' \in Waiting(i) <=> step \in Waiting(i)
                        /\ step' \in Aborted(i) <=> step \in Aborted(i)
    BY <2>1 DEF Referring, Waiting, Aborted, Before, Slot
  <2> QED BY <1>0, <2>1, <2>2, <2>3, <2>4, QuietInv DEF TypeOK
<1>2. CASE BeginSession
  <2>1. /\ step = "rest" /\ step' = "clone1" /\ session' = session + 1
        /\ ready_for_preemption' = FALSE
        /\ interrupts_enabled_' = TRUE /\ fuel' = Fuel /\ session < Sessions
        /\ UNCHANGED <<slot, g_current_thread, runnable, st, thread, copy,
                       section, providers, crash>>
    BY <1>2, MainFacts DEF BeginSession, PreemptionOff
  <2>2. session' \in 0..Sessions /\ fuel' \in 0..Fuel
    BY <1>0, <2>1, BoundsAssumption DEF TypeOK
  <2>3. step' \in Steps \ {"boot"} /\ ProvidersInPlace'
    BY <2>1 DEF Steps, ProvidersInPlace, CreatingSteps
  <2>4. \A i \in Slot : /\ step' \in Referring(i) <=> step \in Referring(i)
                        /\ step' \in Waiting(i) <=> step \in Waiting(i)
                        /\ step' \in Aborted(i) <=> step \in Aborted(i)
    BY <2>1 DEF Referring, Waiting, Aborted, Before, Slot
  <2> QED BY <1>0, <2>1, <2>2, <2>3, <2>4, QuietInv
          DEF TypeOK, thread, providers
<1>3. CASE SetProviders
  <2>1. /\ step = "provide" /\ step' = "run0"
        /\ xnu_fdp' = "live" /\ thread_choices_' = "live"
        /\ ready_for_preemption' = TRUE
        /\ UNCHANGED <<session, slot, g_current_thread, runnable, crash,
                       interrupts_enabled_, st, thread, copy, section, fuel>>
    BY <1>3, MainFacts DEF SetProviders, Stay
  <2>3. step' \in Steps \ {"boot"} /\ ProvidersInPlace'
    BY <2>1 DEF Steps, ProvidersInPlace, CreatingSteps
  <2>4. \A i \in Slot : /\ step' \in Referring(i) <=> step \in Referring(i)
                        /\ step' \in Waiting(i) <=> step \in Waiting(i)
                        /\ step' \in Aborted(i) <=> step \in Aborted(i)
    BY <2>1 DEF Referring, Waiting, Aborted, Before, Slot
  <2> QED BY <1>0, <2>1, <2>3, <2>4, QuietInv DEF TypeOK, thread
<1> QED BY <1>1, <1>2, <1>3

LEMMA RunReturnsInv ==
  ASSUME SessionInv, RunReturns
  PROVE  SessionInv'
<1>0. /\ g_current_thread = Main /\ TypeOK
      /\ step \in {"bootrun", "run0", "run1", "run2", "run3", "run4", "run5"}
      /\ runnable = {} /\ xnu_fdp = "live" /\ thread_choices_ = "live"
  BY MainFacts, RunSteps
     DEF RunReturns, SessionInv, ProvidersInPlace, CreatingSteps, TypeOK
<1>1. /\ step' = AfterRun[step]
      /\ UNCHANGED <<session, slot, ready_for_preemption, g_current_thread,
                     runnable, crash, interrupts_enabled_, st, thread, copy,
                     section, providers, fuel>>
  BY DEF RunReturns, Goto, Stay
<1>2. \/ step = "bootrun" /\ step' = "booted"
      \/ step = "run0" /\ step' = "abort1"
      \/ step = "run1" /\ step' = "abort2"
      \/ step = "run2" /\ step' = "abort3"
      \/ step = "run3" /\ step' = "dealloc"
      \/ step = "run4" /\ step' = "kill"
      \/ step = "run5" /\ step' = "end"
  BY <1>0, <1>1, RunSteps
<1>3. step' \in Steps \ {"boot"} /\ ProvidersInPlace'
  BY <1>0, <1>1, <1>2 DEF Steps, ProvidersInPlace, CreatingSteps, providers
<1>4. \A i \in Slot : /\ step' \in Referring(i) <=> step \in Referring(i)
                      /\ step' \in Waiting(i) <=> step \in Waiting(i)
                      /\ step' \in Aborted(i) <=> step \in Aborted(i)
  BY <1>2 DEF Referring, Waiting, Aborted, Before, Slot
<1> QED BY <1>0, <1>1, <1>3, <1>4, QuietInv DEF TypeOK, thread, providers

(* Main picks a thread, in RunUntilEmpty or just before it.                *)
LEMMA MainPicksInv ==
  ASSUME SessionInv, RunOne \/ MainYield
  PROVE  SessionInv'
<1>0. /\ g_current_thread = Main /\ TypeOK /\ crash = "no"
      /\ Scheduled = runnable /\ runnable \in SUBSET (Handle \union {Daemon})
      /\ \A k \in Handle : section[k] # "intact"
  BY MainFacts DEF RunOne, MainYield, SessionInv
<1>1. step \in DOMAIN AfterRun /\ thread_choices_ = "live"
  BY RunSteps DEF RunOne, MainYield, CanYield, SessionInv, ProvidersInPlace,
                  CreatingSteps, Steps
<1>2. UNCHANGED <<main, st, thread, copy, section, providers, fuel>>
  BY DEF RunOne, MainYield
<1>3. /\ g_current_thread' \in Handle \union {Main, Daemon}
      /\ runnable' \subseteq Handle \union {Daemon}
      /\ g_current_thread' \notin runnable'
      /\ Scheduled' = runnable
      /\ crash' = crash /\ interrupts_enabled_' = TRUE
  <2>1. ThreadBlock(runnable, {})
    BY DEF RunOne, MainYield, ThreadBlock
  <2> QED BY <1>0, <1>1, <2>1, LeaveFacts
<1>4. TypeOK'
  BY <1>0, <1>2, <1>3 DEF TypeOK, main, providers, thread, copy
<1>5. QueueMatches' /\ MainWaits'
  BY <1>0, <1>1, <1>2, <1>3 DEF SessionInv, QueueMatches, MainWaits, main
<1>6. /\ SectionsInCalls' /\ SectionsNotPreempted' /\ ShapesInCalls'
      /\ CopyinCounterExact' /\ ProvidersOutliveReaders' /\ ProvidersInPlace'
  BY <1>0, <1>2, <1>3
     DEF SessionInv, SectionsInCalls, SectionsNotPreempted, ShapesInCalls,
         CopyinCounterExact, ProvidersOutliveReaders, ProvidersInPlace, copy,
         thread, main, providers
<1>7. SlotsInUse' /\ AllAborted'
  BY <1>2 DEF SessionInv, SlotsInUse, AllAborted, main, thread
<1>8. DaemonComes' /\ NoneAtBoot' /\ EndIsIdle'
  BY <1>0, <1>1, <1>2, <1>3, RunSteps
     DEF SessionInv, DaemonComes, NoneAtBoot, EndIsIdle, Referenced, main
<1> QED BY <1>4, <1>5, <1>6, <1>7, <1>8 DEF SessionInv

LEMMA InitializeHostInv ==
  ASSUME SessionInv, InitializeHost
  PROVE  SessionInv'
<1>0. /\ g_current_thread = Main /\ step = "boot" /\ TypeOK /\ crash = "no"
      /\ \A h \in Handle : st[h] = "free"
      /\ \A k \in Handle : section[k] # "intact"
  BY MainFacts DEF InitializeHost, SessionInv, NoneAtBoot
<1>1. /\ step' = "bootrun" /\ xnu_fdp' = "live" /\ thread_choices_' = "live"
      /\ interrupts_enabled_' = FALSE /\ runnable' = {Daemon}
      /\ UNCHANGED <<session, slot, ready_for_preemption, g_current_thread,
                     st, thread, copy, section, fuel, crash>>
  BY DEF InitializeHost, Goto
<1>2. TypeOK'
  BY <1>0, <1>1 DEF TypeOK, Steps, thread, copy
<1>3. QueueMatches' /\ MainWaits' /\ EndIsIdle' /\ NoneAtBoot'
  BY <1>0, <1>1, ThreadsDiffer
     DEF QueueMatches, Scheduled, MainWaits, EndIsIdle, NoneAtBoot
<1>4. /\ SectionsInCalls' /\ SectionsNotPreempted' /\ ShapesInCalls'
      /\ CopyinCounterExact' /\ ProvidersOutliveReaders' /\ ProvidersInPlace'
  BY <1>0, <1>1
     DEF SessionInv, SectionsInCalls, SectionsNotPreempted, ShapesInCalls,
         CopyinCounterExact, ProvidersOutliveReaders, ProvidersInPlace,
         CreatingSteps, copy, thread
<1>5. SlotsInUse'
  BY <1>0, <1>1 DEF SessionInv, SlotsInUse, Referring, Waiting, Before
<1>6. AllAborted' /\ DaemonComes'
  BY <1>0, <1>1 DEF AllAborted, DaemonComes
<1> QED BY <1>2, <1>3, <1>4, <1>5, <1>6 DEF SessionInv

(* CloneTaskFromInit and CreateWaitingThread.                              *)
LEMMA CreateInv ==
  ASSUME SessionInv, NEW n \in 0..Commands, CreateCommandThread(n)
  PROVE  SessionInv'
<1> DEFINE f == FreshHandle
           i == CloneSteps[step]
<1>0. /\ g_current_thread = Main /\ TypeOK /\ crash = "no"
      /\ step \in {"clone1", "clone2", "clone3"}
      /\ f \in Handle /\ st[f] = "free"
      /\ \A k \in Handle : section[k] # "intact"
  BY MainFacts, FreshHandleIsFree
     DEF CreateCommandThread, SessionInv, CloneSteps
<1>1. \/ step = "clone1" /\ i = 1 /\ step' = "clone2"
      \/ step = "clone2" /\ i = 2 /\ step' = "clone3"
      \/ step = "clone3" /\ i = 3 /\ step' = "clear1"
  BY <1>0 DEF CreateCommandThread, CloneSteps
<1>2. /\ slot' = [slot EXCEPT ![i] = f]
      /\ st' = [st EXCEPT ![f] = "new"]
      /\ todo' = [todo EXCEPT ![f] = n]
      /\ UNCHANGED <<session, ready_for_preemption, shape, continued, aborting,
                     old, copy, section, providers, fuel, g_current_thread,
                     runnable, crash, interrupts_enabled_>>
  BY DEF CreateCommandThread, Move, Stay
<1> HIDE DEF f, i
<1>3. i \in Slot /\ slot[i] \notin Handle
  BY <1>1 DEF Slot, SessionInv, SlotsInUse, Referring, Before
<1>4. TypeOK'
  BY <1>0, <1>1, <1>2, <1>3 DEF TypeOK, Steps, Places, copy, providers
<1>5. QueueMatches' /\ MainWaits' /\ EndIsIdle' /\ NoneAtBoot'
  BY <1>0, <1>1, <1>2
     DEF SessionInv, TypeOK, QueueMatches, Scheduled, MainWaits, EndIsIdle,
         NoneAtBoot
<1>6. SectionsInCalls' /\ SectionsNotPreempted'
  BY <1>0, <1>2 DEF SessionInv, TypeOK, SectionsInCalls, SectionsNotPreempted
<1>7. ShapesInCalls' /\ CopyinCounterExact'
  BY <1>0, <1>2 DEF SessionInv, TypeOK, ShapesInCalls, CopyinCounterExact, copy
<1>8. ProvidersOutliveReaders' /\ ProvidersInPlace'
  BY <1>0, <1>1, <1>2
     DEF SessionInv, ProvidersOutliveReaders, ProvidersInPlace, CreatingSteps,
         providers
<1>9. SlotsInUse'
  <2>1. \A j \in Slot : slot'[j] = IF j = i THEN f ELSE slot[j]
    BY <1>0, <1>2 DEF TypeOK
  <2>2. \A j \in Slot : slot[j] # f \/ st[f] # "new"
    BY <1>0
  <2>3. \A j \in Slot \ {i} : slot[j] \in Handle => slot[j] # f
    BY <1>0, <1>1, <1>3 DEF SessionInv, SlotsInUse, Referring, Waiting, Before, Slot
  <2>4. \A j \in Slot : slot'[j] \in Handle <=> step' \in Referring(j)
    BY <1>0, <1>1, <1>3, <2>1 DEF SessionInv, SlotsInUse, Referring, Before, Slot
  <2>5. \A j \in Slot : step' \in Waiting(j) => st'[slot'[j]] = "new"
    BY <1>0, <1>1, <1>2, <1>3, <2>1, <2>3
       DEF SessionInv, TypeOK, SlotsInUse, Waiting, Before, Slot
  <2>6. \A j, k \in Slot : j # k /\ slot'[j] \in Handle => slot'[j] # slot'[k]
    BY <1>0, <1>3, <2>1, <2>3, ThreadsDiffer DEF SessionInv, SlotsInUse, TypeOK
  <2>7. \A h \in Handle : st'[h] = "new" =>
           \E j \in Slot : slot'[j] = h /\ step' \in Waiting(j)
    <3> SUFFICES ASSUME NEW h \in Handle, st'[h] = "new"
                 PROVE  \E j \in Slot : slot'[j] = h /\ step' \in Waiting(j)
      OBVIOUS
    <3>1. CASE h = f
      BY <1>1, <1>3, <2>1, <3>1 DEF Waiting, Before
    <3>2. CASE h # f
      <4>1. PICK j \in Slot : slot[j] = h /\ step \in Waiting(j)
        BY <1>0, <1>2, <3>2 DEF SessionInv, TypeOK, SlotsInUse
      <4>2. j # i /\ step' \in Waiting(j)
        BY <1>1, <1>3, <4>1 DEF Waiting, Before
      <4> QED BY <2>1, <4>1, <4>2
    <3> QED BY <3>1, <3>2
  <2> QED BY <2>4, <2>5, <2>6, <2>7 DEF SlotsInUse
<1>10. AllAborted'
  <2>1. \A j \in Slot : slot'[j] = IF j = i THEN f ELSE slot[j]
    BY <1>0, <1>2 DEF TypeOK
  <2>2. \A j \in Slot : step' \notin Aborted(j)
    BY <1>1 DEF Aborted
  <2> QED BY <1>0, <1>2, <1>3, <2>1, <2>2 DEF SessionInv, TypeOK, AllAborted
<1>11. DaemonComes'
  <2>1. \A h \in Handle : h \in Referenced => h \in Referenced'
    BY <1>0, <1>2, <1>3 DEF TypeOK, Referenced
  <2> QED BY <1>0, <1>2, <2>1 DEF SessionInv, TypeOK, DaemonComes, Scheduled
<1> QED BY <1>4, <1>5, <1>6, <1>7, <1>8, <1>9, <1>10, <1>11 DEF SessionInv

(* A task of new threads is released.                                      *)
LEMMA ClearTaskWaitInv ==
  ASSUME SessionInv, ClearTaskWait
  PROVE  SessionInv'
<1> DEFINE task == IF step = "clear1" THEN {slot[1], slot[2]} ELSE {slot[3]}
<1>0. /\ g_current_thread = Main /\ TypeOK /\ crash = "no"
      /\ \/ step = "clear1" /\ step' = "clear2"
         \/ step = "clear2" /\ step' = "provide"
      /\ Scheduled = runnable
      /\ \A k \in Handle : section[k] # "intact"
  BY MainFacts DEF ClearTaskWait, Goto, SessionInv
<1>1. /\ st' = [h \in Handle |-> IF h \in task /\ st[h] = "new"
                                 THEN "user" ELSE st[h]]
      /\ runnable' = runnable \union task
      /\ UNCHANGED <<session, slot, ready_for_preemption, g_current_thread,
                     thread, copy, section, providers, interrupts_enabled_,
                     fuel, crash>>
  BY DEF ClearTaskWait, Goto
<1>2. /\ slot[1] \in Handle /\ slot[2] \in Handle /\ slot[3] \in Handle
      /\ slot[3] # slot[1] /\ slot[3] # slot[2] /\ slot[1] # slot[2]
      /\ st[slot[3]] = "new"
      /\ step = "clear1" => st[slot[1]] = "new" /\ st[slot[2]] = "new"
  BY <1>0 DEF SessionInv, SlotsInUse, Referring, Waiting, Before, Slot
<1>3. \A h \in task : h \in Handle /\ st[h] = "new"
  BY <1>0, <1>2
<1> HIDE DEF task
<1>4. Scheduled' = Scheduled \union task
  BY <1>0, <1>1, <1>3, ThreadsDiffer DEF Scheduled
<1>5. TypeOK'
  BY <1>0, <1>1, <1>3 DEF TypeOK, Steps, Places, thread, copy, providers
<1>6. QueueMatches' /\ MainWaits' /\ EndIsIdle' /\ NoneAtBoot'
  BY <1>0, <1>1, <1>3, <1>4, ThreadsDiffer
     DEF SessionInv, TypeOK, QueueMatches, MainWaits, EndIsIdle, NoneAtBoot
<1>7. SectionsInCalls' /\ SectionsNotPreempted'
  BY <1>0, <1>1 DEF SessionInv, TypeOK, SectionsInCalls, SectionsNotPreempted
<1>8. ShapesInCalls' /\ CopyinCounterExact'
  BY <1>0, <1>1 DEF SessionInv, TypeOK, ShapesInCalls, CopyinCounterExact,
                    thread, copy
<1>9. ProvidersOutliveReaders' /\ ProvidersInPlace'
  BY <1>0, <1>1
     DEF SessionInv, ProvidersOutliveReaders, ProvidersInPlace, CreatingSteps,
         providers
<1>10. SlotsInUse'
  <2>1. \A j \in Slot : slot'[j] \in Handle <=> step' \in Referring(j)
    BY <1>0, <1>1 DEF SessionInv, SlotsInUse, Referring, Before
  <2>2. \A j \in Slot : step' \in Waiting(j) => st'[slot'[j]] = "new"
    BY <1>0, <1>1, <1>2 DEF Waiting, Before, Slot, task
  <2>3. \A h \in Handle : st'[h] = "new" =>
           \E j \in Slot : slot'[j] = h /\ step' \in Waiting(j)
    <3> SUFFICES ASSUME NEW h \in Handle, st'[h] = "new"
                 PROVE  \E j \in Slot : slot'[j] = h /\ step' \in Waiting(j)
      OBVIOUS
    <3>1. h \notin task /\ st[h] = "new"
      BY <1>0, <1>1, <1>3
    <3>2. PICK j \in Slot : slot[j] = h /\ step \in Waiting(j)
      BY <3>1 DEF SessionInv, SlotsInUse
    <3>3. j = 3 /\ step = "clear1"
      BY <1>0, <3>1, <3>2 DEF Waiting, Before, Slot, task
    <3> QED BY <1>0, <1>1, <3>2, <3>3 DEF Waiting
  <2> QED BY <1>1, <2>1, <2>2, <2>3 DEF SessionInv, SlotsInUse
<1>11. AllAborted'
  BY <1>0, <1>1, <1>3 DEF SessionInv, TypeOK, AllAborted, Aborted, thread
<1>12. DaemonComes'
  BY <1>0, <1>1, <1>3, <1>4 DEF SessionInv, TypeOK, DaemonComes, Referenced
<1> QED BY <1>5, <1>6, <1>7, <1>8, <1>9, <1>10, <1>11, <1>12 DEF SessionInv

(* The session aborts one of its threads.                                  *)
LEMMA ThreadAbortInv ==
  ASSUME SessionInv, ThreadAbort
  PROVE  SessionInv'
<1> DEFINE i == AbortSteps[step]
           h == slot[i]
           waits == st[h] = "wait"
<1>0. /\ g_current_thread = Main /\ TypeOK /\ crash = "no"
      /\ step \in {"abort1", "abort2", "abort3"}
      /\ Scheduled = runnable
      /\ \A k \in Handle : section[k] # "intact"
  BY MainFacts DEF ThreadAbort, SessionInv, AbortSteps
<1>1. \/ step = "abort1" /\ i = 1 /\ step' = "run1"
      \/ step = "abort2" /\ i = 2 /\ step' = "run2"
      \/ step = "abort3" /\ i = 3 /\ step' = "run3"
  BY <1>0 DEF ThreadAbort, Goto, AbortSteps
<1>2. /\ aborting' = [aborting EXCEPT ![h] = TRUE]
      /\ st' = [st EXCEPT ![h] = IF waits THEN "call" ELSE st[h]]
      /\ runnable' = IF waits THEN runnable \union {h} ELSE runnable
      /\ UNCHANGED <<session, slot, ready_for_preemption, g_current_thread,
                     todo, shape, continued, old, copy, section, providers,
                     interrupts_enabled_, fuel, crash>>
  BY DEF ThreadAbort, Goto, Move
<1> HIDE DEF i
<1>3. i \in Slot /\ h \in Handle
  BY <1>1 DEF Slot, SessionInv, SlotsInUse, Referring, Before
<1> HIDE DEF h
<1>4. /\ Scheduled' = IF waits THEN Scheduled \union {h} ELSE Scheduled
      /\ \A k \in Handle : st'[k] = IF k = h /\ waits THEN "call" ELSE st[k]
  BY <1>0, <1>2, <1>3, ThreadsDiffer DEF Scheduled, TypeOK
<1>5. TypeOK'
  BY <1>0, <1>1, <1>2, <1>3 DEF TypeOK, Steps, Places, copy, providers
<1>6. QueueMatches' /\ MainWaits' /\ EndIsIdle' /\ NoneAtBoot'
  BY <1>0, <1>1, <1>2, <1>3, <1>4, ThreadsDiffer
     DEF SessionInv, QueueMatches, MainWaits, EndIsIdle, NoneAtBoot
<1>7. SectionsInCalls' /\ SectionsNotPreempted'
  BY <1>0, <1>2, <1>4 DEF SessionInv, SectionsInCalls, SectionsNotPreempted
<1>8. ShapesInCalls' /\ CopyinCounterExact'
  BY <1>2, <1>4 DEF SessionInv, ShapesInCalls, CopyinCounterExact, copy
<1>9. ProvidersOutliveReaders' /\ ProvidersInPlace'
  BY <1>0, <1>1, <1>2
     DEF SessionInv, ProvidersOutliveReaders, ProvidersInPlace, CreatingSteps,
         Steps, providers
<1>10. SlotsInUse'
  <2>1. \A j \in Slot : step \notin Waiting(j) /\ step' \notin Waiting(j)
    BY <1>1 DEF Waiting, Before
  <2>2. \A j \in Slot : step' \in Referring(j) <=> step \in Referring(j)
    BY <1>1 DEF Referring, Before
  <2> QED BY <1>2, <1>4, <2>1, <2>2 DEF SessionInv, SlotsInUse
<1>11. AllAborted'
  <2>1. \A j \in Slot \ {i} : step' \in Aborted(j) => step \in Aborted(j)
    BY <1>1 DEF Aborted, Slot
  <2>2. \A k \in Handle : aborting'[k] = (k = h \/ aborting[k])
    BY <1>0, <1>2, <1>3 DEF TypeOK
  <2>3. \A k \in Handle : st'[k] # "free" /\ ~aborting'[k] =>
           \E j \in Slot : slot'[j] = k /\ step' \notin Aborted(j)
    <3> SUFFICES ASSUME NEW k \in Handle, st'[k] # "free", ~aborting'[k]
                 PROVE  \E j \in Slot : slot'[j] = k /\ step' \notin Aborted(j)
      OBVIOUS
    <3>1. k # h /\ st[k] # "free" /\ ~aborting[k]
      BY <1>4, <2>2
    <3>2. PICK j \in Slot : slot[j] = k /\ step \notin Aborted(j)
      BY <3>1 DEF SessionInv, AllAborted
    <3>3. j # i
      BY <3>1, <3>2 DEF h
    <3> QED BY <1>2, <2>1, <3>2, <3>3
  <2> QED BY <1>4, <2>2, <2>3 DEF SessionInv, AllAborted
<1>12. DaemonComes'
  BY <1>2, <1>4 DEF SessionInv, DaemonComes, Referenced
<1> QED BY <1>5, <1>6, <1>7, <1>8, <1>9, <1>10, <1>11, <1>12 DEF SessionInv

(* The session drops its references: by now each thread has been aborted.  *)
LEMMA ThreadDeallocateInv ==
  ASSUME SessionInv, ThreadDeallocate
  PROVE  SessionInv'
<1>0. /\ g_current_thread = Main /\ TypeOK /\ crash = "no" /\ step = "dealloc"
      /\ Scheduled = runnable
      /\ \A k \in Handle : section[k] # "intact"
  BY MainFacts DEF ThreadDeallocate, SessionInv
<1>1. /\ step' = "run4" /\ slot' = [j \in Slot |-> None]
      /\ runnable' = runnable \union {Daemon}
      /\ UNCHANGED <<session, ready_for_preemption, g_current_thread, st,
                     thread, copy, section, providers, interrupts_enabled_,
                     fuel, crash>>
  BY DEF ThreadDeallocate
<1>2. Scheduled' = Scheduled \union {Daemon}
  BY <1>0, <1>1, ThreadsDiffer DEF Scheduled
<1>3. TypeOK'
  BY <1>0, <1>1 DEF TypeOK, Steps, thread, copy, providers
<1>4. QueueMatches' /\ MainWaits' /\ EndIsIdle' /\ NoneAtBoot'
  BY <1>0, <1>1, <1>2, ThreadsDiffer
     DEF SessionInv, QueueMatches, MainWaits, EndIsIdle, NoneAtBoot
<1>5. /\ SectionsInCalls' /\ SectionsNotPreempted' /\ ShapesInCalls'
      /\ CopyinCounterExact'
  BY <1>0, <1>1
     DEF SessionInv, SectionsInCalls, SectionsNotPreempted, ShapesInCalls,
         CopyinCounterExact, thread, copy
<1>6. ProvidersOutliveReaders' /\ ProvidersInPlace'
  BY <1>0, <1>1
     DEF SessionInv, ProvidersOutliveReaders, ProvidersInPlace, CreatingSteps,
         Steps, providers
<1>7. \A j \in Slot : /\ step \notin Waiting(j) /\ step' \notin Waiting(j)
                      /\ step' \notin Referring(j) /\ step \in Aborted(j)
  BY <1>0, <1>1 DEF Waiting, Referring, Aborted, Before
<1>8. SlotsInUse'
  BY <1>1, <1>7, ThreadsDiffer DEF SessionInv, SlotsInUse
<1>9. AllAborted'
  BY <1>1, <1>7 DEF SessionInv, AllAborted, thread
<1>10. DaemonComes'
  BY <1>2 DEF DaemonComes
<1> QED BY <1>3, <1>4, <1>5, <1>6, <1>8, <1>9, <1>10 DEF SessionInv

LEMMA KillInv ==
  ASSUME SessionInv, KillAllNonInitProcs
  PROVE  SessionInv'
<1>0. /\ g_current_thread = Main /\ TypeOK /\ crash = "no" /\ step = "kill"
      /\ Scheduled = runnable
      /\ \A k \in Handle : section[k] # "intact"
  BY MainFacts DEF KillAllNonInitProcs, SessionInv
<1>1. PICK woken \in SUBSET {h \in Handle : st[h] = "wait"} :
         /\ st' = [h \in Handle |-> IF h \in woken THEN "call" ELSE st[h]]
         /\ runnable' = runnable \union woken
  BY DEF KillAllNonInitProcs
<1>2. /\ step' = "run5" /\ interrupts_enabled_' = FALSE
      /\ UNCHANGED <<session, slot, ready_for_preemption, g_current_thread,
                     thread, copy, section, providers, fuel, crash>>
  BY DEF KillAllNonInitProcs, Goto
<1>3. Scheduled' = Scheduled \union woken
  BY <1>0, <1>1, <1>2, ThreadsDiffer DEF Scheduled
<1>4. TypeOK'
  BY <1>0, <1>1, <1>2 DEF TypeOK, Steps, Places, thread, copy, providers
<1>5. QueueMatches' /\ MainWaits' /\ EndIsIdle' /\ NoneAtBoot'
  BY <1>0, <1>1, <1>2, <1>3, ThreadsDiffer
     DEF SessionInv, QueueMatches, MainWaits, EndIsIdle, NoneAtBoot
<1>6. SectionsInCalls' /\ SectionsNotPreempted'
  BY <1>0, <1>1, <1>2 DEF SessionInv, SectionsInCalls, SectionsNotPreempted
<1>7. ShapesInCalls' /\ CopyinCounterExact'
  BY <1>1, <1>2 DEF SessionInv, ShapesInCalls, CopyinCounterExact, thread, copy
<1>8. ProvidersOutliveReaders' /\ ProvidersInPlace'
  BY <1>0, <1>2
     DEF SessionInv, ProvidersOutliveReaders, ProvidersInPlace, CreatingSteps,
         Steps, providers
<1>9. \A j \in Slot : /\ step \notin Waiting(j) /\ step' \notin Waiting(j)
                      /\ step' \notin Referring(j) /\ step \notin Referring(j)
                      /\ step \notin Aborted(j) /\ step' \notin Aborted(j)
  BY <1>0, <1>2 DEF Waiting, Referring, Aborted, Before
<1>10. SlotsInUse'
  BY <1>1, <1>2, <1>9 DEF SessionInv, SlotsInUse
<1>11. AllAborted'
  BY <1>1, <1>2, <1>9 DEF SessionInv, AllAborted, thread
<1>12. DaemonComes'
  BY <1>1, <1>2, <1>3 DEF SessionInv, DaemonComes, Referenced
<1> QED BY <1>4, <1>5, <1>6, <1>7, <1>8, <1>10, <1>11, <1>12 DEF SessionInv

LEMMA UnchangedSessionInv ==
  ASSUME SessionInv, UNCHANGED vars
  PROVE  SessionInv'
<1>1. UNCHANGED <<step, session, slot, ready_for_preemption, g_current_thread,
                  runnable, st, todo, shape, continued, aborting, old,
                  copyin_blocked_, skipped, section, xnu_fdp, thread_choices_,
                  interrupts_enabled_, fuel, crash>>
  BY DEF vars, main, thread, copy, providers
<1>2. TypeOK' /\ QueueMatches' /\ MainWaits' /\ ProvidersInPlace'
      /\ ProvidersOutliveReaders' /\ SectionsInCalls' /\ SectionsNotPreempted'
  BY <1>1 DEF SessionInv, TypeOK, QueueMatches, Scheduled, MainWaits,
              ProvidersInPlace, ProvidersOutliveReaders, SectionsInCalls,
              SectionsNotPreempted
<1>3. /\ ShapesInCalls' /\ CopyinCounterExact' /\ SlotsInUse' /\ AllAborted'
      /\ DaemonComes' /\ NoneAtBoot' /\ EndIsIdle'
  BY <1>1 DEF SessionInv, ShapesInCalls, CopyinCounterExact, SlotsInUse,
              AllAborted, DaemonComes, Scheduled, Referenced, NoneAtBoot, EndIsIdle
<1> QED BY <1>2, <1>3 DEF SessionInv

LEMMA NextSessionInv == SessionInv /\ [Next]_vars => SessionInv'
<1> SUFFICES ASSUME SessionInv, [Next]_vars PROVE SessionInv'
  OBVIOUS
<1>1. CASE MainStep
  BY <1>1, InitializeHostInv, QuietStepsInv, CreateInv, ClearTaskWaitInv,
     RunReturnsInv, MainPicksInv, ThreadAbortInv, ThreadDeallocateInv, KillInv
     DEF MainStep
<1>2. CASE DaemonRuns
  BY <1>2, DaemonInv
<1>3. CASE \E h \in Handle : ThreadStep(h)
  BY <1>3, ThreadStepInv
<1>4. CASE Stopped \/ UNCHANGED vars
  BY <1>4, UnchangedSessionInv DEF Stopped
<1> QED BY <1>1, <1>2, <1>3, <1>4 DEF Next
-----------------------------------------------------------------------------
(* session.cc, host.cc, osfmk_backend.c: the inductive invariant holds     *)
(* whatever the commands, the scheduling choices and the kernel do, over   *)
(* any number of sessions on the same kernel.                              *)
THEOREM SessionSafe == Spec => []SessionInv
BY InitSessionInv, NextSessionInv, PTL DEF Spec

(* session.cc: nobody draws from a data provider of an earlier session or  *)
(* of the boot, and no command thread finds xnu_fdp null.                  *)
THEOREM SessionProvidersOutliveReaders == Spec => []ProvidersOutliveReaders
<1>1. SessionInv => ProvidersOutliveReaders
  BY DEF SessionInv
<1> QED BY <1>1, SessionSafe, PTL

(* host.cc: BlockCopyin and UnblockCopyin, the longjmps past them and      *)
(* ThreadDestroyed keep the counter of every thread exact.                 *)
THEOREM SessionCopyinExact == Spec => []CopyinCounterExact
<1>1. SessionInv => CopyinCounterExact
  BY DEF SessionInv
<1> QED BY <1>1, SessionSafe, PTL

(* host.cc: Yield never takes the processor from code that has disabled    *)
(* interrupts.                                                             *)
THEOREM SessionSectionsNotPreempted == Spec => []SectionsNotPreempted
<1>1. SessionInv => SectionsNotPreempted
  BY DEF SessionInv
<1> QED BY <1>1, SessionSafe, PTL

(* session.cc: the aborts, the dropped references and the kill leave only  *)
(* threads in uninterruptible waits behind.                                *)
THEOREM SessionLeavesClean == Spec => []SessionEndsClean
<1>1. SessionInv => SessionEndsClean
  <2> SUFFICES ASSUME SessionInv, step = "end" PROVE SessionEndsClean
    BY DEF SessionEndsClean
  <2>1. g_current_thread = Main /\ runnable = {} /\ Scheduled = {}
    BY RunSteps DEF SessionInv, MainWaits, EndIsIdle, Scheduled
  <2>2. \A i \in Slot : /\ step \notin Referring(i) /\ step \notin Waiting(i)
                        /\ slot[i] \notin Handle
    BY DEF SessionInv, SlotsInUse, Referring, Waiting, Before
  <2>3. \A h \in Handle : /\ st[h] \in Places
                          /\ st[h] \notin {"user", "call", "disable", "delay"}
    BY <2>1 DEF SessionInv, TypeOK, QueueMatches
  <2>4. \A h \in Handle : st[h] # "new" /\ st[h] # "wait"
    BY <2>2 DEF SessionInv, SlotsInUse, AllAborted
  <2>5. \A h \in Handle : st[h] # "ended" /\ st[h] # "reaped"
    BY <2>1, <2>2 DEF SessionInv, DaemonComes, Referenced
  <2> QED BY <2>1, <2>3, <2>4, <2>5 DEF SessionEndsClean, Places
<1> QED BY <1>1, SessionSafe, PTL
-----------------------------------------------------------------------------
(* Sessions end: each step has less ahead of it.                           *)
LEMMA StepsLeftFacts ==
  /\ StepsLeft["boot"] = 3 /\ StepsLeft["bootrun"] = 2
  /\ StepsLeft["booted"] = 1 /\ StepsLeft["rest"] = 0
  /\ StepsLeft["clone1"] = 18 /\ StepsLeft["clone2"] = 17
  /\ StepsLeft["clone3"] = 16 /\ StepsLeft["clear1"] = 15
  /\ StepsLeft["clear2"] = 14 /\ StepsLeft["provide"] = 13
  /\ StepsLeft["run0"] = 12 /\ StepsLeft["abort1"] = 11
  /\ StepsLeft["run1"] = 10 /\ StepsLeft["abort2"] = 9
  /\ StepsLeft["run2"] = 8 /\ StepsLeft["abort3"] = 7
  /\ StepsLeft["run3"] = 6 /\ StepsLeft["dealloc"] = 5
  /\ StepsLeft["run4"] = 4 /\ StepsLeft["kill"] = 3
  /\ StepsLeft["run5"] = 2 /\ StepsLeft["end"] = 1
BY DEF StepsLeft

LEMMA StepsLeftNat == \A s \in Steps : StepsLeft[s] \in Nat
BY StepsLeftFacts DEF Steps

LEMMA PlaceLeftFacts ==
  /\ DOMAIN PlaceLeft = {"user", "call", "delay", "disable"}
  /\ PlaceLeft["user"] = 1 /\ PlaceLeft["call"] = 2
  /\ PlaceLeft["delay"] = 3 /\ PlaceLeft["disable"] = 4
BY DEF PlaceLeft

(* ToDo of one thread, by its place.                                       *)
InSection(h) == IF section[h] = "no" THEN 0 ELSE 1

ToDoKnown ==
    \A h \in Handle :
       /\ todo[h] \in Nat /\ ToDo[h] \in Nat
       /\ st[h] = "user" => ToDo[h] = 5 * todo[h] + 1 + InSection(h)
       /\ st[h] = "call" => ToDo[h] = 5 * todo[h] + 2 + InSection(h)
       /\ st[h] = "delay" => ToDo[h] = 5 * todo[h] + 3 + InSection(h)
       /\ st[h] = "disable" => ToDo[h] = 5 * todo[h] + 4 + InSection(h)
       /\ st[h] \notin {"user", "call", "delay", "disable"} => ToDo[h] = 0

LEMMA ToDoAt == TypeOK => ToDoKnown
<1> SUFFICES ASSUME TypeOK, NEW h \in Handle
    PROVE  /\ todo[h] \in Nat /\ ToDo[h] \in Nat
           /\ st[h] = "user" => ToDo[h] = 5 * todo[h] + 1 + InSection(h)
           /\ st[h] = "call" => ToDo[h] = 5 * todo[h] + 2 + InSection(h)
           /\ st[h] = "delay" => ToDo[h] = 5 * todo[h] + 3 + InSection(h)
           /\ st[h] = "disable" => ToDo[h] = 5 * todo[h] + 4 + InSection(h)
           /\ st[h] \notin {"user", "call", "delay", "disable"} => ToDo[h] = 0
  BY DEF ToDoKnown
<1>1. todo[h] \in Nat
  BY BoundsAssumption DEF TypeOK
<1>2. InSection(h) \in {0, 1}
  BY DEF InSection
<1>3. ToDo[h] = IF st[h] \in DOMAIN PlaceLeft
                THEN 5 * todo[h] + PlaceLeft[st[h]] + InSection(h) ELSE 0
  BY DEF ToDo, InSection
<1> QED BY <1>1, <1>2, <1>3, PlaceLeftFacts

LEMMA ToDoAtNext == TypeOK' => ToDoKnown'
BY ToDoAt, PTL

(* A thread whose place, commands and section stay has as much to do.      *)
LEMMA SameToDo ==
  ASSUME NEW k \in Handle, st'[k] = st[k], todo'[k] = todo[k],
         section'[k] = section[k]
  PROVE  ToDo'[k] = ToDo[k]
BY DEF ToDo

(* The places of the finest measures, of one step.                         *)
Lessens == /\ \A h \in Handle : ToDo'[h] <= ToDo[h]
           /\ \/ \E h \in Handle : ToDo'[h] < ToDo[h]
              \/ Daemon \in Scheduled /\ Scheduled' \subseteq Scheduled \ {Daemon}
              \/ /\ g_current_thread = Main /\ g_current_thread' # Main
                 /\ Scheduled' \subseteq Scheduled

Advances == \/ crash' # "no"
            \/ Ahead' < Ahead
            \/ Ahead' = Ahead /\ fuel' < fuel
            \/ Ahead' = Ahead /\ fuel' = fuel /\ Lessens

(* A step of thread h alone, that leaves main and the fuel as they are.    *)
LEMMA OneLessens ==
  ASSUME TypeOK, TypeOK', NEW h \in Handle, UNCHANGED <<main, fuel>>,
         \A k \in Handle \ {h} : /\ st'[k] = st[k] /\ todo'[k] = todo[k]
                                 /\ section'[k] = section[k],
         ToDo'[h] < ToDo[h]
  PROVE  Advances
<1>1. \A k \in Handle : ToDo[k] \in Nat /\ ToDo'[k] \in Nat
  BY ToDoAt, ToDoAtNext DEF ToDoKnown
<1>2. \A k \in Handle : ToDo'[k] <= ToDo[k]
  BY <1>1, SameToDo
<1>3. Ahead' = Ahead
  BY DEF main, Ahead
<1> QED BY <1>2, <1>3 DEF Advances, Lessens

LEMMA KernelAdvances ==
  ASSUME TypeOK, NEW h \in Handle, Kernel(h), UNCHANGED main
  PROVE  Advances
<1>1. fuel' < fuel
  BY BoundsAssumption DEF Kernel, TypeOK
<1>2. Ahead' = Ahead
  BY DEF main, Ahead
<1> QED BY <1>1, <1>2 DEF Advances

(* The command loop: a command less, or the thread is done.                *)
LEMMA CommandAdvances ==
  ASSUME SessionInv, SessionInv', NEW h \in Handle, NEW s,
         StartCommand(h, s) \/ ThreadFinished(h)
  PROVE  Advances
<1>0. /\ TypeOK /\ TypeOK' /\ st \in [Handle -> Places]
      /\ todo \in [Handle -> 0..Commands]
  BY DEF SessionInv, TypeOK
<1>1. CASE StartCommand(h, s) /\ old[h]
  BY <1>1 DEF StartCommand, Advances
<1>2. CASE StartCommand(h, s) /\ ~old[h]
  <2>1. /\ st[h] = "user" /\ st'[h] \in {"user", "call"}
        /\ todo'[h] = todo[h] - 1 /\ section' = section
        /\ \A k \in Handle \ {h} : st'[k] = st[k] /\ todo'[k] = todo[k]
        /\ UNCHANGED <<main, fuel>>
    BY <1>0, <1>2 DEF StartCommand, Running, Move
  <2>2. InSection(h)' = InSection(h) /\ InSection(h) \in {0, 1}
    BY <2>1 DEF InSection
  <2>3. ToDo'[h] < ToDo[h]
    BY <1>0, <2>1, <2>2, ToDoAt, ToDoAtNext DEF ToDoKnown
  <2> QED BY <1>0, <2>1, <2>3, OneLessens
<1>3. CASE ThreadFinished(h)
  <2>1. /\ st[h] = "user" /\ st'[h] = "ended"
        /\ todo' = todo /\ section' = section
        /\ \A k \in Handle \ {h} : st'[k] = st[k]
        /\ UNCHANGED <<main, fuel>>
    BY <1>0, <1>3 DEF ThreadFinished, Running, Move, thread
  <2>2. InSection(h) \in {0, 1}
    BY DEF InSection
  <2>3. ToDo'[h] < ToDo[h]
    BY <1>0, <2>1, <2>2, ToDoAt, ToDoAtNext DEF ToDoKnown
  <2> QED BY <1>0, <2>1, <2>3, OneLessens
<1> QED BY <1>1, <1>2, <1>3

(* A call that returns, by either way, and the steps inside it that cost   *)
(* the kernel nothing: disable and enable interrupts, end a delay.         *)
LEMMA CallAdvances ==
  ASSUME SessionInv, SessionInv', NEW h \in Handle,
         \/ ReturnToHandler(h) \/ SyscallReturn(h)
         \/ DisableInterrupts(h) \/ EndSection(h)
  PROVE  Advances
<1>0. /\ TypeOK /\ TypeOK' /\ st \in [Handle -> Places]
      /\ section \in [Handle -> {"no", "intact", "split"}]
      /\ st[h] = "disable" => section[h] = "no"
  BY DEF SessionInv, TypeOK, SectionsInCalls
<1>1. CASE ReturnToHandler(h) \/ SyscallReturn(h)
  <2>1. /\ st[h] = "call" /\ st'[h] = "user"
        /\ todo' = todo /\ section' = section /\ section[h] = "no"
        /\ \A k \in Handle \ {h} : st'[k] = st[k]
        /\ UNCHANGED <<main, fuel>>
    BY <1>0, <1>1 DEF ReturnToHandler, SyscallReturn, CallOver, Running, Move
  <2>2. InSection(h) = 0 /\ InSection(h)' = 0
    BY <2>1 DEF InSection
  <2>3. ToDo'[h] < ToDo[h]
    BY <1>0, <2>1, <2>2, ToDoAt, ToDoAtNext DEF ToDoKnown
  <2> QED BY <1>0, <2>1, <2>3, OneLessens
<1>2. CASE DisableInterrupts(h)
  <2>1. /\ st[h] = "disable" /\ st'[h] = "call" /\ section[h] = "no"
        /\ todo' = todo /\ section'[h] = "intact"
        /\ \A k \in Handle \ {h} : st'[k] = st[k] /\ section'[k] = section[k]
        /\ UNCHANGED <<main, fuel>>
    BY <1>0, <1>2 DEF DisableInterrupts, Running, Move, thread
  <2>2. InSection(h) = 0 /\ InSection(h)' = 1
    BY <2>1 DEF InSection
  <2>3. ToDo'[h] < ToDo[h]
    BY <1>0, <2>1, <2>2, ToDoAt, ToDoAtNext DEF ToDoKnown
  <2> QED BY <1>0, <2>1, <2>3, OneLessens
<1>3. CASE EndSection(h)
  <2>1. /\ st[h] = "call" /\ st' = st /\ section[h] # "no"
        /\ todo' = todo /\ section'[h] = "no"
        /\ \A k \in Handle \ {h} : section'[k] = section[k]
        /\ UNCHANGED <<main, fuel>>
    BY <1>0, <1>3 DEF EndSection, Running, thread
  <2>2. InSection(h) = 1 /\ InSection(h)' = 0
    BY <2>1 DEF InSection
  <2>3. ToDo'[h] < ToDo[h]
    BY <1>0, <2>1, <2>2, ToDoAt, ToDoAtNext DEF ToDoKnown
  <2> QED BY <1>0, <2>1, <2>3, OneLessens
<1> QED BY <1>1, <1>2, <1>3

(* A delay of less than a tick has a deadline that has passed already.     *)
LEMMA DelayAdvances ==
  ASSUME SessionInv, SessionInv', NEW h \in Handle, NEW ns \in Nat,
         ns < NSEC_PER_SEC, machine_delay_until(h, ns)
  PROVE  Advances
<1>0. TypeOK /\ TypeOK' /\ st \in [Handle -> Places]
  BY DEF SessionInv, TypeOK
<1>1. ~DelayGoesOn(clock_interval_to_absolutetime_interval(ns))
  BY DEF DelayGoesOn, clock_interval_to_absolutetime_interval,
         mach_absolute_time, NSEC_PER_SEC
<1>2. /\ st[h] = "delay" /\ st'[h] = "call"
      /\ todo' = todo /\ section' = section
      /\ \A k \in Handle \ {h} : st'[k] = st[k]
      /\ UNCHANGED <<main, fuel>>
  BY <1>0, <1>1 DEF machine_delay_until, Running, Move, thread
<1>3. InSection(h)' = InSection(h) /\ InSection(h) \in {0, 1}
  BY <1>2 DEF InSection
<1>4. ToDo'[h] < ToDo[h]
  BY <1>0, <1>2, <1>3, ToDoAt, ToDoAtNext DEF ToDoKnown
<1> QED BY <1>0, <1>2, <1>4, OneLessens

LEMMA ThreadAdvances ==
  ASSUME SessionInv, SessionInv', NEW h \in Handle, ThreadStep(h),
         \A ns \in DelayNanoseconds : ns < NSEC_PER_SEC
  PROVE  Advances
<1>0. TypeOK
  BY DEF SessionInv
<1>1. CASE \/ \E s \in Shapes : StartCommand(h, s)
           \/ ThreadFinished(h)
  BY <1>1, CommandAdvances
<1>2. CASE \/ ReturnToHandler(h) \/ SyscallReturn(h)
           \/ DisableInterrupts(h) \/ EndSection(h)
  BY <1>2, CallAdvances
<1>3. CASE \E ns \in DelayNanoseconds : machine_delay_until(h, ns)
  BY <1>3, BoundsAssumption, DelayAdvances
<1>4. CASE \/ KernelYield(h)
           \/ \E b \in StubBehaviours : CallStub(h, b)
           \/ EnablePreemption(h) \/ BeginSection(h) \/ StartDelay(h)
           \/ \E continuation \in BOOLEAN : Wait(h, continuation)
           \/ WaitUninterruptibly(h)
           \/ \E t \in Handle : Wake(h, t)
  <2>1. Kernel(h) /\ UNCHANGED main
    BY <1>4 DEF KernelYield, CallStub, EnablePreemption, BeginSection,
                StartDelay, Wait, WaitUninterruptibly, Wake
  <2> QED BY <1>0, <2>1, KernelAdvances
<1> QED BY <1>1, <1>2, <1>3, <1>4 DEF ThreadStep, KernelStep

(* The daemons change nothing for the threads that can run, and wait.      *)
LEMMA DaemonAdvances ==
  ASSUME SessionInv, DaemonRuns
  PROVE  Advances
<1>1. /\ g_current_thread = Daemon /\ Daemon # Main /\ Daemon \notin runnable
      /\ Scheduled = runnable \union {Daemon}
      /\ runnable \in SUBSET (Handle \union {Daemon})
      /\ thread_choices_ = "live"
  BY ThreadsDiffer, ThreadRuns
     DEF DaemonRuns, SessionInv, TypeOK, QueueMatches, Scheduled
<1>2. Scheduled' = runnable
  BY <1>1, LeaveFacts DEF DaemonRuns
<1>3. /\ Ahead' = Ahead /\ fuel' = fuel /\ todo' = todo /\ section' = section
  BY DEF DaemonRuns, main, Ahead
<1>4. \A k \in Handle : ToDo'[k] = ToDo[k] /\ ToDo[k] \in Nat
  <2> TAKE k \in Handle
  <2>1. \/ st'[k] = st[k]
        \/ st[k] \in {"ended", "reaped"} /\ st'[k] \in {"free", "reaped"}
    BY DEF DaemonRuns, Destroyed
  <2>2. TypeOK
    BY DEF SessionInv
  <2>3. CASE st'[k] = st[k]
    BY <1>3, <2>2, <2>3, SameToDo, ToDoAt DEF ToDoKnown
  <2>4. CASE st[k] \in {"ended", "reaped"} /\ st'[k] \in {"free", "reaped"}
    <3>1. ToDo'[k] = 0 /\ ToDo[k] = 0
      BY <2>4, PlaceLeftFacts DEF ToDo
    <3> QED BY <3>1
  <2> QED BY <2>1, <2>3, <2>4
<1> QED BY <1>1, <1>2, <1>3, <1>4 DEF Advances, Lessens

(* Main lets a thread run.                                                 *)
LEMMA MainPicksAdvances ==
  ASSUME SessionInv, RunOne \/ MainYield
  PROVE  Advances
<1>0. TypeOK
  BY DEF SessionInv
<1>1. /\ Pick(runnable, {}) /\ g_current_thread = Main
      /\ UNCHANGED <<main, st, thread, section, fuel>>
  BY DEF RunOne, MainYield, At, ThreadBlock
<1>2. /\ g_current_thread' \in runnable
      /\ runnable' = runnable \ {g_current_thread'}
  BY <1>1 DEF Pick
<1>3. g_current_thread' # Main /\ Scheduled' \subseteq Scheduled
  BY <1>0, <1>1, <1>2, ThreadsDiffer DEF Scheduled, TypeOK
<1>4. Ahead' = Ahead /\ fuel' = fuel /\ todo' = todo
  BY <1>1 DEF main, Ahead, thread
<1>5. \A k \in Handle : ToDo'[k] = ToDo[k] /\ ToDo[k] \in Nat
  BY <1>0, <1>1, <1>4, SameToDo, ToDoAt DEF ToDoKnown
<1> QED BY <1>1, <1>3, <1>4, <1>5 DEF Advances, Lessens

(* Main goes to a later statement.                                         *)
LEMMA GoesOn ==
  ASSUME TypeOK, NEW s \in Steps, step' = s, session' = session,
         StepsLeft[s] < StepsLeft[step]
  PROVE  Advances
<1>1. Sessions - session \in Int
  BY BoundsAssumption DEF TypeOK
<1>2. Ahead' = 20 * (Sessions - session) + StepsLeft[s]
  BY DEF Ahead
<1>3. StepsLeft[s] \in Nat /\ StepsLeft[step] \in Nat
  BY StepsLeftNat DEF TypeOK
<1>4. Ahead' < Ahead
  BY <1>1, <1>2, <1>3 DEF Ahead
<1> QED BY <1>4 DEF Advances

LEMMA MainAdvances ==
  ASSUME SessionInv, MainStep
  PROVE  Advances
<1>0. TypeOK
  BY DEF SessionInv
<1>1. CASE InitializeHost \/ Booted \/ SetProviders \/ ThreadDeallocate
           \/ KillAllNonInitProcs \/ EndSession
  <2>1. /\ session' = session
        /\ \/ step = "boot" /\ step' = "bootrun"
           \/ step = "booted" /\ step' = "rest"
           \/ step = "provide" /\ step' = "run0"
           \/ step = "dealloc" /\ step' = "run4"
           \/ step = "kill" /\ step' = "run5"
           \/ step = "end" /\ step' = "rest"
    BY <1>1 DEF InitializeHost, Booted, SetProviders, ThreadDeallocate,
                KillAllNonInitProcs, EndSession, At, Goto
  <2>2. StepsLeft[step'] < StepsLeft[step] /\ step' \in Steps
    BY <2>1, StepsLeftFacts DEF Steps
  <2> QED BY <1>0, <2>1, <2>2, GoesOn
<1>2. CASE (\E n \in 0..Commands : CreateCommandThread(n)) \/ ClearTaskWait
           \/ ThreadAbort
  <2>1. /\ DOMAIN CloneSteps = {"clone1", "clone2", "clone3"}
        /\ DOMAIN AbortSteps = {"abort1", "abort2", "abort3"}
    BY DEF CloneSteps, AbortSteps
  <2>2. /\ session' = session
        /\ \/ step = "clone1" /\ step' = "clone2"
           \/ step = "clone2" /\ step' = "clone3"
           \/ step = "clone3" /\ step' = "clear1"
           \/ step = "clear1" /\ step' = "clear2"
           \/ step = "clear2" /\ step' = "provide"
           \/ step = "abort1" /\ step' = "run1"
           \/ step = "abort2" /\ step' = "run2"
           \/ step = "abort3" /\ step' = "run3"
    BY <1>2, <2>1 DEF CreateCommandThread, ClearTaskWait, ThreadAbort, At, Goto
  <2>3. StepsLeft[step'] < StepsLeft[step] /\ step' \in Steps
    BY <2>2, StepsLeftFacts DEF Steps
  <2> QED BY <1>0, <2>2, <2>3, GoesOn
<1>3. CASE RunReturns
  <2>1. /\ session' = session
        /\ step \in DOMAIN AfterRun /\ step' = AfterRun[step]
    BY <1>3 DEF RunReturns, Goto
  <2>2. StepsLeft[step'] < StepsLeft[step] /\ step' \in Steps
    BY <2>1, RunSteps, StepsLeftFacts DEF Steps
  <2> QED BY <1>0, <2>1, <2>2, GoesOn
<1>4. CASE BeginSession
  <2>1. /\ session' = session + 1 /\ step = "rest" /\ step' = "clone1"
        /\ session \in Nat /\ Sessions \in Nat
    BY <1>0, <1>4, BoundsAssumption DEF BeginSession, At, TypeOK
  <2>2. /\ Ahead = 20 * (Sessions - session)
        /\ Ahead' = 20 * (Sessions - (session + 1)) + 18
    BY <2>1, StepsLeftFacts DEF Ahead
  <2>3. Ahead' < Ahead
    BY <2>1, <2>2
  <2> QED BY <2>3 DEF Advances
<1>5. CASE RunOne \/ MainYield
  BY <1>5, MainPicksAdvances
<1> QED BY <1>1, <1>2, <1>3, <1>4, <1>5 DEF MainStep

(* No step of a session is for nothing, when kernel code asks for delays   *)
(* of less than a second: with a bound on what the kernel does inside the  *)
(* calls, RunUntilEmpty comes back each time and HandleSession ends.       *)
THEOREM SessionEachStepAdvances ==
  ASSUME \A ns \in DelayNanoseconds : ns < NSEC_PER_SEC
  PROVE  Spec => SessionAdvances
<1>1. ASSUME SessionInv, SessionInv', [Next]_vars
      PROVE  [Advances]_vars
  <2>1. CASE UNCHANGED vars \/ Stopped
    BY <2>1 DEF Stopped
  <2>2. CASE MainStep
    BY <1>1, <2>2, MainAdvances
  <2>3. CASE DaemonRuns
    BY <1>1, <2>3, DaemonAdvances
  <2>4. CASE \E h \in Handle : ThreadStep(h)
    BY <1>1, <2>4, ThreadAdvances
  <2> QED BY <1>1, <2>1, <2>2, <2>3, <2>4 DEF Next
<1>2. SessionInv /\ SessionInv' /\ [Next]_vars =>
        [\/ crash' # "no"
         \/ Ahead' < Ahead
         \/ Ahead' = Ahead /\ fuel' < fuel
         \/ /\ Ahead' = Ahead /\ fuel' = fuel
            /\ \A h \in Handle : ToDo'[h] <= ToDo[h]
            /\ \/ \E h \in Handle : ToDo'[h] < ToDo[h]
               \/ Daemon \in Scheduled /\ Scheduled' \subseteq Scheduled \ {Daemon}
               \/ /\ g_current_thread = Main /\ g_current_thread' # Main
                  /\ Scheduled' \subseteq Scheduled]_vars
  BY <1>1 DEF Advances, Lessens
<1> QED BY <1>2, SessionSafe, PTL DEF Spec, SessionAdvances
=============================================================================
