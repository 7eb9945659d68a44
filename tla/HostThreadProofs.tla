-------------------------- MODULE HostThreadProofs --------------------------
(***************************************************************************)
(* The Host loses no thread and calls no continuation out of place, for    *)
(* any number of threads, in either build; without suspension a wait ends  *)
(* by a wakeup only and reaped threads stay off the processor; if nobody   *)
(* wakes itself either, the debug build's checks hold.                     *)
(***************************************************************************)
EXTENDS HostThread, TLAPS

LEMMA InitHostInv == Init => HostInv
BY MainAssumption
   DEF Init, HostInv, TypeOK, WakeResult, At, RunsAtRun, FlagsOfWaits,
       NoThreadLost, Live, ContinuationsArePending, NoneSuspended, QueuedOnce,
       WaitEndsByWakeup, ReapedNeverRun

LEMMA CreateThreadInv ==
  ASSUME HostInv, NEW t \in Thread, NEW c \in BOOLEAN, CreateThread(t, c)
  PROVE  HostInv'
BY MainAssumption
   DEF CreateThread, flags, ending, suspension, HostInv, TypeOK, At,
       RunsAtRun, FlagsOfWaits, NoThreadLost, Live, ContinuationsArePending,
       NoneSuspended, QueuedOnce, WaitEndsByWakeup, ReapedNeverRun

LEMMA MarkWaitInv ==
  ASSUME HostInv, NEW i \in BOOLEAN, NEW r \in BOOLEAN,
         ThreadMarkWaitLocked(i, r)
  PROVE  HostInv'
<1>1. /\ current \in Thread
      /\ current \notin waiting_ \union uninterruptible_ \union wait_report_
  BY DEF ThreadMarkWaitLocked, HostInv, TypeOK, FlagsOfWaits
<1>2. CASE Debug /\ current \in enqueued_for_termination_
  BY <1>1, <1>2
     DEF ThreadMarkWaitLocked, Abort, flags, ending, suspension, HostInv,
         TypeOK, RunsAtRun, FlagsOfWaits, NoThreadLost, Live,
         ContinuationsArePending, NoneSuspended, QueuedOnce, ReapedNeverRun
<1>3. CASE ~(Debug /\ current \in enqueued_for_termination_)
  BY <1>1, <1>3, MainAssumption
     DEF ThreadMarkWaitLocked, ending, suspension, HostInv, TypeOK, WakeResult,
         RunsAtRun, FlagsOfWaits, NoThreadLost, Live, ContinuationsArePending,
         NoneSuspended, QueuedOnce, WaitEndsByWakeup, ReapedNeverRun
<1> QED BY <1>2, <1>3

LEMMA MarkInterruptedInv ==
  ASSUME HostInv, MarkWaitInterrupted
  PROVE  HostInv'
BY MainAssumption
   DEF MarkWaitInterrupted, flags, ending, suspension, HostInv, TypeOK,
       WakeResult, RunsAtRun, FlagsOfWaits, NoThreadLost, Live,
       ContinuationsArePending, NoneSuspended, QueuedOnce, WaitEndsByWakeup,
       ReapedNeverRun

LEMMA ThreadWakeupInv ==
  ASSUME HostInv, NEW t \in Thread, NEW r \in WakeResult, ThreadWakeup(t, r)
  PROVE  HostInv'
<1>1. /\ t \in waiting_ /\ t \notin terminating_ /\ (t # current \/ SelfWake)
      /\ waiting_' = waiting_ \ {t} /\ uninterruptible_' = uninterruptible_ \ {t}
      /\ wait_report_' = wait_report_ \ {t}
      /\ wait_results_' = [wait_results_ EXCEPT ![t] = r]
      /\ runnable' = runnable \union {t} /\ current' = current
      /\ terminating_' = terminating_
      /\ enqueued_for_termination_' = enqueued_for_termination_
      /\ suspended_' = suspended_ /\ suspended_runnable_' = suspended_runnable_
      /\ continuations_' = continuations_ /\ at' = at /\ aborted' = aborted
      /\ given' \in {given, [given EXCEPT ![t] = r]}
  BY DEF ThreadWakeup, ClearWait, ending, suspension
<1>2. TypeOK'
  BY <1>1 DEF HostInv, TypeOK
<1>3. at[t] # "none"
  BY <1>1 DEF HostInv, FlagsOfWaits, Live
<1>4. RunsAtRun' /\ FlagsOfWaits' /\ ContinuationsArePending'
  BY <1>1, <1>3 DEF HostInv, RunsAtRun, FlagsOfWaits, ContinuationsArePending, Live
<1>5. NoThreadLost'
  BY <1>1 DEF HostInv, NoThreadLost, Live
<1>6. ASSUME NoneSuspended PROVE NoneSuspended'
  <2>1. t \notin enqueued_for_termination_
    BY <1>1, <1>6 DEF NoneSuspended, ReapedNeverRun
  <2> QED BY <1>1, <1>6, <2>1 DEF NoneSuspended, WaitEndsByWakeup, ReapedNeverRun
<1>7. ASSUME QueuedOnce, ~SelfWake PROVE QueuedOnce'
  BY <1>1, <1>7 DEF QueuedOnce
<1> QED BY <1>2, <1>4, <1>5, <1>6, <1>7 DEF HostInv

LEMMA BlockInv ==
  ASSUME HostInv, Block
  PROVE  HostInv'
BY MainAssumption
   DEF Block, ending, suspension, HostInv, TypeOK, At, RunsAtRun,
       FlagsOfWaits, NoThreadLost, Live, ContinuationsArePending, NoneSuspended, QueuedOnce,
       WaitEndsByWakeup, ReapedNeverRun

LEMMA LockReleasedInv ==
  ASSUME HostInv, NEW t \in Thread, LockReleased(t)
  PROVE  HostInv'
BY MainAssumption
   DEF LockReleased, flags, ending, suspension, HostInv, TypeOK, RunsAtRun,
       FlagsOfWaits, NoThreadLost, Live, ContinuationsArePending, NoneSuspended, QueuedOnce,
       WaitEndsByWakeup, ReapedNeverRun

LEMMA TerminateInv ==
  ASSUME HostInv, Terminate
  PROVE  HostInv'
BY MainAssumption
   DEF Terminate, flags, suspension, HostInv, TypeOK, RunsAtRun,
       FlagsOfWaits, NoThreadLost, Live, ContinuationsArePending, NoneSuspended, QueuedOnce,
       WaitEndsByWakeup, ReapedNeverRun

LEMMA ThreadDestroyedInv ==
  ASSUME HostInv, NEW t \in Thread, ThreadDestroyed(t)
  PROVE  HostInv'
BY MainAssumption
   DEF ThreadDestroyed, HostInv, TypeOK, At, WakeResult, RunsAtRun,
       FlagsOfWaits, NoThreadLost, Live, ContinuationsArePending, NoneSuspended, QueuedOnce,
       WaitEndsByWakeup, ReapedNeverRun

LEMMA SuspendInv ==
  ASSUME HostInv, NEW t \in Thread, SetSuspended(t) \/ SetNotSuspended(t)
  PROVE  HostInv'
BY MainAssumption
   DEF SetSuspended, SetNotSuspended, flags, ending, HostInv, TypeOK,
       RunsAtRun, FlagsOfWaits, NoThreadLost, Live, ContinuationsArePending

LEMMA KeepRunningInv ==
  ASSUME HostInv, current # Main, NEW c \in SUBSET Thread,
         c \subseteq continuations_ \union {current}, KeepRunning(c)
  PROVE  HostInv'
BY MainAssumption
   DEF KeepRunning, flags, ending, suspension, HostInv, TypeOK, RunsAtRun,
       FlagsOfWaits, NoThreadLost, Live, ContinuationsArePending, NoneSuspended, QueuedOnce,
       WaitEndsByWakeup, ReapedNeverRun

(* The processor goes from a child to a queued thread h, or to Main.       *)
LEMMA SwitchAwayInv ==
  ASSUME HostInv, ~aborted, current # Main,
         NEW p \in {"ThreadBlock", "Yield"}, p = "Yield" => current \notin waiting_,
         NEW c \in SUBSET Thread, c \subseteq continuations_ \union {current},
         p = "Yield" => c = continuations_,
         given' \in [Thread -> WakeResult \union {"NONE"}],
         SwitchAway(p, c)
  PROVE  HostInv'
<1>1. PICK h \in (runnable \ {current}) \union {Main} :
         SwitchFrom(runnable \ {h}) /\ Resume(h, p, c)
  BY DEF SwitchAway
<1>2. /\ terminating_' = terminating_ /\ suspended_' = suspended_
      /\ suspended_runnable_' = suspended_runnable_ /\ aborted' = aborted
      /\ current' = h /\ h # current /\ current \in Thread
      /\ h \in Thread \union {Main} /\ continuations_' = c \ {h}
      /\ waiting_' = waiting_ \ {h} /\ uninterruptible_' = uninterruptible_ \ {h}
      /\ wait_report_' = wait_report_ \ {h}
  BY <1>1, MainAssumption
     DEF SwitchAway, Resume, ClearWait, suspension, flags, HostInv, TypeOK
<1>3. at' = [t \in Thread |-> IF t = h THEN "run"
                              ELSE IF t = current THEN p ELSE at[t]]
  BY <1>1 DEF Resume
<1>4. /\ runnable' = IF current \in waiting_ THEN runnable \ {h, current}
                      ELSE (runnable \ {h}) \union {current}
      /\ enqueued_for_termination_' =
            IF current \in waiting_
            THEN enqueued_for_termination_ \union ({current} \intersect terminating_)
            ELSE enqueued_for_termination_
  BY <1>1, <1>2 DEF SwitchFrom
<1>5. TypeOK'
  <2>1. wait_results_' \in [Thread -> WakeResult \union {"WAITING"}]
    BY <1>1, MainAssumption
       DEF Resume, ClearWait, flags, HostInv, TypeOK, WakeResult
  <2> QED BY <1>2, <1>3, <1>4, <2>1 DEF HostInv, TypeOK, At
<1>6. RunsAtRun' /\ FlagsOfWaits'
  BY <1>2, <1>3, <1>4, MainAssumption
     DEF HostInv, TypeOK, RunsAtRun, FlagsOfWaits, Live
<1>7. NoThreadLost'
  BY <1>2, <1>3, <1>4, MainAssumption
     DEF HostInv, TypeOK, NoThreadLost, RunsAtRun, Live
<1>8. ContinuationsArePending'
  BY <1>2, <1>3, MainAssumption
     DEF HostInv, TypeOK, ContinuationsArePending, RunsAtRun
<1>9. ASSUME NoneSuspended PROVE NoneSuspended'
  <2>1. h \notin enqueued_for_termination_
    BY <1>1, <1>9, MainAssumption DEF NoneSuspended, ReapedNeverRun, HostInv, TypeOK
  <2>2. current \notin enqueued_for_termination_
    BY <1>9 DEF NoneSuspended, ReapedNeverRun
  <2>4. WaitEndsByWakeup'
    BY <1>2, <1>3, <1>4, <1>9 DEF NoneSuspended, WaitEndsByWakeup, HostInv, TypeOK
  <2>5. ReapedNeverRun'
    BY <1>2, <1>4, <1>9, <2>1 DEF NoneSuspended, ReapedNeverRun
  <2>6. \A t \in enqueued_for_termination_' : at'[t] = "ThreadBlock"
    <3> SUFFICES ASSUME NEW t \in enqueued_for_termination_'
                 PROVE  at'[t] = "ThreadBlock"
      OBVIOUS
    <3>1. CASE t = current
      BY <1>2, <1>3, <1>4, <2>2, <3>1
    <3>2. CASE t # current
      BY <1>2, <1>3, <1>4, <1>9, <2>1, <3>2 DEF NoneSuspended, HostInv, TypeOK
    <3> QED BY <3>1, <3>2
  <2> QED BY <1>2, <1>9, <2>4, <2>5, <2>6 DEF NoneSuspended
<1>10. QueuedOnce'
  BY <1>2, <1>4 DEF QueuedOnce
<1> QED BY <1>5, <1>6, <1>7, <1>8, <1>9, <1>10 DEF HostInv

LEMMA RunOneInv ==
  ASSUME HostInv, RunOne
  PROVE  HostInv'
<1>1. PICK h \in runnable :
         runnable' = runnable \ {h} /\ Resume(h, "run", continuations_)
  BY DEF RunOne
<1>2. /\ ending' = ending /\ suspended_' = suspended_
      /\ suspended_runnable_' = suspended_runnable_ /\ aborted' = aborted
      /\ given' = given /\ current = Main /\ current' = h /\ h \in Thread
      /\ h # Main /\ continuations_' = continuations_ \ {h}
      /\ waiting_' = waiting_ \ {h} /\ uninterruptible_' = uninterruptible_ \ {h}
      /\ wait_report_' = wait_report_ \ {h}
      /\ wait_results_' = [wait_results_ EXCEPT ![h] = "AWAKENED"]
  BY <1>1, MainAssumption
     DEF RunOne, Resume, ClearWait, suspension, HostInv, TypeOK
<1>3. at' = [at EXCEPT ![h] = "run"]
  BY <1>1, <1>2, MainAssumption DEF Resume, HostInv, TypeOK
<1> QED
  BY <1>1, <1>2, <1>3, MainAssumption
     DEF ending, HostInv, TypeOK, At, WakeResult, RunsAtRun, FlagsOfWaits,
         NoThreadLost, Live, ContinuationsArePending, NoneSuspended, QueuedOnce,
         WaitEndsByWakeup, ReapedNeverRun

LEMMA NextHostInv == HostInv /\ [Next]_vars => HostInv'
<1> SUFFICES ASSUME HostInv, [Next]_vars PROVE HostInv'
  OBVIOUS
<1>1. ASSUME NEW c \in BOOLEAN, ThreadBlock(c) PROVE HostInv'
  <2> DEFINE C == IF c THEN continuations_ \union {current}
                       ELSE continuations_ \ {current}
  <2>1. /\ current # Main /\ current \in Thread /\ ~aborted
        /\ C \in SUBSET Thread /\ C \subseteq continuations_ \union {current}
    BY <1>1 DEF ThreadBlock, HostInv, TypeOK
  <2>2. CASE SwitchAway("ThreadBlock", C) /\ UNCHANGED given
    BY <2>1, <2>2, SwitchAwayInv DEF HostInv, TypeOK
  <2>3. CASE KeepRunning(C)
    BY <2>1, <2>3, KeepRunningInv
  <2> QED BY <1>1, <2>2, <2>3 DEF ThreadBlock
<1>2. ASSUME Yield PROVE HostInv'
  <2>1. /\ current # Main /\ current \in Thread /\ ~aborted
        /\ current \notin waiting_
        /\ continuations_ \in SUBSET Thread
    BY <1>2 DEF Yield, HostInv, TypeOK
  <2>2. CASE SwitchAway("Yield", continuations_)
             /\ given' = [given EXCEPT ![current] = "NONE"]
    BY <2>1, <2>2, SwitchAwayInv DEF HostInv, TypeOK
  <2>3. CASE KeepRunning(continuations_)
    BY <2>1, <2>3, KeepRunningInv
  <2> QED BY <1>2, <2>2, <2>3 DEF Yield
<1>3. ASSUME UNCHANGED vars PROVE HostInv'
  BY <1>3 DEF vars, flags, ending, suspension, HostInv, TypeOK, RunsAtRun,
     FlagsOfWaits, NoThreadLost, Live, ContinuationsArePending, NoneSuspended, QueuedOnce,
     WaitEndsByWakeup, ReapedNeverRun
<1> QED BY <1>1, <1>2, <1>3, CreateThreadInv, MarkWaitInv, MarkInterruptedInv,
           ThreadWakeupInv, BlockInv, LockReleasedInv, RunOneInv, TerminateInv,
           ThreadDestroyedInv, SuspendInv DEF Next, Stopped

(* The invariant of the Host's thread state.                               *)
THEOREM HostSafe == Spec => []HostInv
BY InitHostInv, NextHostInv, PTL DEF Spec

(* No thread is lost, with or without self-wakeups and suspension.         *)
THEOREM HostLosesNoThread == Spec => []NoThreadLost
<1>1. HostInv => NoThreadLost
  BY DEF HostInv
<1> QED BY <1>1, HostSafe, PTL

(* A continuation belongs to the block that set it, for all calls: no      *)
(* preempted or lock-blocked thread has its frames replaced by one.        *)
THEOREM HostContinuationsPending == Spec => []ContinuationsArePending
<1>1. HostInv => ContinuationsArePending
  BY DEF HostInv
<1> QED BY <1>1, HostSafe, PTL

(* The checks of the debug build hold for the calls that reach the Host.   *)
THEOREM HostDebugChecks == Spec => []DebugChecksPass
<1>1. HostInv => DebugChecksPass
  BY DEF HostInv, DebugChecksPass, QueuedOnce
<1> QED BY <1>1, HostSafe, PTL

(* Without suspension a wait lasts until its wakeup.                       *)
THEOREM HostWaitsLast ==
  Spec => [](Suspension \/ WaitEndsByWakeup)
<1>1. HostInv => Suspension \/ WaitEndsByWakeup
  BY DEF HostInv, NoneSuspended
<1> QED BY <1>1, HostSafe, PTL

(* Without suspension a thread that was handed to the reaper is neither    *)
(* current nor queued again.                                               *)
THEOREM HostReapedNeverRun ==
  Spec => [](Suspension \/ ReapedNeverRun)
<1>1. HostInv => Suspension \/ ReapedNeverRun
  BY DEF HostInv, NoneSuspended
<1> QED BY <1>1, HostSafe, PTL
=============================================================================
