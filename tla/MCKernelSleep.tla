--------------------------- MODULE MCKernelSleep ---------------------------
(***************************************************************************)
(* KernelSleep with bounded activity: the calls, the timeouts and the      *)
(* interruptions are at most Fuel together.                                *)
(***************************************************************************)
EXTENDS KernelSleep, Naturals

CONSTANT Fuel

ASSUME FuelAssumption == Fuel \in Nat

VARIABLE fuel

Spend == fuel > 0 /\ fuel' = fuel - 1

BoundedInit == Init /\ fuel = Fuel

(* Nobody is left but threads outside and threads asleep.                  *)
Quiet == /\ cpu = Main /\ \A t \in Thread : ~Ready(t)
         /\ UNCHANGED <<vars, fuel>>

BoundedNext ==
    \/ \E t \in Thread : RunOne(t) /\ UNCHANGED fuel
    \/ \E t \in Thread, wakes \in BOOLEAN, mode \in Mode : Spend /\ Begin(t, wakes, mode)
    \/ \E t \in Thread : Spend /\ AssertWaitInterrupted(t)
    \/ \E t \in Thread : Spend /\ PrepareInterrupted(t)
    \/ \E t \in Thread : Spend /\ WaitEnds(t)
    \/ \E t \in Thread : Step(t) /\ UNCHANGED fuel
    \/ Quiet

BoundedSpec == /\ BoundedInit
               /\ [][BoundedNext]_<<vars, fuel>>
               /\ WF_<<vars, fuel>>(BoundedNext)

(* Once the condition holds, the processor always gets to a point where it *)
(* was used or nobody sleeps: the locks taken on the way back from a sleep *)
(* and around a wakeup block nobody for good.                              *)
WakeupArrives == condition ~> (~condition \/ waitq = {})
-----------------------------------------------------------------------------
(* Safety behind WakeupArrives: where the threads stand when nobody can    *)
(* run, and what every step uses up.                                       *)

(* The lock, the bucket lock and the wait queue never leave anybody        *)
(* waiting for a thread that waits itself: when the processor has nobody   *)
(* to go to, every thread is outside or asleep, and nobody sleeps on a     *)
(* condition that holds.  A thread that has the processor can go on.       *)
OnlySleepersWait ==
    /\ cpu # Main => Ready(cpu)
    /\ cpu = Main /\ (\A t \in Thread : ~Ready(t))
          => /\ \A t \in Thread : pc[t] = "out" \/ (pc[t] = "blocked" /\ t \in waitq)
             /\ ~condition \/ waitq = {}

(* How far a waker, and how far a sleeper, is from its end.                *)
WakerLeft(p) == CASE p = "lock" -> 7 [] p = "test" -> 6 [] p = "release" -> 5
                  [] p = "wake_bucket" -> 4 [] p = "wake" -> 3
                  [] p \in {"wakeup", "wake_complete"} -> 2
                  [] p = "unlock" -> 1 [] OTHER -> 0

SleeperLeft(p, waits) ==
    CASE p = "blocked" /\ ~waits -> 10 [] p = "complete" -> 9
      [] p \in {"lock", "reclaim"} -> 8 [] p = "test" -> 7
      [] p \in {"sleep", "bucket"} -> 6 [] p \in {"asserted", "drop"} -> 5
      [] p = "prepare" -> 4 [] p = "block" -> 3 [] p = "blocked" /\ waits -> 2
      [] p = "unlock" -> 1 [] OTHER -> 0

wakersLeft == [t \in Thread |-> IF t \in waker THEN WakerLeft(pc[t]) ELSE 0]
sleepersLeft ==
    [t \in Thread |-> IF t \in waker THEN 0 ELSE SleeperLeft(pc[t], t \in waitq)]

Below(f, g) == /\ \A t \in Thread : f[t] <= g[t]
               /\ \E t \in Thread : f[t] < g[t]

(* Sleepers that are woken in vain and sleep again cannot keep each other  *)
(* busy: each step spends a call or an interruption, or brings a waker     *)
(* closer to its end, or, the wakers standing still, brings a sleeper      *)
(* closer to its next sleep, or, all standing still, is the dispatch of a  *)
(* thread that takes such a step.                                          *)
SleepersSettle ==
    [][\/ fuel' < fuel
       \/ fuel' = fuel /\ Below(wakersLeft', wakersLeft)
       \/ UNCHANGED <<fuel, wakersLeft>> /\ Below(sleepersLeft', sleepersLeft)
       \/ /\ UNCHANGED <<fuel, wakersLeft, sleepersLeft>>
          /\ cpu = Main /\ cpu' # Main]_<<vars, fuel>>
=============================================================================
