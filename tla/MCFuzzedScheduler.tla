------------------------- MODULE MCFuzzedScheduler -------------------------
(***************************************************************************)
(* FuzzedScheduler with a bounded client: between them the threads perform *)
(* at most Fuel calls, after which each one can only block or return.      *)
(* Bounded activity is what a session grants (its command list is finite); *)
(* nothing else about the clients or the picks is assumed to be fair.      *)
(***************************************************************************)
EXTENDS FuzzedScheduler

CONSTANT Fuel

ASSUME FuelAssumption == Fuel \in Nat

VARIABLE fuel

BoundedInit == Init /\ fuel = Fuel

Spend == fuel > 0 /\ fuel' = fuel - 1
Free  == UNCHANGED fuel

BoundedNext == \/ \E h \in Handle, r \in BOOLEAN : Spend /\ CreateThread(h, r)
               \/ \E h \in Entry : Spend /\ MakeRunnable(h)
               \/ \E h \in Handle \union {Main} : Spend /\ MakeNotRunnable(h)
               \/ \E b \in BOOLEAN : Spend /\ SetInterruptsEnabled(b)
               \/ \E h \in Handle : Spend /\ ThreadDestroyed(h)
               \/ Spend /\ Yield
               \/ Spend /\ RunUntilEmpty
               \/ \E b \in BOOLEAN : Spend /\ ChooseThread(b)
               \/ Free /\ ThreadReturns
               \/ Free /\ Block
               \/ Free /\ RunOne
               \/ Free /\ CleanupDeadThreads
               \/ Free /\ Choose
               \/ Free /\ Stopped

BoundedSpec == /\ BoundedInit
               /\ [][BoundedNext]_<<vars, fuel>>
               /\ WF_<<vars, fuel>>(BoundedNext)

(* What the loops use up: entries of the queue, a ChooseThread in          *)
(* progress, the child on the processor, RunUntilEmpty on main's stack,    *)
(* the program itself.                                                     *)
Ones(b) == IF b THEN 1 ELSE 0

Work == 2 * Len(runnable_) + 2 * Ones(choosing # "no")
        + Ones(g_current_thread # Main) + Ones(main_loop) + Ones(~aborted)

(* No call brings in more than two units of work.                          *)
Variant == 3 * fuel + Work

(* No picking loop spins: every step, those of the two loops that meet     *)
(* dead handles or queue their caller again included, consumes part of     *)
(* what the clients' Fuel calls brought in.                                *)
EveryStepConsumes == [][Variant' < Variant]_<<vars, fuel>>

(* RunUntilEmpty is left only with an empty queue and every stack that is  *)
(* still mapped belonging to a live thread.                                *)
LoopLeavesNothing ==
    [][main_loop /\ ~main_loop' => runnable_' = <<>> /\ stacks' = live_set_']_vars

(* RunUntilEmpty returns, with the queue drained and every dead thread's   *)
(* stack unmapped, whatever threads are created, woken, killed or parked   *)
(* while it runs; only an abort() inside the loop prevents it.             *)
RunUntilEmptyReturns ==
    main_loop ~> \/ main_loop /\ aborted
                 \/ ~main_loop /\ runnable_ = <<>> /\ stacks = live_set_
=============================================================================
