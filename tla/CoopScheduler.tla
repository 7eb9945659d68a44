--------------------------- MODULE CoopScheduler ---------------------------
(***************************************************************************)
(* What the scheduler promises to the code that runs on it: one processor, *)
(* handed from thread to thread only at explicit switch points, and only   *)
(* to a live thread that somebody made ready.  How the ready threads are   *)
(* stored, when dead handles are purged and when stacks are unmapped is    *)
(* the business of FuzzedScheduler, which implements this specification.   *)
(***************************************************************************)
CONSTANTS Handle,   \* handles a thread may have
          Main      \* the main thread's handle

VARIABLES alive,    \* threads that exist and have not been destroyed
          ready,    \* live threads waiting for the processor
          running   \* the thread that has the processor

vars == <<alive, ready, running>>

Init == alive = {} /\ ready = {} /\ running = Main

Spawn(t) == /\ t \in Handle \ alive
            /\ alive' = alive \union {t}
            /\ ready' \in {ready, ready \union {t}}
            /\ UNCHANGED running

Wake(t) == /\ t \in alive
           /\ ready' = ready \union {t}
           /\ UNCHANGED <<alive, running>>

Unready(t) == /\ ready' = ready \ {t}
              /\ UNCHANGED <<alive, running>>

(* The processor leaves the running thread, which queues again or parks.   *)
Switch(t) == /\ t \in (ready \union {Main}) \ {running}
             /\ running' = t
             /\ \/ ready' = ready \ {t, running}
                \/ running # Main /\ ready' = (ready \ {t}) \union {running}
                \/ ready' = ready \ {t}
             /\ UNCHANGED alive

Exit == /\ running # Main
        /\ alive' = alive \ {running}
        /\ ready' = ready \ {running}
        /\ running' = Main

Kill(t) == /\ t \in alive \ {running}
           /\ alive' = alive \ {t}
           /\ ready' = ready \ {t}
           /\ UNCHANGED running

Next == \/ \E t \in Handle : Spawn(t) \/ Wake(t) \/ Unready(t) \/ Kill(t)
        \/ \E t \in Handle \union {Main} : Switch(t)
        \/ Exit

Spec == Init /\ [][Next]_vars
=============================================================================
