------------------------ MODULE ThreadExecutorProofs ------------------------
(***************************************************************************)
(* The token of the OS-thread executor, for any number of threads, when no *)
(* thread is destroyed that never ran.                                     *)
(***************************************************************************)
EXTENDS ThreadExecutor, TLAPS

LEMMA InitExecutorInv == Init => ExecutorInv
BY HandleAssumption
   DEF Init, ExecutorInv, TypeOK, Pc, ChecksPass, TokenAtRest, Undisturbed,
       TokenInDeletion, NoneUnstarted

(* Only the current thread runs the caller's code, between deletions.      *)
LEMMA RunnerKnown ==
  ASSUME ExecutorInv, NEW o \in Thread \union {Main}, Runs(o)
  PROVE  o = g_current_thread /\ deleting = None /\ executor_mutex_ = o
BY HandleAssumption
   DEF ExecutorInv, TypeOK, TokenAtRest, Undisturbed, TokenInDeletion, Runs

LEMMA CreateThreadInv ==
  ASSUME ExecutorInv, NEW o \in Thread \union {Main}, NEW t \in Thread,
         CreateThread(o, t)
  PROVE  ExecutorInv'
<1>1. o = g_current_thread /\ deleting = None
  BY RunnerKnown DEF CreateThread
<1>2. pc' = [pc EXCEPT ![t] = "LockWhen"] /\ pc[t] = "none" /\ ~closing
  BY DEF CreateThread
<1>3. UNCHANGED <<executor_mutex_, g_current_thread, main_thread_running_,
                  running_, terminate_, joinable_, deleting, destroyed,
                  closing, aborted>>
  BY DEF CreateThread
<1> QED
  BY <1>1, <1>2, <1>3, HandleAssumption
     DEF ExecutorInv, TypeOK, Pc, ChecksPass, TokenAtRest, Undisturbed,
         TokenInDeletion, NoneUnstarted

(* The CHECKs of SwitchTo pass, so that it wakes h and pauses o.           *)
LEMMA SwitchToInv ==
  ASSUME ExecutorInv, NEW o \in Thread \union {Main},
         NEW h \in Thread \union {Main}, SwitchTo(o, h)
  PROVE  ExecutorInv'
<1>1. o = g_current_thread /\ deleting = None /\ executor_mutex_ = o
  BY RunnerKnown DEF SwitchTo
<1>2. ~((h = Main /\ main_thread_running_) \/ h = o)
  BY <1>1 DEF SwitchTo, ExecutorInv, ChecksPass
<1>3. /\ g_current_thread' = h
      /\ main_thread_running_' = (h = Main)
      /\ running_' = [t \in Thread |-> IF t = o THEN FALSE
                                       ELSE t = h \/ running_[t]]
      /\ pc' = [pc EXCEPT ![o] = IF o = Main THEN "AwaitMain" ELSE "Wait"]
      /\ executor_mutex_' = None
      /\ UNCHANGED <<terminate_, joinable_, deleting, destroyed, closing, aborted>>
  BY <1>1, <1>2 DEF SwitchTo, ExecutorInv, TypeOK, ChecksPass
<1>4. ~closing
  BY <1>1, HandleAssumption DEF SwitchTo, ExecutorInv, NoneUnstarted, TypeOK
<1>5. h # Main => pc[h] # "none" /\ h \notin destroyed
  BY DEF SwitchTo
<1>6. TypeOK'
  BY <1>3 DEF ExecutorInv, TypeOK, Pc
<1>7. ASSUME NEW t \in Thread PROVE Undisturbed(t)'
  BY <1>1, <1>2, <1>3, <1>5, HandleAssumption
     DEF ExecutorInv, TypeOK, TokenAtRest, Undisturbed
<1>8. TokenAtRest'
  BY <1>1, <1>3, <1>7, HandleAssumption
     DEF ExecutorInv, TypeOK, TokenAtRest, Undisturbed
<1> QED
  BY <1>1, <1>3, <1>4, <1>6, <1>8
     DEF ExecutorInv, ChecksPass, TokenInDeletion, NoneUnstarted

(* The end of a thread of its own accord.                                  *)
LEMMA TargetReturnsInv ==
  ASSUME ExecutorInv, NEW t \in Thread, TargetReturns(t)
  PROVE  ExecutorInv'
<1>1. t = g_current_thread /\ deleting = None /\ t # Main
  BY RunnerKnown, HandleAssumption DEF TargetReturns
<1>2. /\ destroyed' = destroyed \union {t}
      /\ executor_mutex_' = None
      /\ g_current_thread' = Main /\ main_thread_running_' = TRUE
      /\ running_' = [running_ EXCEPT ![t] = FALSE]
      /\ pc' = [pc EXCEPT ![t] = "NotifyDestroyed"]
      /\ UNCHANGED <<terminate_, joinable_, deleting, closing, aborted>>
  BY <1>1 DEF TargetReturns, ExitThread, ExecutorInv, ChecksPass
<1>3. TypeOK'
  BY <1>2 DEF ExecutorInv, TypeOK, Pc
<1>4. ASSUME NEW u \in Thread PROVE Undisturbed(u)'
  BY <1>1, <1>2, HandleAssumption
     DEF ExecutorInv, TypeOK, TokenAtRest, Undisturbed
<1> QED
  BY <1>1, <1>2, <1>3, <1>4, HandleAssumption
     DEF ExecutorInv, TypeOK, ChecksPass, TokenAtRest, TokenInDeletion,
         NoneUnstarted, Undisturbed

(* A free mutex goes to the current thread, or to the deletion.            *)
LEMMA ResumeInv ==
  ASSUME ExecutorInv, NEW o \in Thread \union {Main}, Resume(o)
  PROVE  ExecutorInv'
<1>1. o = g_current_thread /\ deleting = None
  BY HandleAssumption
     DEF Resume, Wakeable, ExecutorInv, TypeOK, ChecksPass, TokenAtRest,
         Undisturbed, TokenInDeletion
<1>2. /\ executor_mutex_ = None /\ executor_mutex_' = o
      /\ pc' = [pc EXCEPT ![o] = "run"]
      /\ UNCHANGED <<g_current_thread, main_thread_running_, running_,
                     terminate_, joinable_, deleting, destroyed, closing, aborted>>
  BY DEF Resume
<1>3. TypeOK'
  BY <1>2 DEF ExecutorInv, TypeOK, Pc
<1>4. ASSUME NEW u \in Thread PROVE Undisturbed(u)'
  BY <1>1, <1>2, HandleAssumption
     DEF ExecutorInv, TypeOK, TokenAtRest, Undisturbed
<1> QED
  BY <1>1, <1>2, <1>3, <1>4, HandleAssumption
     DEF ExecutorInv, TypeOK, ChecksPass, TokenAtRest, TokenInDeletion,
         NoneUnstarted

(* The thread that main deletes exits, and no other.                       *)
LEMMA TerminatedInv ==
  ASSUME ExecutorInv, NEW t \in Thread, Terminated(t)
  PROVE  ExecutorInv'
<1>1. t = deleting /\ g_current_thread = Main /\ t # Main
  BY HandleAssumption
     DEF Terminated, ExecutorInv, TypeOK, TokenAtRest, Undisturbed, TokenInDeletion
<1>2. /\ destroyed' = destroyed \union {t}
      /\ executor_mutex_' = None
      /\ joinable_' = [joinable_ EXCEPT ![t] = TRUE]
      /\ pc' = [pc EXCEPT ![t] = "exiting"]
      /\ UNCHANGED <<g_current_thread, main_thread_running_, running_,
                     terminate_, deleting, closing, aborted>>
  BY <1>1 DEF Terminated, ExitThread
<1>3. pc[t] \in {"Wait", "NotifyDestroyed"}
  BY DEF Terminated
<1> QED
  BY <1>1, <1>2, <1>3, HandleAssumption
     DEF ExecutorInv, TypeOK, Pc, ChecksPass, TokenAtRest, TokenInDeletion,
         NoneUnstarted, Undisturbed

LEMMA PthreadExitInv ==
  ASSUME ExecutorInv, NEW t \in Thread, PthreadExit(t)
  PROVE  ExecutorInv'
<1>1. t = deleting
  BY HandleAssumption
     DEF PthreadExit, ExecutorInv, TypeOK, TokenAtRest, Undisturbed, TokenInDeletion
<1> QED
  BY <1>1, HandleAssumption
     DEF PthreadExit, ExecutorInv, TypeOK, Pc, ChecksPass, TokenAtRest,
         TokenInDeletion, NoneUnstarted, Undisturbed

LEMMA CloseInv ==
  ASSUME ExecutorInv, ~DeleteUnstarted, Close
  PROVE  ExecutorInv'
<1>1. g_current_thread = Main
  BY RunnerKnown DEF Close
<1> QED
  BY <1>1 DEF Close, ExecutorInv, TypeOK, Pc, ChecksPass, TokenAtRest,
              TokenInDeletion, NoneUnstarted, Undisturbed

(* What main deletes waits: it was reported, or the executor is closing.   *)
LEMMA DeleteThreadInv ==
  ASSUME ExecutorInv, NEW t \in Thread, DeleteThread(t)
  PROVE  ExecutorInv'
<1>1. g_current_thread = Main /\ deleting = None /\ executor_mutex_ = Main
  BY RunnerKnown DEF DeleteThread
<1>2. pc[t] \in {"Wait", "NotifyDestroyed"} /\ ~joinable_[t]
  BY <1>1, HandleAssumption
     DEF DeleteThread, ExecutorInv, TypeOK, TokenAtRest, Undisturbed, NoneUnstarted
<1> QED
  BY <1>1, <1>2, HandleAssumption
     DEF DeleteThread, ExecutorInv, TypeOK, Pc, ChecksPass, TokenAtRest,
         TokenInDeletion, NoneUnstarted, Undisturbed

LEMMA JoinInv ==
  ASSUME ExecutorInv, SeesJoinable \/ Joined
  PROVE  ExecutorInv'
<1>1. deleting \in Thread
  BY HandleAssumption
     DEF SeesJoinable, Joined, ExecutorInv, TypeOK, TokenAtRest
<1>2. CASE SeesJoinable
  BY <1>1, <1>2, HandleAssumption
     DEF SeesJoinable, ExecutorInv, TypeOK, Pc, ChecksPass, TokenAtRest,
         TokenInDeletion, NoneUnstarted, Undisturbed
<1>3. CASE Joined
  <2>1. TypeOK' /\ ChecksPass' /\ NoneUnstarted' /\ TokenInDeletion'
    BY <1>1, <1>3, HandleAssumption
       DEF Joined, ExecutorInv, TypeOK, Pc, ChecksPass, NoneUnstarted,
           TokenInDeletion
  <2>2. TokenAtRest'
    BY <1>1, <1>3, HandleAssumption
       DEF Joined, ExecutorInv, TypeOK, TokenInDeletion, TokenAtRest, Undisturbed
  <2> QED BY <2>1, <2>2 DEF ExecutorInv
<1> QED BY <1>2, <1>3

LEMMA NextExecutorInv ==
  ASSUME ~DeleteUnstarted
  PROVE  ExecutorInv /\ [Next]_vars => ExecutorInv'
<1>1. ASSUME ExecutorInv, UNCHANGED vars PROVE ExecutorInv'
  BY <1>1 DEF vars, ExecutorInv, TypeOK, ChecksPass, TokenAtRest,
              TokenInDeletion, NoneUnstarted, Undisturbed
<1> QED BY <1>1, CreateThreadInv, SwitchToInv, TargetReturnsInv, ResumeInv,
           TerminatedInv, PthreadExitInv, CloseInv, DeleteThreadInv, JoinInv
        DEF Next, Closed

(* The invariant of the executor; in particular its CHECKs never fail.     *)
THEOREM ExecutorSafe == ASSUME ~DeleteUnstarted PROVE Spec => []ExecutorInv
BY InitExecutorInv, NextExecutorInv, PTL DEF Spec

(* The mutex is never lost and never contended: exactly one OS thread has  *)
(* it or is due to take it.                                                *)
THEOREM ExecutorPassesToken ==
  ASSUME ~DeleteUnstarted PROVE Spec => []TokenPassedToOne
<1>1. ASSUME ExecutorInv PROVE TokenPassedToOne
  <2> DEFINE Due(o) == executor_mutex_ = o \/ Wakeable(o)
  <2>1. CASE deleting = None
    <3>1. /\ g_current_thread \in Thread \union {Main}
          /\ Due(g_current_thread)
      BY <1>1, <2>1, HandleAssumption
         DEF ExecutorInv, TypeOK, ChecksPass, TokenAtRest, Undisturbed, Wakeable
    <3>2. ASSUME NEW p \in Thread \union {Main}, Due(p)
          PROVE  p = g_current_thread
      BY <1>1, <2>1, <3>2, HandleAssumption
         DEF ExecutorInv, TypeOK, ChecksPass, TokenAtRest, Undisturbed, Wakeable
    <3> QED BY <3>1, <3>2 DEF TokenPassedToOne
  <2>2. CASE deleting # None
    <3> DEFINE o == IF joinable_[deleting] THEN Main ELSE deleting
    <3>1. o \in Thread \union {Main} /\ Due(o)
      BY <1>1, <2>2, HandleAssumption
         DEF ExecutorInv, TypeOK, TokenInDeletion, Wakeable
    <3>2. ASSUME NEW p \in Thread \union {Main}, Due(p) PROVE p = o
      BY <1>1, <2>2, <3>2, HandleAssumption
         DEF ExecutorInv, TypeOK, ChecksPass, TokenInDeletion, Undisturbed,
             Wakeable
    <3> QED BY <3>1, <3>2 DEF TokenPassedToOne
  <2> QED BY <2>1, <2>2
<1> QED BY <1>1, ExecutorSafe, PTL

(* The code that runs is that of the thread g_current_thread names.        *)
THEOREM ExecutorRunsCurrent ==
  ASSUME ~DeleteUnstarted PROVE Spec => []RunnerIsCurrent
<1>1. ExecutorInv => RunnerIsCurrent
  BY HandleAssumption
     DEF ExecutorInv, TypeOK, TokenAtRest, TokenInDeletion, Undisturbed,
         RunnerIsCurrent
<1> QED BY <1>1, ExecutorSafe, PTL

(* A thread that main destroys runs nothing of its own any more.           *)
THEOREM ExecutorTerminates ==
  ASSUME ~DeleteUnstarted PROVE Spec => []TerminatedOnlyExits
<1>1. ExecutorInv => TerminatedOnlyExits
  BY HandleAssumption
     DEF ExecutorInv, TypeOK, TokenAtRest, TokenInDeletion, Undisturbed,
         TerminatedOnlyExits
<1> QED BY <1>1, ExecutorSafe, PTL
-----------------------------------------------------------------------------
(* Who can take a step, and which.                                         *)

LEMMA ResumerKnown ==
  ASSUME ExecutorInv, NEW o \in Thread \union {Main}, Resume(o)
  PROVE  o = g_current_thread /\ deleting = None
BY HandleAssumption
   DEF Resume, Wakeable, ExecutorInv, TypeOK, ChecksPass, TokenAtRest,
       Undisturbed, TokenInDeletion

LEMMA TerminatedKnown ==
  ASSUME ExecutorInv, NEW t \in Thread, Terminated(t)
  PROVE  /\ t = deleting /\ g_current_thread = Main
         /\ pc[t] \in {"Wait", "NotifyDestroyed"}
         /\ destroyed' = destroyed \union {t}
         /\ executor_mutex_' = None
         /\ pc' = [pc EXCEPT ![t] = "exiting"]
         /\ UNCHANGED <<g_current_thread, running_, deleting>>
<1>1. t = deleting /\ g_current_thread = Main
  BY HandleAssumption
     DEF Terminated, ExecutorInv, TypeOK, TokenAtRest, Undisturbed, TokenInDeletion
<1> QED BY <1>1 DEF Terminated, ExitThread

LEMMA ExiterKnown ==
  ASSUME ExecutorInv, NEW t \in Thread, PthreadExit(t)
  PROVE  t = deleting
BY HandleAssumption
   DEF PthreadExit, ExecutorInv, TypeOK, TokenAtRest, Undisturbed, TokenInDeletion

(* The CHECKs pass, so that a switch is one.                               *)
LEMMA SwitchKnown ==
  ASSUME ExecutorInv, NEW o \in Thread \union {Main},
         NEW h \in Thread \union {Main}, SwitchTo(o, h)
  PROVE  /\ o = g_current_thread /\ deleting = None /\ executor_mutex_ = o
         /\ pc[o] = "run"
         /\ h # o /\ (h = Main \/ h \in alive)
         /\ g_current_thread' = h /\ executor_mutex_' = None
         /\ pc' = [pc EXCEPT ![o] = IF o = Main THEN "AwaitMain" ELSE "Wait"]
         /\ destroyed' = destroyed
<1>1. o = g_current_thread /\ deleting = None /\ executor_mutex_ = o
  BY RunnerKnown DEF SwitchTo
<1>2. ~((h = Main /\ main_thread_running_) \/ h = o)
  BY <1>1 DEF SwitchTo, ExecutorInv, ChecksPass
<1> QED BY <1>1, <1>2 DEF SwitchTo, Runs, alive

LEMMA TargetReturnsKnown ==
  ASSUME ExecutorInv, NEW t \in Thread, TargetReturns(t)
  PROVE  /\ t = g_current_thread /\ deleting = None /\ executor_mutex_ = t
         /\ pc[t] = "run" /\ destroyed' = destroyed \union {t}
         /\ executor_mutex_' = None /\ g_current_thread' = Main
         /\ pc' = [pc EXCEPT ![t] = "NotifyDestroyed"]
<1>1. t = g_current_thread /\ deleting = None /\ executor_mutex_ = t /\ t # Main
  BY RunnerKnown, HandleAssumption DEF TargetReturns
<1> QED BY <1>1 DEF TargetReturns, Runs, ExitThread, ExecutorInv, ChecksPass

LEMMA MainKnown ==
  ASSUME ExecutorInv,
         \/ Close \/ \E t \in Thread : DeleteThread(t)
         \/ \E o \in Thread \union {Main}, t \in Thread : CreateThread(o, t)
  PROVE  deleting = None
BY RunnerKnown DEF Close, DeleteThread, CreateThread

LEMMA JoinKnown ==
  ASSUME ExecutorInv, SeesJoinable \/ Joined
  PROVE  deleting \in Thread /\ g_current_thread = Main
BY HandleAssumption
   DEF SeesJoinable, Joined, ExecutorInv, TypeOK, TokenAtRest, TokenInDeletion

(* Between a SwitchTo and the moment its target runs nobody takes the      *)
(* mutex and nobody makes another thread current, destructors included.    *)
THEOREM ExecutorSwitchNotOvertaken ==
  ASSUME ~DeleteUnstarted PROVE Spec => SwitchNotOvertaken
<1> DEFINE A == /\ executor_mutex_ = None /\ executor_mutex_' # None
                      => executor_mutex_' = g_current_thread
                /\ g_current_thread' # g_current_thread
                      => pc[g_current_thread] = "run" /\ executor_mutex_ = g_current_thread
<1>1. ASSUME ExecutorInv, Next PROVE A
  <2>1. ASSUME NEW o \in Thread \union {Main}, NEW h \in Thread \union {Main},
               SwitchTo(o, h)
        PROVE  A
    BY <1>1, <2>1, SwitchKnown
  <2>2. ASSUME NEW t \in Thread, TargetReturns(t) PROVE A
    BY <1>1, <2>2, TargetReturnsKnown
  <2>3. ASSUME NEW o \in Thread \union {Main}, Resume(o) PROVE A
    BY <1>1, <2>3, ResumerKnown DEF Resume
  <2>4. ASSUME NEW t \in Thread, Terminated(t) PROVE A
    BY <1>1, <2>4, TerminatedKnown
  <2>5. CASE SeesJoinable \/ Joined
    BY <1>1, <2>5, JoinKnown DEF SeesJoinable, Joined
  <2>6. CASE \/ \E o \in Thread \union {Main}, t \in Thread : CreateThread(o, t)
             \/ \E t \in Thread : PthreadExit(t) \/ DeleteThread(t)
             \/ Close
    BY <2>6 DEF CreateThread, PthreadExit, DeleteThread, Close
  <2>7. CASE Closed
    BY <2>7 DEF Closed, vars
  <2> QED BY <1>1, <2>1, <2>2, <2>3, <2>4, <2>5, <2>6, <2>7 DEF Next
<1>2. ExecutorInv /\ [Next]_vars => [A]_vars
  BY <1>1
<1>3. Spec => [][A]_vars
  BY <1>2, ExecutorSafe, PTL DEF Spec
<1> QED BY <1>3 DEF SwitchNotOvertaken

(* A deletion that main has begun takes four steps, of main and of the     *)
(* deleted thread only: it exits, its OS thread ends, main sees it         *)
(* joinable and joins it.                                                  *)
THEOREM ExecutorDeletionAdvances ==
  ASSUME ~DeleteUnstarted PROVE Spec => DeletionAdvances
<1> DEFINE A == deleting # None =>
                  /\ \A t \in Thread \ {deleting} :
                        pc'[t] = pc[t] /\ running_'[t] = running_[t]
                  /\ \/ deleting' = deleting /\ DeleteLeft' < DeleteLeft
                     \/ /\ deleting' = None /\ DeleteLeft = 0
                        /\ pc'[Main] = "run" /\ pc'[deleting] = "none"
<1>1. ASSUME ExecutorInv, Next, ~UNCHANGED vars, deleting # None PROVE A
  <2>0. deleting \in Thread /\ Main # deleting
    BY <1>1, HandleAssumption DEF ExecutorInv, TypeOK
  <2>1. ASSUME NEW t \in Thread, Terminated(t) PROVE A
    <3>1. /\ pc[deleting] \in {"Wait", "NotifyDestroyed"}
          /\ pc' = [pc EXCEPT ![deleting] = "exiting"]
          /\ UNCHANGED <<running_, deleting>>
      BY <1>1, <2>1, TerminatedKnown
    <3>2. /\ pc'[deleting] = "exiting" /\ pc'[Main] = pc[Main]
          /\ \A u \in Thread \ {deleting} : pc'[u] = pc[u]
      BY <1>1, <2>0, <3>1 DEF ExecutorInv, TypeOK
    <3>3. DeleteLeft' < DeleteLeft
      BY <3>1, <3>2 DEF DeleteLeft
    <3> QED BY <3>1, <3>2, <3>3
  <2>2. ASSUME NEW t \in Thread, PthreadExit(t) PROVE A
    <3>1. /\ pc[deleting] = "exiting"
          /\ pc' = [pc EXCEPT ![deleting] = "gone"]
          /\ UNCHANGED <<running_, deleting>>
      BY <1>1, <2>2, ExiterKnown DEF PthreadExit
    <3>2. /\ pc'[deleting] = "gone" /\ pc'[Main] = pc[Main]
          /\ \A u \in Thread \ {deleting} : pc'[u] = pc[u]
      BY <1>1, <2>0, <3>1 DEF ExecutorInv, TypeOK
    <3>3. DeleteLeft' < DeleteLeft
      BY <3>1, <3>2 DEF DeleteLeft
    <3> QED BY <3>1, <3>2, <3>3
  <2>3. CASE SeesJoinable
    <3>1. /\ pc[Main] = "AwaitJoinable" /\ pc' = [pc EXCEPT ![Main] = "join"]
          /\ UNCHANGED <<running_, deleting>>
      BY <2>3 DEF SeesJoinable
    <3>2. /\ pc'[Main] = "join" /\ \A u \in Thread : pc'[u] = pc[u]
      BY <1>1, <2>0, <3>1, HandleAssumption DEF ExecutorInv, TypeOK
    <3>3. DeleteLeft' < DeleteLeft
      BY <2>0, <3>1, <3>2 DEF DeleteLeft
    <3> QED BY <3>1, <3>2, <3>3
  <2>4. CASE Joined
    <3>1. /\ pc[Main] = "join" /\ pc[deleting] = "gone" /\ deleting' = None
          /\ pc' = [pc EXCEPT ![Main] = "run", ![deleting] = "none"]
          /\ running_' = [running_ EXCEPT ![deleting] = FALSE]
      BY <2>4 DEF Joined
    <3>2. /\ pc'[Main] = "run" /\ pc'[deleting] = "none"
          /\ \A u \in Thread \ {deleting} :
                pc'[u] = pc[u] /\ running_'[u] = running_[u]
      BY <1>1, <2>0, <3>1, HandleAssumption DEF ExecutorInv, TypeOK
    <3>3. DeleteLeft = 0
      BY <3>1 DEF DeleteLeft
    <3> QED BY <3>1, <3>2, <3>3
  <2>5. ~\E o \in Thread \union {Main} : Resume(o)
    BY <1>1, ResumerKnown
  <2>6. ~\E o, h \in Thread \union {Main} : SwitchTo(o, h)
    BY <1>1, SwitchKnown
  <2>7. ~\E t \in Thread : TargetReturns(t)
    BY <1>1, TargetReturnsKnown
  <2> QED BY <1>1, <2>1, <2>2, <2>3, <2>4, <2>5, <2>6, <2>7, MainKnown
          DEF Next, Closed
<1>2. ExecutorInv /\ [Next]_vars => [A]_vars
  BY <1>1
<1>3. Spec => [][A]_vars
  BY <1>2, ExecutorSafe, PTL DEF Spec
<1> QED BY <1>3 DEF DeletionAdvances
-----------------------------------------------------------------------------
(* Refinement.                                                             *)

LEMMA CoopStutter ==
  ASSUME alive' = alive, g_current_thread' = g_current_thread
  PROVE  UNCHANGED Coop!vars
BY DEF Coop!vars

LEMMA CoopStep ==
  ASSUME ~DeleteUnstarted, ExecutorInv, [Next]_vars
  PROVE  [Coop!Next]_Coop!vars
<1>0. ASSUME UNCHANGED <<destroyed, g_current_thread>>,
             \A t \in Thread : pc'[t] = "none" <=> pc[t] = "none"
      PROVE  UNCHANGED Coop!vars
  <2>1. alive' = alive
    BY <1>0 DEF alive
  <2> QED BY <1>0, <2>1, CoopStutter
<1>1. ASSUME NEW o \in Thread \union {Main}, NEW t \in Thread, CreateThread(o, t)
      PROVE  Coop!Next
  <2>1. deleting = None
    BY <1>1, MainKnown
  <2>2. t # g_current_thread /\ t \notin destroyed
    BY <1>1, <2>1 DEF CreateThread, ExecutorInv, TokenAtRest, Undisturbed
  <2>3. /\ t \notin alive /\ alive' = alive \union {t}
        /\ g_current_thread' = g_current_thread
    BY <1>1, <2>2, HandleAssumption DEF CreateThread, alive, ExecutorInv, TypeOK
  <2>4. Coop!Spawn(t)
    BY <2>2, <2>3 DEF Coop!Spawn
  <2> QED BY <2>4 DEF Coop!Next
<1>2. ASSUME NEW o \in Thread \union {Main}, NEW h \in Thread \union {Main},
             SwitchTo(o, h)
      PROVE  Coop!Next
  <2>1. /\ o = g_current_thread /\ deleting = None /\ pc[o] = "run"
        /\ h # o /\ (h = Main \/ h \in alive)
        /\ g_current_thread' = h /\ destroyed' = destroyed
        /\ pc' = [pc EXCEPT ![o] = IF o = Main THEN "AwaitMain" ELSE "Wait"]
    BY <1>2, SwitchKnown
  <2>2. \A t \in Thread : pc'[t] = "none" <=> pc[t] = "none"
    BY <2>1 DEF ExecutorInv, TypeOK
  <2>3. alive' = alive
    BY <2>1, <2>2 DEF alive
  <2>4. o # Main => o \in alive
    BY <2>1 DEF alive, ExecutorInv, TokenAtRest, Undisturbed
  <2>5. Main \notin alive
    BY HandleAssumption DEF alive
  <2>6. Coop!Switch(h)
    BY <2>1, <2>3, <2>4, <2>5 DEF Coop!Switch
  <2> QED BY <2>6 DEF Coop!Next
<1>3. ASSUME NEW t \in Thread, TargetReturns(t)
      PROVE  Coop!Next
  <2>1. /\ t = g_current_thread /\ t # Main
        /\ destroyed' = destroyed \union {t} /\ g_current_thread' = Main
        /\ pc' = [pc EXCEPT ![t] = "NotifyDestroyed"] /\ pc[t] = "run"
    BY <1>3, TargetReturnsKnown, HandleAssumption
  <2>2. alive' = alive \ {t} /\ Main \notin alive
    BY <2>1, HandleAssumption DEF alive, ExecutorInv, TypeOK
  <2>3. Coop!Exit
    BY <2>1, <2>2 DEF Coop!Exit
  <2> QED BY <2>3 DEF Coop!Next
<1>4. ASSUME NEW o \in Thread \union {Main}, Resume(o)
      PROVE  UNCHANGED Coop!vars
  BY <1>0, <1>4 DEF Resume, ExecutorInv, TypeOK
<1>5. ASSUME NEW t \in Thread, Terminated(t)
      PROVE  Coop!Next \/ UNCHANGED Coop!vars
  <2>1. /\ g_current_thread = Main /\ g_current_thread' = Main
        /\ pc[t] # "none" /\ destroyed' = destroyed \union {t}
        /\ pc' = [pc EXCEPT ![t] = "exiting"]
    BY <1>5, TerminatedKnown
  <2>2. alive' = alive \ {t} /\ t # Main
    BY <2>1, HandleAssumption DEF alive, ExecutorInv, TypeOK
  <2>3. CASE t \in alive
    <3>1. Coop!Kill(t)
      BY <2>1, <2>2, <2>3 DEF Coop!Kill
    <3> QED BY <3>1 DEF Coop!Next
  <2>4. CASE t \notin alive
    BY <2>1, <2>2, <2>4, CoopStutter
  <2> QED BY <2>3, <2>4
<1>6. ASSUME NEW t \in Thread, PthreadExit(t) \/ DeleteThread(t)
      PROVE  UNCHANGED Coop!vars
  BY <1>0, <1>6, HandleAssumption DEF PthreadExit, DeleteThread, ExecutorInv, TypeOK
<1>7. CASE Close \/ SeesJoinable
  BY <1>0, <1>7, HandleAssumption DEF Close, SeesJoinable, ExecutorInv, TypeOK
<1>8. CASE Joined
  <2>1. deleting \in Thread /\ Main # deleting
    BY <1>8, JoinKnown, HandleAssumption
  <2>2. deleting \in destroyed
    BY <1>8, <2>1, HandleAssumption
       DEF Joined, ExecutorInv, TypeOK, TokenInDeletion
  <2>3. alive' = alive
    BY <1>8, <2>1, <2>2 DEF Joined, alive, ExecutorInv, TypeOK
  <2> QED BY <1>8, <2>3, CoopStutter DEF Joined
<1>9. CASE UNCHANGED vars
  BY <1>0, <1>9 DEF vars
<1> QED BY <1>1, <1>2, <1>3, <1>4, <1>5, <1>6, <1>7, <1>8, <1>9
        DEF Next, Closed

(* OS threads that pass a mutex implement the same one-processor           *)
(* specification as the coroutines under FuzzedScheduler: only the thread  *)
(* that has the processor gives it away, and never to a destroyed one.     *)
THEOREM ExecutorImplementsCoop ==
  ASSUME ~DeleteUnstarted PROVE Spec => ImplementsCoop
<1>1. Init => Coop!Init
  BY HandleAssumption DEF Init, Coop!Init, alive
<1>2. ExecutorInv /\ [Next]_vars => [Coop!Next]_Coop!vars
  BY CoopStep
<1> QED BY <1>1, <1>2, ExecutorSafe, PTL DEF Spec, ImplementsCoop, Coop!Spec
=============================================================================
