----------------------- MODULE FuzzedSchedulerProofs -----------------------
(***************************************************************************)
(* The scheduler's safety properties for every set of handles, either      *)
(* build and with or without an input provider.                            *)
(***************************************************************************)
EXTENDS MCFuzzedScheduler, TLAPS

NoDup(q) == \A i, j \in 1..Len(q) : q[i] = q[j] => i = j

(* Erasing a position keeps the type and absence of duplicates; what       *)
(* remains was there, and the erased entry of a duplicate-free vector is   *)
(* gone.                                                                   *)
LEMMA EraseFacts ==
  ASSUME NEW S, NEW q \in Seq(S), NEW i \in 1..Len(q)
  PROVE  /\ Erase(q, i) \in Seq(S)
         /\ Len(Erase(q, i)) = Len(q) - 1
         /\ Entries(Erase(q, i)) \subseteq Entries(q)
         /\ Entries(q) \ {q[i]} \subseteq Entries(Erase(q, i))
         /\ NoDup(q) => NoDup(Erase(q, i)) /\ q[i] \notin Entries(Erase(q, i))
<1> DEFINE e == Erase(q, i)
<1>1. Len(q) \in Nat /\ i \in 1..Len(q) /\ Len(q) - 1 \in Nat
  OBVIOUS
<1>2. e \in [1..(Len(q) - 1) -> S]
  BY <1>1 DEF Erase
<1>3. e \in Seq(S) /\ Len(e) = Len(q) - 1
  BY <1>1, <1>2
<1>4. \A j \in 1..(Len(q) - 1) : e[j] = IF j < i THEN q[j] ELSE q[j + 1]
  BY DEF Erase
<1>5. Entries(e) \subseteq Entries(q)
  BY <1>1, <1>3, <1>4 DEF Entries
<1>6. Entries(q) \ {q[i]} \subseteq Entries(e)
  <2> SUFFICES ASSUME NEW k \in 1..Len(q), q[k] # q[i]
               PROVE  \E j \in 1..Len(e) : e[j] = q[k]
    BY DEF Entries
  <2>1. CASE k < i
    <3>1. k \in 1..(Len(q) - 1) /\ e[k] = q[k]
      BY <1>1, <1>4, <2>1
    <3> QED BY <3>1, <1>3
  <2>2. CASE k > i
    <3>1. (k - 1) \in 1..(Len(q) - 1) /\ ~(k - 1 < i) /\ (k - 1) + 1 = k
      BY <1>1, <2>2
    <3>2. e[k - 1] = q[k]
      BY <3>1, <1>4
    <3> QED BY <3>1, <3>2, <1>3
  <2> QED BY <2>1, <2>2, <1>1
<1>7. ASSUME NoDup(q)
      PROVE  NoDup(e) /\ q[i] \notin Entries(e)
  <2>1. NoDup(e)
    <3> SUFFICES ASSUME NEW a \in 1..(Len(q) - 1), NEW b \in 1..(Len(q) - 1),
                        e[a] = e[b]
                 PROVE  a = b
      BY <1>3 DEF NoDup
    <3> DEFINE Src(x) == IF x < i THEN x ELSE x + 1
    <3>1. Src(a) \in 1..Len(q) /\ Src(b) \in 1..Len(q)
      BY <1>1
    <3>2. e[a] = q[Src(a)] /\ e[b] = q[Src(b)]
      BY <1>4
    <3>3. Src(a) = Src(b)
      BY <3>1, <3>2, <1>7 DEF NoDup
    <3> QED BY <3>3, <1>1
  <2>2. q[i] \notin Entries(e)
    BY <1>1, <1>3, <1>4, <1>7 DEF NoDup, Entries
  <2> QED BY <2>1, <2>2
<1> QED BY <1>3, <1>5, <1>6, <1>7

(* MakeRunnable adds at most the handle, and never a second time.          *)
LEMMA WithRunnableFacts ==
  ASSUME NEW S, NEW q \in Seq(S), NEW h \in S \union {Main}
  PROVE  /\ WithRunnable(q, h) \in Seq(S)
         /\ Entries(q) \subseteq Entries(WithRunnable(q, h))
         /\ Entries(WithRunnable(q, h)) \subseteq Entries(q) \union {h}
         /\ h # Main => h \in Entries(WithRunnable(q, h))
         /\ h = Main => WithRunnable(q, h) = q
         /\ NoDup(q) => NoDup(WithRunnable(q, h))
         /\ Len(WithRunnable(q, h)) <= Len(q) + 1
<1>1. CASE h = Main \/ h \in Entries(q)
  BY <1>1 DEF WithRunnable
<1>2. CASE h # Main /\ h \notin Entries(q)
  <2>1. WithRunnable(q, h) = Append(q, h) /\ h \in S
    BY <1>2 DEF WithRunnable
  <2>2. /\ Append(q, h) \in Seq(S)
        /\ Len(Append(q, h)) = Len(q) + 1 /\ Len(q) \in Nat
        /\ \A j \in 1..Len(q) : Append(q, h)[j] = q[j]
        /\ Append(q, h)[Len(q) + 1] = h
    BY <2>1
  <2>3. Entries(Append(q, h)) = Entries(q) \union {h}
    BY <2>2 DEF Entries
  <2>4. NoDup(q) => NoDup(Append(q, h))
    BY <2>2, <1>2 DEF NoDup, Entries
  <2> QED BY <1>2, <2>1, <2>2, <2>3, <2>4
<1> QED BY <1>1, <1>2

LEMMA WithRunnableEntries ==
  ASSUME NEW q \in Seq(Entry), NEW h \in Entry, h # Main
  PROVE  Entries(WithRunnable(q, h)) = Entries(q) \union {h}
BY WithRunnableFacts

(* MakeNotRunnable removes at most the handle.                             *)
LEMMA WithoutRunnableFacts ==
  ASSUME NEW S, NEW q \in Seq(S), NEW h
  PROVE  /\ WithoutRunnable(q, h) \in Seq(S)
         /\ Entries(WithoutRunnable(q, h)) \subseteq Entries(q)
         /\ Entries(q) \ {h} \subseteq Entries(WithoutRunnable(q, h))
         /\ NoDup(q) => /\ NoDup(WithoutRunnable(q, h))
                        /\ h \notin Entries(WithoutRunnable(q, h))
         /\ Len(WithoutRunnable(q, h)) <= Len(q)
<1>1. CASE h \notin Entries(q)
  BY <1>1 DEF WithoutRunnable
<1>2. CASE h \in Entries(q)
  <2> DEFINE k == CHOOSE i \in 1..Len(q) : q[i] = h
  <2>1. \E i \in 1..Len(q) : q[i] = h
    BY <1>2 DEF Entries
  <2>2. k \in 1..Len(q) /\ q[k] = h
    BY <2>1
  <2>3. WithoutRunnable(q, h) = Erase(q, k)
    BY <1>2 DEF WithoutRunnable
  <2> HIDE DEF k
  <2> QED BY <2>2, <2>3, EraseFacts
<1> QED BY <1>1, <1>2

LEMMA InitInv == Init => SchedulerInv
<1> SUFFICES ASSUME Init PROVE SchedulerInv
  OBVIOUS
<1>1. Len(runnable_) = 0 /\ 1..Len(runnable_) = {} /\ runnable_ \in Seq(Entry)
  BY DEF Init
<1>2. NoDoubleEnqueue /\ Entries(runnable_) = {}
  BY <1>1 DEF NoDoubleEnqueue, Entries
<1>3. TypeOK
  BY <1>1 DEF Init, TypeOK
<1>4. StacksAccounted /\ MainInOneLoop /\ CurrentIsLive
  BY DEF Init, StacksAccounted, MainInOneLoop, CurrentIsLive
<1>5. QueuedStacksMapped
  BY <1>2 DEF QueuedStacksMapped
<1> QED BY <1>2, <1>3, <1>4, <1>5 DEF SchedulerInv

(* One conjunct at a time: what a step must establish when only the queue  *)
(* and the processor move, which is most of the code.                      *)
LEMMA QueueStep ==
  ASSUME SchedulerInv,
         runnable_' \in Seq(Entry), NoDup(runnable_'),
         Entries(runnable_)' \subseteq stacks \union {Null},
         UNCHANGED sets,
         interrupts_enabled_' \in BOOLEAN, aborted' \in BOOLEAN,
         main_loop' \in BOOLEAN, choosing' \in {"no", "other", "any"},
         g_current_thread' \in live_set_ \union {Main},
         g_current_thread' = Main /\ choosing' # "no" => ~main_loop'
  PROVE  SchedulerInv'
BY DEF SchedulerInv, TypeOK, NoDoubleEnqueue, QueuedStacksMapped, NoDup, sets,
   StacksAccounted, MainInOneLoop, CurrentIsLive, Entries

(* What the steps use of the invariant.                                    *)
LEMMA InvFacts ==
  ASSUME SchedulerInv
  PROVE  /\ runnable_ \in Seq(Entry) /\ NoDup(runnable_)
         /\ Entries(runnable_) \subseteq stacks \union {Null}
         /\ interrupts_enabled_ \in BOOLEAN /\ aborted \in BOOLEAN
         /\ main_loop \in BOOLEAN /\ choosing \in {"no", "other", "any"}
         /\ g_current_thread \in live_set_ \union {Main}
         /\ g_current_thread = Main /\ choosing # "no" => ~main_loop
         /\ live_set_ \subseteq Handle /\ live_set_ \subseteq stacks
         /\ pending_deletion_ \subseteq stacks /\ stacks \subseteq Handle
         /\ live_set_ \subseteq Entry
         /\ live_set_ \union pending_deletion_ = stacks
BY DEF SchedulerInv, TypeOK, NoDoubleEnqueue, QueuedStacksMapped, NoDup,
   StacksAccounted, MainInOneLoop, CurrentIsLive, Entry

LEMMA AbortInv == SchedulerInv /\ Abort => SchedulerInv'
BY InvFacts, QueueStep DEF Abort, sets, Entries

LEMMA StutterInv == SchedulerInv /\ UNCHANGED vars => SchedulerInv'
BY InvFacts, QueueStep DEF vars, sets, Entries

LEMMA NextInv == SchedulerInv /\ [Next]_vars => SchedulerInv'
<1> SUFFICES ASSUME SchedulerInv, [Next]_vars PROVE SchedulerInv'
  OBVIOUS
<1> USE InvFacts
<1>1. ASSUME NEW h \in Handle, NEW r \in BOOLEAN, CreateThread(h, r)
      PROVE  SchedulerInv'
  <2> DEFINE q == runnable_'
  <2>1. /\ q \in Seq(Entry) /\ NoDup(q)
        /\ Entries(q) \subseteq Entries(runnable_) \union {h}
    BY <1>1, WithRunnableFacts DEF CreateThread, Entry
  <2> QED BY <1>1, <2>1
      DEF CreateThread, SchedulerInv, TypeOK, NoDoubleEnqueue, NoDup,
          QueuedStacksMapped, StacksAccounted, MainInOneLoop,
          CurrentIsLive, Entries
<1>2. ASSUME NEW h \in Entry, MakeRunnable(h)
      PROVE  SchedulerInv'
  <2>1. CASE MakeRunnableAborts(h)
    BY <1>2, <2>1, AbortInv DEF MakeRunnable
  <2>2. CASE ~MakeRunnableAborts(h)
    <3>1. /\ runnable_' = WithRunnable(runnable_, h)
          /\ h \in stacks \union {Null}
      BY <1>2, <2>2 DEF MakeRunnable
    <3>2. /\ runnable_' \in Seq(Entry) /\ NoDup(runnable_')
          /\ Entries(runnable_') \subseteq stacks \union {Null}
      BY <3>1, WithRunnableFacts
    <3> QED BY <1>2, <2>2, <3>2, QueueStep DEF MakeRunnable, Entries
  <2> QED BY <2>1, <2>2
<1>3. ASSUME NEW h \in Handle \union {Main}, MakeNotRunnable(h)
      PROVE  SchedulerInv'
  <2>1. CASE h = Main
    BY <1>3, <2>1, AbortInv DEF MakeNotRunnable
  <2>2. CASE h # Main
    <3>1. /\ runnable_' \in Seq(Entry) /\ NoDup(runnable_')
          /\ Entries(runnable_') \subseteq stacks \union {Null}
      BY <1>3, <2>2, WithoutRunnableFacts DEF MakeNotRunnable
    <3> QED BY <1>3, <2>2, <3>1, QueueStep DEF MakeNotRunnable, Entries
  <2> QED BY <2>1, <2>2
<1>4. ASSUME NEW b \in BOOLEAN, SetInterruptsEnabled(b)
      PROVE  SchedulerInv'
  BY <1>4, QueueStep DEF SetInterruptsEnabled, sets, Entries
<1>5. ASSUME ThreadReturns
      PROVE  SchedulerInv'
  BY <1>5 DEF ThreadReturns, InChild, Executing, SchedulerInv, TypeOK,
     NoDoubleEnqueue, QueuedStacksMapped, StacksAccounted,
     MainInOneLoop, CurrentIsLive, Entries
<1>6. ASSUME NEW h \in Handle, ThreadDestroyed(h)
      PROVE  SchedulerInv'
  BY <1>6 DEF ThreadDestroyed, Executing, SchedulerInv, TypeOK,
     NoDoubleEnqueue, QueuedStacksMapped, StacksAccounted,
     MainInOneLoop, CurrentIsLive, Entries
<1>7. ASSUME Block
      PROVE  SchedulerInv'
  <2>1. CASE g_current_thread = Main
    BY <1>7, <2>1, AbortInv DEF Block
  <2>2. CASE g_current_thread # Main
    BY <1>7, <2>2, QueueStep DEF Block, Executing, sets, Entries
  <2> QED BY <2>1, <2>2
<1>8. ASSUME Yield
      PROVE  SchedulerInv'
  <2>1. CASE MakeRunnableAborts(g_current_thread)
    BY <1>8, <2>1, AbortInv DEF Yield
  <2>2. CASE ~MakeRunnableAborts(g_current_thread)
    <3>1. g_current_thread \in live_set_ /\ choosing = "no"
      BY <1>8 DEF Yield, InChild, Executing
    <3>2. /\ runnable_' \in Seq(Entry) /\ NoDup(runnable_')
          /\ Entries(runnable_') \subseteq stacks \union {Null}
      BY <1>8, <2>2, <3>1, WithRunnableFacts DEF Yield
    <3> QED BY <1>8, <2>2, <3>1, <3>2, QueueStep DEF Yield, Entries
  <2> QED BY <2>1, <2>2
<1>9. ASSUME RunUntilEmpty
      PROVE  SchedulerInv'
  BY <1>9, QueueStep DEF RunUntilEmpty, Executing, sets, Entries
<1>10. ASSUME RunOne
       PROVE  SchedulerInv'
  <2>1. PICK i \in Picks : /\ i # 0
                           /\ runnable_' = Erase(runnable_, i)
                           /\ g_current_thread' = SwitchTarget(runnable_[i])
    BY <1>10 DEF RunOne
  <2>2. i \in 1..Len(runnable_)
    BY <2>1 DEF Picks
  <2>3. /\ runnable_' \in Seq(Entry) /\ NoDup(runnable_')
        /\ Entries(runnable_') \subseteq stacks \union {Null}
    BY <2>1, <2>2, EraseFacts
  <2>4. g_current_thread' \in live_set_ \union {Main}
    BY <2>1 DEF SwitchTarget
  <2>5. main_loop /\ choosing = "no"
    BY <1>10 DEF RunOne, InLoop
  <2>6. interrupts_enabled_' \in BOOLEAN
    BY <1>10 DEF RunOne, Resumed
  <2> QED BY <1>10, <2>3, <2>4, <2>5, <2>6, QueueStep DEF RunOne, Entries
<1>11. ASSUME CleanupDeadThreads
       PROVE  SchedulerInv'
  <2>1. Entries(runnable_) = {}
    BY <1>11 DEF CleanupDeadThreads, Entries
  <2>2. /\ runnable_' = runnable_ /\ live_set_' = live_set_
        /\ pending_deletion_' = {} /\ stacks' = stacks \ pending_deletion_
        /\ g_current_thread' = Main /\ choosing' = "no"
    BY <1>11 DEF CleanupDeadThreads, InLoop
  <2>3. stacks' = live_set_
    BY <2>2 DEF SchedulerInv, StacksAccounted
  <2>4. TypeOK'
    BY <1>11, <2>2, <2>3 DEF CleanupDeadThreads, SchedulerInv, TypeOK
  <2>5. NoDoubleEnqueue' /\ QueuedStacksMapped'
    <3>1. NoDoubleEnqueue'
      BY <2>2 DEF SchedulerInv, NoDoubleEnqueue
    <3>2. Entries(runnable_)' = {}
      BY <2>1, <2>2 DEF Entries
    <3> QED BY <3>1, <3>2 DEF QueuedStacksMapped
  <2>6. StacksAccounted' /\ MainInOneLoop' /\ CurrentIsLive'
    BY <2>2, <2>3 DEF StacksAccounted, MainInOneLoop, CurrentIsLive
  <2> QED BY <2>4, <2>5, <2>6 DEF SchedulerInv
<1>12. ASSUME NEW b \in BOOLEAN, ChooseThread(b)
       PROVE  SchedulerInv'
  BY <1>12, QueueStep DEF ChooseThread, Executing, sets, Entries
<1>13. ASSUME Choose
       PROVE  SchedulerInv'
  <2>1. /\ g_current_thread \in live_set_ \union {Main}
        /\ g_current_thread \in Entry \union {Main}
        /\ g_current_thread # Main => g_current_thread \in stacks
    BY <1>13 DEF Choose
  <2>2. ASSUME NEW q \in Seq(Entry), NoDup(q),
               Entries(q) \subseteq Entries(runnable_), Keep(q)
        PROVE  SchedulerInv'
    BY <2>1, <2>2, QueueStep DEF Keep, Entries
  <2>3. ASSUME NEW q \in Seq(Entry), NoDup(q),
               Entries(q) \subseteq Entries(runnable_),
               NEW h \in live_set_ \union {Main}, Leave(q, h)
        PROVE  SchedulerInv'
    <3>1. /\ runnable_' \in Seq(Entry) /\ NoDup(runnable_')
          /\ Entries(runnable_') \subseteq stacks \union {Null}
      <4>1. CASE runnable_' = WithRunnable(q, g_current_thread)
        <5>1. CASE g_current_thread = Main
          BY <2>3, <4>1, <5>1, WithRunnableFacts
        <5>2. CASE g_current_thread # Main
          BY <2>1, <2>3, <4>1, <5>2, WithRunnableFacts
        <5> QED BY <5>1, <5>2
      <4>2. CASE runnable_' = WithoutRunnable(q, g_current_thread)
        BY <2>1, <2>3, <4>2, WithoutRunnableFacts
      <4> QED BY <2>3, <4>1, <4>2 DEF Leave
    <3> QED BY <2>1, <2>3, <3>1, QueueStep DEF Leave, Entries
  <2>4. ASSUME NEW i \in Picks \ {0}, ChooseStep(i)
        PROVE  SchedulerInv'
    <3> DEFINE q == Erase(runnable_, i)
    <3>1. /\ q \in Seq(Entry) /\ NoDup(q)
          /\ Entries(q) \subseteq Entries(runnable_)
      BY <2>4, EraseFacts DEF Picks
    <3>2. CASE Keep(q)
      BY <3>1, <3>2, <2>2
    <3>3. CASE runnable_[i] \in live_set_ /\ Leave(q, runnable_[i])
      BY <3>1, <3>3, <2>3
    <3>4. CASE /\ runnable_' = q
               /\ UNCHANGED <<sets, interrupts_enabled_, g_current_thread,
                              main_loop, choosing, aborted>>
      BY <2>1, <3>1, <3>4, QueueStep DEF Entries
    <3> QED BY <2>4, <3>2, <3>3, <3>4 DEF ChooseStep
  <2>5. CASE Keep(WithoutRunnable(runnable_, g_current_thread))
    BY <2>2, <2>5, WithoutRunnableFacts
  <2>6. /\ <<>> \in Seq(Entry) /\ NoDup(<<>>)
        /\ Entries(<<>>) \subseteq Entries(runnable_)
    BY DEF NoDup, Entries
  <2>7. CASE Keep(<<>>)
    BY <2>2, <2>6, <2>7
  <2>8. CASE Leave(<<>>, Main)
    BY <2>3, <2>6, <2>8
  <2> QED BY <1>13, <2>4, <2>5, <2>7, <2>8 DEF Choose
<1>14. ASSUME UNCHANGED vars
       PROVE  SchedulerInv'
  BY <1>14, StutterInv
<1> QED BY <1>1, <1>2, <1>3, <1>4, <1>5, <1>6, <1>7, <1>8, <1>9, <1>10, <1>11,
           <1>12, <1>13, <1>14 DEF Next, Stopped

(* Every reachable state satisfies the scheduler's invariant: the queue    *)
(* has no handle twice, no queued stack is unmapped, the processor is on a *)
(* live thread, and every mapped stack is live or pending deletion.        *)
THEOREM SchedulerSafe == Spec => []SchedulerInv
BY InitInv, NextInv, PTL DEF Spec

(* runnable_ holds no handle twice, whoever calls MakeRunnable.            *)
THEOREM SchedulerNoDoubleEnqueue == Spec => []NoDoubleEnqueue
<1>1. SchedulerInv => NoDoubleEnqueue
  BY DEF SchedulerInv
<1> QED BY <1>1, SchedulerSafe, PTL

(* No queue entry names an unmapped stack, although dead threads stay      *)
(* queued and addresses are reused.                                        *)
THEOREM SchedulerQueuedMapped == Spec => []QueuedStacksMapped
<1>1. SchedulerInv => QueuedStacksMapped
  BY DEF SchedulerInv
<1> QED BY <1>1, SchedulerSafe, PTL
-----------------------------------------------------------------------------
(* Refinement.  Ready is the mapped ready set; the lemmas state the effect *)
(* of each queue operation on it.                                          *)

Ready == Entries(runnable_) \intersect live_set_

(* A step of the queue and the processor that leaves live_set_ alone maps  *)
(* to one of the abstract moves of the processor.                          *)
LEMMA CoopSwitch ==
  ASSUME NEW t \in Handle \union {Main}, t \in Ready \union {Main},
         t # g_current_thread, g_current_thread' = t, live_set_' = live_set_,
         \/ Ready' = Ready \ {t, g_current_thread}
         \/ g_current_thread # Main /\ Ready' = (Ready \ {t}) \union {g_current_thread}
         \/ Ready' = Ready \ {t}
  PROVE  Coop!Next
<1>1. Coop!Switch(t)
  BY DEF Coop!Switch, Ready
<1> QED BY <1>1 DEF Coop!Next

LEMMA CoopUnready ==
  ASSUME NEW t \in Handle, Ready' = Ready \ {t},
         UNCHANGED <<live_set_, g_current_thread>>
  PROVE  Coop!Next
<1>1. Coop!Unready(t)
  BY DEF Coop!Unready, Ready
<1> QED BY <1>1 DEF Coop!Next

LEMMA CoopStutter ==
  ASSUME Ready' = Ready, UNCHANGED <<live_set_, g_current_thread>>
  PROVE  UNCHANGED Coop!vars
BY DEF Coop!vars, Ready

LEMMA CoopStep == SchedulerInv /\ [Next]_vars => [Coop!Next]_(Coop!vars)
<1> SUFFICES ASSUME SchedulerInv, [Next]_vars
             PROVE  Coop!Next \/ UNCHANGED Coop!vars
  OBVIOUS
<1> USE InvFacts, HandleAssumption
<1>0. ASSUME UNCHANGED <<runnable_, live_set_, g_current_thread>>
      PROVE  UNCHANGED Coop!vars
  BY <1>0, CoopStutter DEF Ready, Entries
<1>1. ASSUME NEW h \in Handle, NEW r \in BOOLEAN, CreateThread(h, r)
      PROVE  Coop!Next
  <2>1. /\ h \notin live_set_ /\ live_set_' = live_set_ \union {h}
        /\ g_current_thread' = g_current_thread
        /\ h \notin Entries(runnable_) /\ h # Main /\ h \in Entry
    BY <1>1 DEF CreateThread, Entry
  <2>2. CASE r
    <3>1. Entries(runnable_') = Entries(runnable_) \union {h}
      BY <1>1, <2>1, <2>2, WithRunnableEntries DEF CreateThread
    <3>2. Ready' = Ready \union {h}
      BY <2>1, <3>1 DEF Ready, Entries
    <3> QED BY <2>1, <3>2 DEF Coop!Next, Coop!Spawn, Ready
  <2>3. CASE ~r
    <3>1. runnable_' = runnable_
      BY <1>1, <2>3 DEF CreateThread
    <3>2. Ready' = Ready
      BY <2>1, <3>1 DEF Ready, Entries
    <3> QED BY <2>1, <3>2 DEF Coop!Next, Coop!Spawn, Ready
  <2> QED BY <2>2, <2>3
<1>2. ASSUME NEW h \in Entry, MakeRunnable(h)
      PROVE  Coop!Next \/ UNCHANGED Coop!vars
  <2>1. CASE MakeRunnableAborts(h)
    BY <1>0, <1>2, <2>1 DEF MakeRunnable, Abort
  <2>2. CASE ~MakeRunnableAborts(h)
    <3>1. /\ runnable_' = WithRunnable(runnable_, h)
          /\ live_set_' = live_set_ /\ g_current_thread' = g_current_thread
      BY <1>2, <2>2 DEF MakeRunnable, sets
    <3>2. h # Main
      BY DEF Entry
    <3>3. Entries(runnable_') = Entries(runnable_) \union {h}
      BY <3>1, <3>2, WithRunnableEntries
    <3>4. CASE h \in live_set_
      <4>1. Ready' = Ready \union {h}
        BY <3>1, <3>3, <3>4 DEF Ready, Entries
      <4> QED BY <3>1, <3>4, <4>1 DEF Coop!Next, Coop!Wake, Ready
    <3>5. CASE h \notin live_set_
      <4>1. Ready' = Ready
        BY <3>1, <3>3, <3>5 DEF Ready, Entries
      <4> QED BY <3>1, <4>1, CoopStutter
    <3> QED BY <3>4, <3>5
  <2> QED BY <2>1, <2>2
<1>3. ASSUME NEW h \in Handle \union {Main}, MakeNotRunnable(h)
      PROVE  Coop!Next \/ UNCHANGED Coop!vars
  <2>1. CASE h = Main
    BY <1>0, <1>3, <2>1 DEF MakeNotRunnable, Abort
  <2>2. CASE h # Main
    <3>1. /\ runnable_' = WithoutRunnable(runnable_, h)
          /\ live_set_' = live_set_ /\ g_current_thread' = g_current_thread
      BY <1>3, <2>2 DEF MakeNotRunnable, sets
    <3>2. Entries(runnable_') = Entries(runnable_) \ {h}
      BY <3>1, WithoutRunnableFacts
    <3>3. Ready' = Ready \ {h}
      BY <3>1, <3>2 DEF Ready, Entries
    <3> QED BY <2>2, <3>1, <3>3, CoopUnready
  <2> QED BY <2>1, <2>2
<1>4. ASSUME NEW b \in BOOLEAN, SetInterruptsEnabled(b)
      PROVE  UNCHANGED Coop!vars
  BY <1>0, <1>4 DEF SetInterruptsEnabled, sets
<1>5. ASSUME ThreadReturns
      PROVE  Coop!Next
  BY <1>5 DEF ThreadReturns, InChild, Coop!Next, Coop!Exit, Entries
<1>6. ASSUME NEW h \in Handle, ThreadDestroyed(h)
      PROVE  Coop!Next
  BY <1>6 DEF ThreadDestroyed, Coop!Next, Coop!Kill, Entries
<1>7. ASSUME Block
      PROVE  Coop!Next \/ UNCHANGED Coop!vars
  <2>1. CASE g_current_thread = Main
    BY <1>0, <1>7, <2>1 DEF Block, Abort
  <2>2. CASE g_current_thread # Main
    <3>1. /\ runnable_' = runnable_ /\ live_set_' = live_set_
          /\ g_current_thread' = Main
      BY <1>7, <2>2 DEF Block, sets
    <3>2. Ready' = Ready \ {Main}
      BY <3>1 DEF Ready, Entries
    <3> QED BY <2>2, <3>1, <3>2, CoopSwitch
  <2> QED BY <2>1, <2>2
<1>8. ASSUME Yield
      PROVE  Coop!Next \/ UNCHANGED Coop!vars
  <2>1. CASE MakeRunnableAborts(g_current_thread)
    BY <1>0, <1>8, <2>1 DEF Yield, Abort
  <2>2. CASE ~MakeRunnableAborts(g_current_thread)
    <3>1. /\ g_current_thread # Main /\ g_current_thread \in live_set_
          /\ runnable_' = WithRunnable(runnable_, g_current_thread)
          /\ live_set_' = live_set_ /\ g_current_thread' = Main
      BY <1>8, <2>2 DEF Yield, InChild, sets
    <3>2. Entries(runnable_') = Entries(runnable_) \union {g_current_thread}
      BY <3>1, WithRunnableEntries
    <3>3. Ready' = (Ready \ {Main}) \union {g_current_thread}
      BY <3>1, <3>2 DEF Ready, Entries
    <3> QED BY <3>1, <3>3, CoopSwitch
  <2> QED BY <2>1, <2>2
<1>9. ASSUME RunUntilEmpty
      PROVE  UNCHANGED Coop!vars
  BY <1>0, <1>9 DEF RunUntilEmpty, sets
<1>10. ASSUME RunOne
       PROVE  Coop!Next \/ UNCHANGED Coop!vars
  <2>1. PICK i \in 1..Len(runnable_) :
           /\ runnable_' = Erase(runnable_, i)
           /\ g_current_thread' = SwitchTarget(runnable_[i])
    BY <1>10 DEF RunOne, Picks
  <2> DEFINE h == runnable_[i]
  <2>2. /\ live_set_' = live_set_ /\ g_current_thread = Main
        /\ h \in Entry /\ h \in Entries(runnable_)
    BY <1>10, <2>1 DEF RunOne, InLoop, sets, Entries
  <2>3. Entries(runnable_') = Entries(runnable_) \ {h}
    BY <2>1, EraseFacts
  <2>4. Ready' = Ready \ {h}
    BY <2>2, <2>3 DEF Ready, Entries
  <2>5. CASE h \in live_set_
    <3>1. g_current_thread' = h /\ h \in Ready /\ h # Main /\ h \in Handle
      BY <2>1, <2>2, <2>5 DEF SwitchTarget, Ready
    <3> QED BY <2>2, <2>4, <3>1, CoopSwitch
  <2>6. CASE h \notin live_set_
    <3>1. g_current_thread' = g_current_thread /\ Ready' = Ready
      BY <2>1, <2>2, <2>4, <2>6 DEF SwitchTarget, Ready
    <3> QED BY <2>2, <3>1, CoopStutter
  <2> QED BY <2>5, <2>6
<1>11. ASSUME CleanupDeadThreads
       PROVE  UNCHANGED Coop!vars
  BY <1>0, <1>11 DEF CleanupDeadThreads
<1>12. ASSUME NEW b \in BOOLEAN, ChooseThread(b)
       PROVE  UNCHANGED Coop!vars
  BY <1>0, <1>12 DEF ChooseThread, sets
<1>13. ASSUME Choose
       PROVE  Coop!Next \/ UNCHANGED Coop!vars
  <2> DEFINE c == g_current_thread
  <2>1. /\ c \in Entry \union {Main} /\ Main \notin live_set_
        /\ c # Main => c \in live_set_ /\ c \in Handle
    BY <1>13 DEF Choose
  <2>2. ASSUME NEW q \in Seq(Entry), Entries(q) = Entries(runnable_) \ {c},
               Keep(q)
        PROVE  Coop!Next \/ UNCHANGED Coop!vars
    <3>0. runnable_' = q /\ live_set_' = live_set_
      BY <2>2 DEF Keep, sets
    <3>a. Ready' = Entries(q) \intersect live_set_
      BY <3>0 DEF Ready, Entries
    <3>1. Ready' = Ready \ {c}
      BY <2>2, <3>a DEF Ready
    <3>2. CASE c = Main
      <4>1. Ready' = Ready
        BY <2>1, <3>1, <3>2 DEF Ready
      <4> QED BY <2>2, <4>1, CoopStutter DEF Keep, sets
    <3>3. CASE c # Main
      BY <2>1, <2>2, <3>1, <3>3, CoopUnready DEF Keep, sets
    <3> QED BY <3>2, <3>3
  <2>3. ASSUME NEW q \in Seq(Entry), NoDup(q),
               NEW h \in Handle \union {Main}, h \in Ready \union {Main},
               Entries(q) = Entries(runnable_) \ {h}, h # c, Leave(q, h)
        PROVE  Coop!Next
    <3>1. live_set_' = live_set_ /\ g_current_thread' = h
      BY <2>3 DEF Leave, sets
    <3>2. CASE runnable_' = WithRunnable(q, c)
      <4>1. CASE c = Main
        <5>0. runnable_' = q
          BY <3>2, <4>1 DEF WithRunnable
        <5>a. Ready' = Entries(q) \intersect live_set_
          BY <3>1, <5>0 DEF Ready, Entries
        <5>1. Ready' = Ready \ {h}
          BY <2>3, <5>a DEF Ready
        <5> QED BY <2>3, <3>1, <5>1, CoopSwitch
      <4>2. CASE c # Main
        <5>1. Entries(runnable_') = Entries(q) \union {c}
          BY <2>1, <2>3, <3>2, <4>2, WithRunnableFacts
        <5>2. Ready' = (Ready \ {h}) \union {c}
          BY <2>1, <2>3, <3>1, <4>2, <5>1 DEF Ready, Entries
        <5> QED BY <2>3, <3>1, <4>2, <5>2, CoopSwitch
      <4> QED BY <4>1, <4>2
    <3>3. CASE runnable_' = WithoutRunnable(q, c)
      <4>1. Entries(runnable_') = Entries(q) \ {c}
        BY <2>3, <3>3, WithoutRunnableFacts
      <4>2. Ready' = Ready \ {h, c}
        BY <2>3, <3>1, <4>1 DEF Ready, Entries
      <4> QED BY <2>3, <3>1, <4>2, CoopSwitch
    <3> QED BY <2>3, <3>2, <3>3 DEF Leave
  <2>4. ASSUME NEW i \in Picks \ {0}, ChooseStep(i)
        PROVE  Coop!Next \/ UNCHANGED Coop!vars
    <3> DEFINE h == runnable_[i]
    <3> DEFINE q == Erase(runnable_, i)
    <3>0. i \in 1..Len(runnable_)
      BY <2>4 DEF Picks
    <3>a. h \in Entries(runnable_)
      BY <3>0 DEF Entries
    <3>1. /\ q \in Seq(Entry) /\ NoDup(q)
          /\ Entries(q) = Entries(runnable_) \ {h}
      BY <3>0, EraseFacts
    <3>2. CASE Keep(q) /\ h = c
      BY <3>1, <3>2, <2>2
    <3>3. CASE h \in live_set_ /\ h # c /\ Leave(q, h)
      <4>1. h \in Ready /\ h \in Handle
        BY <3>a, <3>3 DEF Ready
      <4> QED BY <3>1, <3>3, <4>1, <2>3
    <3>4. CASE /\ runnable_' = q /\ h \notin live_set_
               /\ UNCHANGED <<sets, interrupts_enabled_, g_current_thread,
                              main_loop, choosing, aborted>>
      <4>1. Ready' = Ready
        BY <3>1, <3>4 DEF Ready, Entries, sets
      <4> QED BY <3>4, <4>1, CoopStutter DEF sets
    <3> QED BY <2>4, <3>2, <3>3, <3>4 DEF ChooseStep
  <2>5. CASE Keep(WithoutRunnable(runnable_, c))
    BY <2>2, <2>5, WithoutRunnableFacts
  <2>6. ASSUME runnable_ = <<>>
        PROVE  /\ runnable_ \in Seq(Entry)
               /\ Entries(runnable_) = {}
    BY <2>6 DEF Entries
  <2>7. CASE runnable_ = <<>> /\ Keep(<<>>)
    BY <2>2, <2>6, <2>7
  <2>8. CASE runnable_ = <<>> /\ Leave(<<>>, Main)
    <3>1. CASE c # Main
      BY <2>1, <2>3, <2>6, <2>8, <3>1
    <3>2. CASE c = Main
      <4>1. /\ live_set_' = live_set_ /\ g_current_thread' = c
            /\ runnable_' = WithRunnable(<<>>, c)
        BY <2>8, <3>2 DEF Leave, sets
      <4>2. runnable_' = runnable_
        BY <2>8, <3>2, <4>1 DEF WithRunnable
      <4> QED BY <1>0, <4>1, <4>2
    <3> QED BY <3>1, <3>2
  <2> QED BY <1>13, <2>4, <2>5, <2>7, <2>8 DEF Choose
<1>14. ASSUME UNCHANGED vars
       PROVE  UNCHANGED Coop!vars
  BY <1>0, <1>14 DEF vars
<1> QED BY <1>1, <1>2, <1>3, <1>4, <1>5, <1>6, <1>7, <1>8, <1>9, <1>10, <1>11,
           <1>12, <1>13, <1>14 DEF Next, Stopped

(* The scheduler, with its vector, its dead handles and its deferred       *)
(* deletion, implements the one-processor specification: the processor     *)
(* only ever goes to main or to a live thread that was made runnable and   *)
(* not taken off the queue since.                                          *)
THEOREM SchedulerImplementsCoop == Spec => ImplementsCoop
<1>1. Init => Coop!Init
  BY DEF Init, Coop!Init, Entries
<1> QED BY <1>1, SchedulerSafe, CoopStep, PTL
        DEF Spec, ImplementsCoop, Coop!Spec
-----------------------------------------------------------------------------
(* The bounded clients of MCFuzzedScheduler: their steps are steps of Next *)
(* that may also spend a call.                                             *)

BoundedInv == SchedulerInv /\ fuel \in Nat

LEMMA BoundedInitInv == BoundedInit => BoundedInv
BY InitInv, FuelAssumption DEF BoundedInit, BoundedInv

LEMMA BoundedStepIsStep ==
  ASSUME BoundedInv, [BoundedNext]_<<vars, fuel>>
  PROVE  [Next]_vars /\ fuel' \in Nat
<1>1. CASE UNCHANGED <<vars, fuel>>
  BY <1>1 DEF BoundedInv, vars
<1>2. CASE BoundedNext
  <2>1. Next
    BY <1>2 DEF BoundedNext, Next
  <2>2. fuel' = fuel \/ (fuel > 0 /\ fuel' = fuel - 1)
    BY <1>2 DEF BoundedNext, Spend, Free
  <2> QED BY <2>1, <2>2 DEF BoundedInv
<1> QED BY <1>1, <1>2

LEMMA BoundedNextInv ==
  BoundedInv /\ [BoundedNext]_<<vars, fuel>> => BoundedInv'
BY BoundedStepIsStep, NextInv DEF BoundedInv

LEMMA WorkNat == SchedulerInv => Work \in Nat /\ Len(runnable_) \in Nat
<1> SUFFICES ASSUME SchedulerInv PROVE Work \in Nat /\ Len(runnable_) \in Nat
  OBVIOUS
<1>1. Len(runnable_) \in Nat
  BY InvFacts
<1>2. \A b : Ones(b) \in 0..1
  BY DEF Ones
<1> QED BY <1>1, <1>2 DEF Work

LEMMA WorkNatPrime ==
  SchedulerInv' => (Work \in Nat /\ Len(runnable_) \in Nat)'
BY WorkNat, PTL

(* An abort() ends the program.                                            *)
LEMMA AbortWork ==
  ASSUME SchedulerInv, ~aborted, Abort
  PROVE  Work' < Work
BY WorkNat DEF Abort, Work, Ones

(* A call brings in at most two units of work.                             *)
LEMMA CallWork ==
  ASSUME SchedulerInv, SchedulerInv',
         \/ \E h \in Handle, r \in BOOLEAN : CreateThread(h, r)
         \/ \E h \in Entry : MakeRunnable(h)
         \/ \E h \in Handle \union {Main} : MakeNotRunnable(h)
         \/ \E b \in BOOLEAN : SetInterruptsEnabled(b)
         \/ \E h \in Handle : ThreadDestroyed(h)
         \/ Yield
         \/ RunUntilEmpty
         \/ \E b \in BOOLEAN : ChooseThread(b)
  PROVE  Work' <= Work + 2
<1> USE InvFacts
<1>0. Len(runnable_) \in Nat /\ Len(runnable_') \in Nat
  BY WorkNat
<1>a. Work \in Nat /\ Work' \in Nat
  BY WorkNat, WorkNatPrime
<1>b. ASSUME Len(runnable_') <= Len(runnable_) + 1,
             UNCHANGED <<g_current_thread, main_loop, choosing, aborted>>
      PROVE  Work' <= Work + 2
  <2>1. /\ Ones(choosing # "no")' = Ones(choosing # "no")
        /\ Ones(g_current_thread # Main)' = Ones(g_current_thread # Main)
        /\ Ones(main_loop)' = Ones(main_loop)
        /\ Ones(~aborted)' = Ones(~aborted)
    BY <1>b
  <2>2. \A b : Ones(b) \in 0..1
    BY DEF Ones
  <2> QED BY <1>0, <1>b, <2>1, <2>2 DEF Work
<1>c. ASSUME ~aborted, Abort
      PROVE  Work' <= Work + 2
  BY <1>a, <1>c, AbortWork
<1>1. ASSUME NEW h \in Handle, NEW r \in BOOLEAN, CreateThread(h, r)
      PROVE  Work' <= Work + 2
  <2>1. Len(runnable_') <= Len(runnable_) + 1
    BY <1>0, <1>1, WithRunnableFacts DEF CreateThread, Entry
  <2> QED BY <1>b, <1>1, <2>1 DEF CreateThread
<1>2. ASSUME NEW h \in Entry, MakeRunnable(h)
      PROVE  Work' <= Work + 2
  <2>1. CASE MakeRunnableAborts(h)
    BY <1>c, <1>2, <2>1 DEF MakeRunnable, Executing
  <2>2. CASE ~MakeRunnableAborts(h)
    <3>1. Len(runnable_') <= Len(runnable_) + 1
      BY <1>2, <2>2, WithRunnableFacts DEF MakeRunnable
    <3> QED BY <1>b, <1>2, <2>2, <3>1 DEF MakeRunnable
  <2> QED BY <2>1, <2>2
<1>3. ASSUME NEW h \in Handle \union {Main}, MakeNotRunnable(h)
      PROVE  Work' <= Work + 2
  <2>1. CASE h = Main
    BY <1>c, <1>3, <2>1 DEF MakeNotRunnable, Executing
  <2>2. CASE h # Main
    <3>1. Len(runnable_') <= Len(runnable_)
      BY <1>3, <2>2, WithoutRunnableFacts DEF MakeNotRunnable
    <3>2. Len(runnable_') <= Len(runnable_) + 1
      BY <1>0, <3>1
    <3> QED BY <1>b, <1>3, <2>2, <3>2 DEF MakeNotRunnable
  <2> QED BY <2>1, <2>2
<1>4. ASSUME \/ \E b \in BOOLEAN : SetInterruptsEnabled(b)
             \/ \E h \in Handle : ThreadDestroyed(h)
      PROVE  Work' <= Work + 2
  BY <1>0, <1>b, <1>4 DEF SetInterruptsEnabled, ThreadDestroyed
<1>5. ASSUME Yield
      PROVE  Work' <= Work + 2
  <2>1. CASE MakeRunnableAborts(g_current_thread)
    BY <1>c, <1>5, <2>1 DEF Yield, InChild, Executing
  <2>2. CASE ~MakeRunnableAborts(g_current_thread)
    <3>1. Len(runnable_') <= Len(runnable_) + 1
      BY <1>5, <2>2, WithRunnableFacts DEF Yield
    <3>2. /\ g_current_thread' = Main
          /\ UNCHANGED <<main_loop, choosing, aborted>>
      BY <1>5, <2>2 DEF Yield
    <3> QED BY <1>0, <3>1, <3>2 DEF Work, Ones
  <2> QED BY <2>1, <2>2
<1>6. ASSUME RunUntilEmpty
      PROVE  Work' <= Work + 2
  BY <1>0, <1>6 DEF RunUntilEmpty, Work, Ones
<1>7. ASSUME NEW b \in BOOLEAN, ChooseThread(b)
      PROVE  Work' <= Work + 2
  BY <1>0, <1>7 DEF ChooseThread, Work, Ones
<1> QED BY <1>1, <1>2, <1>3, <1>4, <1>5, <1>6, <1>7

(* Every iteration of the picking loops, and every return of the processor *)
(* to main, uses work up: a thread that a pick queues again had left       *)
(* ChooseThread, which is worth as much as a queue entry.                  *)
LEMMA FreeWork ==
  ASSUME SchedulerInv, SchedulerInv',
         ThreadReturns \/ Block \/ RunOne \/ CleanupDeadThreads \/ Choose
  PROVE  Work' < Work
<1> USE InvFacts
<1>0. Len(runnable_) \in Nat /\ Len(runnable_') \in Nat
  BY WorkNat
<1>1. ASSUME ThreadReturns
      PROVE  Work' < Work
  BY <1>0, <1>1 DEF ThreadReturns, InChild, Work, Ones
<1>2. ASSUME Block
      PROVE  Work' < Work
  <2>1. CASE g_current_thread = Main
    BY <1>2, <2>1, AbortWork DEF Block, Executing
  <2>2. CASE g_current_thread # Main
    BY <1>0, <1>2, <2>2 DEF Block, Work, Ones
  <2> QED BY <2>1, <2>2
<1>3. ASSUME RunOne
      PROVE  Work' < Work
  <2>1. PICK i \in 1..Len(runnable_) : runnable_' = Erase(runnable_, i)
    BY <1>3 DEF RunOne, Picks
  <2>2. Len(runnable_') = Len(runnable_) - 1
    BY <2>1, EraseFacts
  <2>3. /\ g_current_thread = Main
        /\ UNCHANGED <<main_loop, choosing, aborted>>
    BY <1>3 DEF RunOne, InLoop
  <2> QED BY <1>0, <2>2, <2>3 DEF Work, Ones
<1>4. ASSUME CleanupDeadThreads
      PROVE  Work' < Work
  BY <1>0, <1>4 DEF CleanupDeadThreads, InLoop, Work, Ones
<1>5. ASSUME Choose
      PROVE  Work' < Work
  <2>1. choosing # "no" /\ g_current_thread \in Entry \union {Main}
    BY <1>5 DEF Choose
  <2>2. ASSUME NEW q \in Seq(Entry), Len(q) <= Len(runnable_), Keep(q)
        PROVE  Work' < Work
    BY <1>0, <2>1, <2>2 DEF Keep, Work, Ones
  <2>3. ASSUME NEW q \in Seq(Entry), NEW h, Leave(q, h)
        PROVE  /\ Len(runnable_') <= Len(q) + 1
               /\ choosing' = "no" /\ g_current_thread' = h
               /\ UNCHANGED <<main_loop, aborted>>
    <3>1. Len(q) \in Nat
      OBVIOUS
    <3>2. CASE runnable_' = WithRunnable(q, g_current_thread)
      BY <2>1, <2>3, <3>2, WithRunnableFacts DEF Leave
    <3>3. CASE runnable_' = WithoutRunnable(q, g_current_thread)
      <4>1. Len(runnable_') <= Len(q)
        BY <2>3, <3>3, WithoutRunnableFacts
      <4> QED BY <1>0, <2>3, <3>1, <4>1 DEF Leave
    <3> QED BY <2>3, <3>2, <3>3 DEF Leave
  <2>4. ASSUME NEW i \in Picks \ {0}, ChooseStep(i)
        PROVE  Work' < Work
    <3> DEFINE q == Erase(runnable_, i)
    <3>1. q \in Seq(Entry) /\ Len(q) = Len(runnable_) - 1
      BY <2>4, EraseFacts DEF Picks
    <3>2. CASE Keep(q)
      <4>1. Len(q) <= Len(runnable_)
        BY <1>0, <3>1
      <4> QED BY <2>2, <3>1, <3>2, <4>1
    <3>3. CASE runnable_[i] \in live_set_ /\ Leave(q, runnable_[i])
      <4>1. /\ Len(runnable_') <= Len(runnable_)
            /\ choosing' = "no"
            /\ UNCHANGED <<main_loop, aborted>>
        BY <1>0, <2>3, <3>1, <3>3
      <4> QED BY <1>0, <2>1, <4>1 DEF Work, Ones
    <3>4. CASE /\ runnable_' = q
               /\ UNCHANGED <<sets, interrupts_enabled_, g_current_thread,
                              main_loop, choosing, aborted>>
      BY <1>0, <3>1, <3>4 DEF Work, Ones
    <3> QED BY <2>4, <3>2, <3>3, <3>4 DEF ChooseStep
  <2>5. CASE Keep(WithoutRunnable(runnable_, g_current_thread))
    BY <2>2, <2>5, WithoutRunnableFacts
  <2>6. CASE runnable_ = <<>> /\ Keep(<<>>)
    <3>1. <<>> \in Seq(Entry) /\ Len(<<>>) = 0
      OBVIOUS
    <3>2. Len(<<>>) <= Len(runnable_)
      BY <1>0, <2>6
    <3> QED BY <2>2, <2>6, <3>1, <3>2
  <2>7. CASE runnable_ = <<>> /\ Leave(<<>>, Main)
    <3>1. <<>> \in Seq(Entry) /\ Len(<<>>) = 0
      OBVIOUS
    <3>2. /\ Len(runnable_) = 0 /\ Len(runnable_') <= 0 + 1
          /\ choosing' = "no" /\ g_current_thread' = Main
          /\ UNCHANGED <<main_loop, aborted>>
      <4> HIDE DEF Leave
      <4>1. Leave(<<>>, Main)
        BY <2>7
      <4>2. Len(runnable_') <= Len(<<>>) + 1
        BY <2>3, <3>1, <4>1
      <4> QED BY <2>3, <2>7, <3>1, <4>1, <4>2
    <3>3. CASE g_current_thread # Main
      BY <1>0, <2>1, <3>2, <3>3 DEF Work, Ones
    <3>4. CASE g_current_thread = Main
      <4>1. runnable_' = <<>>
        BY <2>7, <3>4 DEF Leave, WithRunnable
      <4> QED BY <1>0, <2>1, <3>1, <3>2, <3>4, <4>1 DEF Work, Ones
    <3> QED BY <3>3, <3>4
  <2> QED BY <1>5, <2>4, <2>5, <2>6, <2>7 DEF Choose
<1> QED BY <1>1, <1>2, <1>3, <1>4, <1>5

LEMMA VariantDecreases ==
  ASSUME BoundedInv, BoundedInv', BoundedNext
  PROVE  Variant' < Variant \/ UNCHANGED <<vars, fuel>>
<1>0. /\ Work \in Nat /\ Work' \in Nat /\ fuel \in Nat
      /\ SchedulerInv /\ SchedulerInv'
  BY WorkNat, WorkNatPrime DEF BoundedInv
<1>1. Variant = 3 * fuel + Work /\ Variant' = 3 * fuel' + Work'
  BY DEF Variant
<1>2. CASE /\ fuel' = fuel - 1
           /\ \/ \E h \in Handle, r \in BOOLEAN : CreateThread(h, r)
              \/ \E h \in Entry : MakeRunnable(h)
              \/ \E h \in Handle \union {Main} : MakeNotRunnable(h)
              \/ \E b \in BOOLEAN : SetInterruptsEnabled(b)
              \/ \E h \in Handle : ThreadDestroyed(h)
              \/ Yield
              \/ RunUntilEmpty
              \/ \E b \in BOOLEAN : ChooseThread(b)
  <2>1. Work' <= Work + 2
    BY <1>0, <1>2, CallWork
  <2>2. fuel' = fuel - 1
    BY <1>2
  <2>3. \A f, w, v \in Nat : v <= w + 2 => 3 * (f - 1) + v < 3 * f + w
    OBVIOUS
  <2> QED BY <1>0, <1>1, <2>1, <2>2, <2>3
<1>3. CASE /\ fuel' = fuel
           /\ ThreadReturns \/ Block \/ RunOne \/ CleanupDeadThreads \/ Choose
  <2>1. Work' < Work
    BY <1>0, <1>3, FreeWork
  <2>2. fuel' = fuel
    BY <1>3
  <2>3. \A f, w, v \in Nat : v < w => 3 * f + v < 3 * f + w
    OBVIOUS
  <2> QED BY <1>0, <1>1, <2>1, <2>2, <2>3
<1>4. CASE fuel' = fuel /\ Stopped
  BY <1>4 DEF Stopped
<1> QED BY <1>2, <1>3, <1>4 DEF BoundedNext, Spend, Free

(* Every step of the scheduler and of its clients uses up part of a budget *)
(* that is at most 3 * Fuel + 1, so neither RunUntilEmpty nor ChooseThread *)
(* can go round for ever: RunUntilEmptyReturns without its fairness.       *)
THEOREM SchedulerEveryStepConsumes ==
  BoundedSpec => EveryStepConsumes /\ [](Variant \in 0..(3 * Fuel + 1))
<1>0. BoundedInv => Variant \in Nat
  BY WorkNat DEF BoundedInv, Variant
<1>1. BoundedInit => Variant \in 0..(3 * Fuel + 1)
  BY FuelAssumption DEF BoundedInit, Init, Variant, Work, Ones
<1>2. ASSUME BoundedInv, BoundedInv', [BoundedNext]_<<vars, fuel>>
      PROVE  [Variant' < Variant]_<<vars, fuel>>
  BY <1>2, VariantDecreases
<1>3. ASSUME BoundedInv, BoundedInv', Variant \in 0..(3 * Fuel + 1),
             [BoundedNext]_<<vars, fuel>>
      PROVE  (Variant \in 0..(3 * Fuel + 1))'
  <2>1. CASE UNCHANGED <<vars, fuel>>
    BY <1>3, <2>1 DEF Variant, Work, vars
  <2>2. CASE Variant' < Variant
    <3>1. (Variant \in Nat)'
      BY <1>0, <1>3, PTL
    <3> QED BY <1>3, <2>2, <3>1, FuelAssumption
  <2> QED BY <1>2, <1>3, <2>1, <2>2
<1>4. BoundedSpec => []BoundedInv
  BY BoundedInitInv, BoundedNextInv, PTL DEF BoundedSpec
<1> QED BY <1>1, <1>2, <1>3, <1>4, PTL DEF BoundedSpec, EveryStepConsumes

(* RunUntilEmpty returns with nothing queued and with every dead thread's  *)
(* stack unmapped; no other step leaves the loop.                          *)
THEOREM SchedulerLoopLeavesNothing == Spec => LoopLeavesNothing
<1>1. ASSUME SchedulerInv, SchedulerInv', [Next]_vars, main_loop, ~main_loop'
      PROVE  runnable_' = <<>> /\ stacks' = live_set_'
  <2>1. CleanupDeadThreads
    BY <1>1 DEF Next, vars, CreateThread, MakeRunnable, MakeNotRunnable, Abort,
       SetInterruptsEnabled, ThreadReturns, ThreadDestroyed, Block, Yield,
       RunUntilEmpty, RunOne, ChooseThread, Choose, ChooseStep, Keep, Leave,
       Stopped
  <2>2. runnable_' = <<>> /\ pending_deletion_' = {}
    BY <2>1 DEF CleanupDeadThreads
  <2> QED BY <1>1, <2>2 DEF SchedulerInv, StacksAccounted
<1>2. SchedulerInv /\ SchedulerInv' /\ [Next]_vars
        => [main_loop /\ ~main_loop' => runnable_' = <<>> /\ stacks' = live_set_']_vars
  BY <1>1
<1> QED BY <1>2, SchedulerSafe, PTL DEF Spec, LoopLeavesNothing
=============================================================================
