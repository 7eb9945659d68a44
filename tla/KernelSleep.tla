---------------------------- MODULE KernelSleep ----------------------------
(***************************************************************************)
(* fuzz/xnu/osfmk/fakes/locks.c: the sleep functions lck_mtx_sleep,        *)
(* lck_spin_sleep, lck_rw_sleep (and their deadline forms) and the         *)
(* *_sleep_with_inheritor functions with their wakeups, used the way the   *)
(* kernel uses them: a thread tests a condition under a lock and sleeps    *)
(* until it holds; another one makes it true under the lock and wakes.     *)
(*                                                                         *)
(* One processor: a thread runs until it yields, blocks or finishes.  The  *)
(* lock is a readers-writer lock (VirtualRwLock); a mutex, spin or ticket  *)
(* lock is one that is only taken exclusively, and the SPIN flags take a   *)
(* mutex like the others.  Priorities, the inheritor and the turnstile's   *)
(* own bookkeeping are left out, and so is a wait for one of the locks     *)
(* inside turnstile_update_inheritor_complete.                             *)
(***************************************************************************)
CONSTANTS Thread,    \* kernel threads
          Main,      \* main_thread, which only hands the processor out
          Action     \* the lck_sleep_action values in use

Flag == {"UNLOCK", "SHARED", "EXCLUSIVE"}

ASSUME MainAssumption == Main \notin Thread
ASSUME ActionAssumption == Action \subseteq SUBSET Flag

Mode == {"shared", "exclusive"}

VARIABLES inheritor,     \* the threads use the functions with an inheritor
          cpu,           \* g_current_thread
          pc,            \* where a thread is in a call
          waker,         \* threads that make the condition true
          hold,          \* mode in which a thread holds the lock
          want,          \* mode in which it takes the lock next
          action,        \* its lck_sleep_action
          entered,       \* mode it held when it called the sleep function
          interrupted,   \* threads whose assert_wait returned INTERRUPTED
          waitq,         \* threads in the wait queue of the event
          bucket,        \* owner of the turnstile hash bucket lock, or Main
          condition      \* what the sleepers wait for

call == <<waker, want, action, entered, interrupted>>
vars == <<inheritor, cpu, pc, call, hold, waitq, bucket, condition>>

(* Outside; taking the lock; testing the condition; in a sleep function    *)
(* before, and after, assert_wait, before and in thread_block; reclaiming; *)
(* with an inheritor: taking the bucket lock, dropping the lock under it,  *)
(* about to assert the wait, completing; in a wakeup; unlocking.           *)
Pc == {"out", "lock", "test", "sleep", "asserted", "block", "blocked",
       "reclaim", "bucket", "drop", "prepare", "complete", "release", "wakeup",
       "wake_bucket", "wake", "wake_complete", "unlock"}

TypeOK == /\ inheritor \in BOOLEAN
          /\ cpu \in Thread \union {Main}
          /\ pc \in [Thread -> Pc]
          /\ waker \subseteq Thread
          /\ hold \in [Thread -> Mode \union {"none"}]
          /\ want \in [Thread -> Mode]
          /\ action \in [Thread -> SUBSET Flag]
          /\ entered \in [Thread -> Mode]
          /\ interrupted \subseteq Thread
          /\ waitq \subseteq Thread
          /\ bucket \in Thread \union {Main}
          /\ condition \in BOOLEAN

Init == /\ inheritor \in BOOLEAN
        /\ cpu = Main
        /\ pc = [t \in Thread |-> "out"]
        /\ waker = {} /\ interrupted = {} /\ waitq = {}
        /\ hold = [t \in Thread |-> "none"]
        /\ want = [t \in Thread |-> "exclusive"]
        /\ action = [t \in Thread |-> {}]
        /\ entered = [t \in Thread |-> "exclusive"]
        /\ bucket = Main
        /\ condition = FALSE
-----------------------------------------------------------------------------
Goto(t, p) == pc' = [pc EXCEPT ![t] = p]

(* Host::Yield: nothing for a thread that waits on an event already,       *)
(* otherwise main may give the processor to anyone.                        *)
Yield(t) == cpu' = IF t \in waitq THEN t ELSE Main

LockFree(mode) == \A u \in Thread : IF mode = "shared" THEN hold[u] # "exclusive"
                                                       ELSE hold[u] = "none"

(* A thread that main can give the processor to, and that gets on: one     *)
(* that finds a lock taken blocks again.                                   *)
Ready(t) ==
    /\ pc[t] # "out"
    /\ pc[t] = "blocked" => t \notin waitq
    /\ pc[t] \in {"lock", "reclaim"} => LockFree(want[t])
    /\ pc[t] \in {"bucket", "complete", "wake_bucket", "wake_complete"} => bucket = Main

RunOne(t) == /\ cpu = Main /\ Ready(t)
             /\ cpu' = t
             /\ UNCHANGED <<inheritor, pc, call, hold, waitq, bucket, condition>>

(* A thread starts to wait for the condition, or to make it true.          *)
Begin(t, wakes, mode) ==
    /\ cpu = Main /\ pc[t] = "out"
    /\ wakes \/ inheritor => mode = "exclusive"
    /\ Goto(t, "lock")
    /\ waker' = IF wakes THEN waker \union {t} ELSE waker \ {t}
    /\ want' = [want EXCEPT ![t] = mode]
    /\ interrupted' = interrupted \ {t}
    /\ UNCHANGED <<inheritor, cpu, action, entered, hold, waitq,
                   bucket, condition>>

(* lck_mtx_lock, lck_spin_lock, lck_ticket_lock, lck_rw_lock: the Yield    *)
(* came before.                                                            *)
Lock(t) ==
    /\ cpu = t /\ pc[t] = "lock" /\ LockFree(want[t])
    /\ hold' = [hold EXCEPT ![t] = want[t]]
    /\ Goto(t, "test")
    /\ UNCHANGED <<inheritor, cpu, call, waitq, bucket, condition>>

Unlock(t) ==
    /\ cpu = t /\ pc[t] = "unlock"
    /\ hold' = [hold EXCEPT ![t] = "none"]
    /\ Goto(t, "out") /\ Yield(t)
    /\ UNCHANGED <<inheritor, call, waitq, bucket, condition>>

(* The condition holds: a writer uses it up, a reader has seen it.         *)
Proceed(t) ==
    /\ cpu = t /\ pc[t] = "test" /\ t \notin waker /\ condition
    /\ condition' = (hold[t] = "shared")
    /\ Goto(t, "unlock")
    /\ UNCHANGED <<inheritor, cpu, call, hold, waitq, bucket>>

(* It does not: call a sleep function.  assert_wait and the bucket lock    *)
(* begin by taking a lock.                                                 *)
Sleep(t, flags) ==
    /\ cpu = t /\ pc[t] = "test" /\ t \notin waker /\ ~condition
    /\ action' = [action EXCEPT ![t] = flags]
    /\ entered' = [entered EXCEPT ![t] = hold[t]]
    /\ Goto(t, IF inheritor THEN "bucket" ELSE "sleep") /\ Yield(t)
    /\ UNCHANGED <<inheritor, waker, want, interrupted, hold,
                   waitq, bucket, condition>>
-----------------------------------------------------------------------------
(* lck_mtx_sleep, lck_spin_sleep, lck_rw_sleep and their deadline forms.   *)

AssertWait(t) ==
    /\ cpu = t /\ pc[t] = "sleep"
    /\ waitq' = waitq \union {t}
    /\ Goto(t, "asserted")
    /\ UNCHANGED <<inheritor, cpu, call, hold, bucket, condition>>

(* A pending abort: the caller gives up, with the lock unless UNLOCK.      *)
AssertWaitInterrupted(t) ==
    /\ cpu = t /\ pc[t] = "sleep"
    /\ interrupted' = interrupted \union {t}
    /\ IF "UNLOCK" \in action[t]
       THEN /\ hold' = [hold EXCEPT ![t] = "none"]
            /\ Goto(t, "out") /\ Yield(t)
       ELSE Goto(t, "unlock") /\ UNCHANGED <<hold, cpu>>
    /\ UNCHANGED <<inheritor, waker, want, action, entered,
                   waitq, bucket, condition>>

(* The mode in which lck_rw_sleep reclaims a lock that was held as type.   *)
ReclaimMode(flags, type) == CASE "EXCLUSIVE" \in flags -> "exclusive"
                              [] "SHARED" \in flags /\ "EXCLUSIVE" \notin flags -> "shared"
                              [] OTHER -> type

(* Mutant: lck_rw_done looks at the lock after it released it.             *)
SleepUnlockReadsLate(t) ==
    /\ cpu = t /\ pc[t] = "asserted"
    /\ hold' = [hold EXCEPT ![t] = "none"]
    /\ want' = [want EXCEPT ![t] =
          IF "UNLOCK" \in action[t] THEN want[t]
          ELSE ReclaimMode(action[t], IF \E u \in Thread : hold'[u] = "shared"
                                      THEN "shared" ELSE "exclusive")]
    /\ Goto(t, "block") /\ Yield(t)
    /\ UNCHANGED <<inheritor, waker, action, entered, interrupted, waitq,
                   bucket, condition>>

(* RwLockIsShared, as lck_rw_done uses it.                                 *)
IsShared == IF \E u \in Thread : hold[u] = "shared" THEN "shared" ELSE "exclusive"

(* The lock is released; lck_rw_done tells how it was held by looking at   *)
(* the lock, not at the caller.                                            *)
SleepUnlock(t) ==
    /\ cpu = t /\ pc[t] = "asserted"
    /\ hold' = [hold EXCEPT ![t] = "none"]
    /\ want' = [want EXCEPT ![t] = IF "UNLOCK" \in action[t] THEN want[t]
                                   ELSE ReclaimMode(action[t], IsShared)]
    /\ Goto(t, "block") /\ Yield(t)
    /\ UNCHANGED <<inheritor, waker, action, entered, interrupted, waitq,
                   bucket, condition>>

ThreadBlock(t) ==
    /\ cpu = t /\ pc[t] = "block"
    /\ Goto(t, "blocked")
    /\ cpu' = Main
    /\ UNCHANGED <<inheritor, call, hold, waitq, bucket, condition>>

(* The thread is aborted (deadlines do not pass, as no timer fires);       *)
(* thread_block returns AWAKENED even so (see HostThread).                 *)
WaitEnds(t) ==
    /\ cpu = Main /\ pc[t] = "blocked" /\ t \in waitq
    /\ waitq' = waitq \ {t}
    /\ UNCHANGED <<inheritor, cpu, pc, call, hold, bucket, condition>>

(* thread_block returns: reclaim the lock, or return and, the wait being   *)
(* over, lock and test again.                                              *)
Blocked(t) ==
    /\ cpu = t /\ pc[t] = "blocked"
    /\ Goto(t, IF inheritor THEN "complete"
               ELSE IF "UNLOCK" \in action[t] THEN "lock" ELSE "reclaim")
    /\ Yield(t)
    /\ UNCHANGED <<inheritor, call, hold, waitq, bucket, condition>>

Reclaim(t) ==
    /\ cpu = t /\ pc[t] = "reclaim" /\ LockFree(want[t])
    /\ hold' = [hold EXCEPT ![t] = want[t]]
    /\ Goto(t, IF t \in interrupted THEN "unlock" ELSE "test")
    /\ UNCHANGED <<inheritor, cpu, call, waitq, bucket, condition>>
-----------------------------------------------------------------------------
(* sleep_with_inheritor_and_turnstile.                                     *)

BucketLock(t) ==
    /\ cpu = t /\ pc[t] = "bucket" /\ bucket = Main
    /\ bucket' = t
    /\ Goto(t, "drop")
    /\ UNCHANGED <<inheritor, cpu, call, hold, waitq, condition>>

(* Mutant: the bucket lock does not cover the window.                      *)
DropUncovered(t) ==
    /\ cpu = t /\ pc[t] = "drop"
    /\ hold' = [hold EXCEPT ![t] = "none"]
    /\ bucket' = Main
    /\ Goto(t, "prepare") /\ Yield(t)
    /\ UNCHANGED <<inheritor, call, waitq, condition>>

(* primitive_unlock under the bucket lock; others may run.                 *)
Drop(t) ==
    /\ cpu = t /\ pc[t] = "drop"
    /\ hold' = [hold EXCEPT ![t] = "none"]
    /\ Goto(t, "prepare") /\ Yield(t)
    /\ UNCHANGED <<inheritor, call, waitq, bucket, condition>>

(* waitq_assert_wait64, then the bucket lock is released.                  *)
Prepare(t) ==
    /\ cpu = t /\ pc[t] = "prepare"
    /\ waitq' = waitq \union {t}
    /\ bucket' = Main
    /\ Goto(t, "block")
    /\ UNCHANGED <<inheritor, cpu, call, hold, condition>>

PrepareInterrupted(t) ==
    /\ cpu = t /\ pc[t] = "prepare"
    /\ interrupted' = interrupted \union {t}
    /\ bucket' = Main
    /\ Goto(t, "complete") /\ Yield(t)
    /\ UNCHANGED <<inheritor, waker, want, action, entered, hold,
                   waitq, condition>>

(* turnstile_complete_hash under the bucket lock, then primitive_lock,     *)
(* which is empty with UNLOCK.                                             *)
Complete(t) ==
    /\ cpu = t /\ pc[t] = "complete" /\ bucket = Main
    /\ Goto(t, IF "UNLOCK" \notin action[t] THEN "reclaim"
               ELSE IF t \in interrupted THEN "out" ELSE "lock")
    /\ Yield(t)
    /\ UNCHANGED <<inheritor, call, hold, waitq, bucket, condition>>
-----------------------------------------------------------------------------
(* The condition is made true; the wakeup is made with the lock held or    *)
(* after releasing it.                                                     *)
Signal(t) ==
    /\ cpu = t /\ pc[t] = "test" /\ t \in waker
    /\ condition' = TRUE
    /\ \/ Goto(t, "release")
       \/ Goto(t, IF inheritor THEN "wake_bucket" ELSE "wakeup")
    /\ Yield(t)
    /\ UNCHANGED <<inheritor, call, hold, waitq, bucket>>

Release(t) ==
    /\ cpu = t /\ pc[t] = "release"
    /\ hold' = [hold EXCEPT ![t] = "none"]
    /\ Goto(t, IF inheritor THEN "wake_bucket" ELSE "wakeup") /\ Yield(t)
    /\ UNCHANGED <<inheritor, call, waitq, bucket, condition>>

AfterWakeup(t) == Goto(t, IF hold[t] = "none" THEN "out" ELSE "unlock")

(* thread_wakeup(event).                                                   *)
ThreadWakeup(t) ==
    /\ cpu = t /\ pc[t] = "wakeup"
    /\ waitq' = {}
    /\ AfterWakeup(t)
    /\ cpu' = Main
    /\ UNCHANGED <<inheritor, call, hold, bucket, condition>>

(* wakeup_with_inheritor_and_turnstile takes the bucket lock ...           *)
WakeBucketLock(t) ==
    /\ cpu = t /\ pc[t] = "wake_bucket" /\ bucket = Main
    /\ bucket' = t
    /\ Goto(t, "wake")
    /\ UNCHANGED <<inheritor, cpu, call, hold, waitq, condition>>

(* Mutant: "goto complete" past the bucket's unlock.                       *)
WakeOneKeepsBucket(t, transfer) ==
    /\ cpu = t /\ pc[t] = "wake"
    /\ \/ \E u \in waitq : waitq' = waitq \ {u}
       \/ waitq = {} /\ UNCHANGED waitq
    /\ IF waitq # {} /\ ~transfer
       THEN AfterWakeup(t) /\ UNCHANGED bucket
       ELSE Goto(t, "wake_complete") /\ bucket' = Main
    /\ cpu' = Main
    /\ UNCHANGED <<inheritor, call, hold, condition>>

(* ... wakes one thread, if there is one: without a transfer of the push   *)
(* it completes at once, otherwise it drops the bucket lock in between ... *)
WakeOne(t, transfer) ==
    /\ cpu = t /\ pc[t] = "wake"
    /\ \/ \E u \in waitq : waitq' = waitq \ {u}
       \/ waitq = {} /\ UNCHANGED waitq
    /\ IF waitq # {} /\ ~transfer THEN AfterWakeup(t) ELSE Goto(t, "wake_complete")
    /\ bucket' = Main
    /\ cpu' = Main
    /\ UNCHANGED <<inheritor, call, hold, condition>>

(* ... or all of them ...                                                  *)
WakeAll(t) ==
    /\ cpu = t /\ pc[t] = "wake"
    /\ waitq' = {}
    /\ Goto(t, "wake_complete")
    /\ bucket' = Main
    /\ cpu' = Main
    /\ UNCHANGED <<inheritor, call, hold, condition>>

(* ... and completes the turnstile under it.                               *)
WakeComplete(t) ==
    /\ cpu = t /\ pc[t] = "wake_complete" /\ bucket = Main
    /\ AfterWakeup(t)
    /\ cpu' = Main
    /\ UNCHANGED <<inheritor, call, hold, waitq, bucket, condition>>

Step(t) == \/ Lock(t) \/ Unlock(t) \/ Proceed(t)
           \/ AssertWait(t) \/ SleepUnlock(t) \/ ThreadBlock(t)
           \/ Blocked(t) \/ Reclaim(t)
           \/ BucketLock(t) \/ Drop(t) \/ Prepare(t) \/ Complete(t)
           \/ Signal(t) \/ Release(t) \/ ThreadWakeup(t)
           \/ WakeBucketLock(t) \/ WakeAll(t) \/ WakeComplete(t)
           \/ \E flags \in Action : Sleep(t, flags)
           \/ \E transfer \in BOOLEAN : WakeOne(t, transfer)

Interrupt(t) == AssertWaitInterrupted(t) \/ PrepareInterrupted(t) \/ WaitEnds(t)

Next == \E t \in Thread : \/ RunOne(t)
                          \/ \E wakes \in BOOLEAN, mode \in Mode : Begin(t, wakes, mode)
                          \/ Step(t)
                          \/ Interrupt(t)

Spec == Init /\ [][Next]_vars
-----------------------------------------------------------------------------
(* A thread that will wake the sleepers, or, where each wakeup is for one  *)
(* of them, one that is on its way to test the condition.                  *)
Coming(u) == \/ u \in waker /\ pc[u] \in {"release", "wakeup", "wake_bucket", "wake"}
             \/ /\ inheritor /\ u \notin waker \union interrupted
                /\ \/ pc[u] \in {"lock", "test", "complete", "reclaim"}
                   \/ pc[u] = "blocked" /\ u \notin waitq

(* No wakeup is lost between a sleeper's test of the condition, its        *)
(* assert_wait, the unlock and thread_block: when threads sleep although   *)
(* the condition holds, somebody is about to wake or has been woken.       *)
NoLostWakeup == condition /\ waitq # {} => \E u \in Thread : Coming(u)

(* A sleep function that reclaims the lock does so in the mode the flags   *)
(* ask for, by default the one the caller held, however the lock was used  *)
(* by others meanwhile.                                                    *)
ReclaimsAsAsked ==
    \A t \in Thread :
       pc[t] = "reclaim" => want[t] = IF inheritor THEN "exclusive"
                                      ELSE ReclaimMode(action[t], entered[t])
-----------------------------------------------------------------------------
(* The parts of the inductive invariant.                                   *)

Asleep == {"asserted", "block", "blocked"}
Waking == {"release", "wakeup", "wake_bucket", "wake", "wake_complete"}

LockExclusion == \A t, u \in Thread :
    t # u /\ hold[t] = "exclusive" => hold[u] = "none"

(* Where a thread holds the lock; wakers hold it exclusively.              *)
HoldsAtPc == \A t \in Thread :
    /\ pc[t] \in {"test", "sleep", "asserted", "bucket", "drop", "release"}
          => hold[t] # "none"
    /\ pc[t] \in {"out", "lock", "block", "blocked", "reclaim", "prepare", "complete"}
          => hold[t] = "none"
    /\ t \in waker \/ inheritor => want[t] = "exclusive" /\ hold[t] # "shared"

(* Which functions wakers, sleepers and interrupted sleepers can be in.    *)
RolePc == \A t \in Thread :
    /\ t \in waker => pc[t] \in Waking \union {"out", "lock", "test", "unlock"}
    /\ pc[t] \in Waking => t \in waker
    /\ inheritor => pc[t] \notin {"sleep", "asserted", "wakeup"}
    /\ pc[t] \in {"bucket", "drop", "prepare", "complete", "wake_bucket", "wake",
                  "wake_complete"} => inheritor
    /\ t \in waitq => pc[t] \in Asleep
    /\ pc[t] = "asserted" => t \in waitq
    /\ t \in interrupted => pc[t] \in {"out", "unlock", "complete", "reclaim"}

(* A thread keeps the processor from assert_wait to thread_block, and the  *)
(* bucket lock from before it gives the lock up until its wait is asserted.*)
Windows == \A t \in Thread :
    /\ pc[t] \in {"asserted", "block"} => cpu = t
    /\ cpu = t /\ pc[t] = "blocked" => t \notin waitq
    /\ bucket = t <=> pc[t] \in {"drop", "prepare", "wake"}

(* Under the lock, what the sleeper tested is still so.                    *)
TestStands == \A t \in Thread :
    pc[t] \in {"sleep", "asserted", "bucket", "drop"} => ~condition

(* NoLostWakeup, for those about to assert their wait too.                 *)
NobodyForgotten ==
    condition /\ (waitq # {} \/ \E t \in Thread : pc[t] = "prepare")
       => \E u \in Thread : Coming(u)

SleepInv == /\ TypeOK
            /\ LockExclusion
            /\ HoldsAtPc
            /\ RolePc
            /\ Windows
            /\ TestStands
            /\ NobodyForgotten

(* What a sleeper that will reclaim the lock remembers of it.              *)
ModeRemembered == \A t \in Thread :
    /\ pc[t] \in {"sleep", "asserted"} => entered[t] = hold[t]
    /\ pc[t] = "reclaim" => "UNLOCK" \notin action[t]
    /\ pc[t] \in {"block", "blocked", "reclaim"} =>
          \/ inheritor \/ "UNLOCK" \in action[t]
          \/ want[t] = ReclaimMode(action[t], entered[t])

(* A thread in thread_block's call is in the wait queue still: nobody ran  *)
(* since it got there.                                                     *)
BlocksAsserted == \A t \in Thread : pc[t] = "block" => t \in waitq

(* The lock the sleep functions give up and reclaim stays a readers-writer *)
(* lock to everybody else.                                                 *)
RW == INSTANCE ReadersWriter
        WITH readers <- {t \in Thread : hold[t] = "shared"},
             writers <- {t \in Thread : hold[t] = "exclusive"}

ImplementsRW == RW!Spec
=============================================================================
