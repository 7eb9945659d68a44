------------------------- MODULE KernelSleepProofs -------------------------
(***************************************************************************)
(* The sleep functions lose no wakeup and reclaim the lock as asked, for   *)
(* any number of threads, with and without an inheritor.                   *)
(***************************************************************************)
EXTENDS MCKernelSleep, TLAPS

LEMMA InitSleepInv == Init => SleepInv
<1> SUFFICES ASSUME Init PROVE SleepInv
  OBVIOUS
<1>1. TypeOK
  BY DEF Init, TypeOK, Pc, Mode, Flag
<1>2. LockExclusion /\ HoldsAtPc /\ RolePc
  BY DEF Init, LockExclusion, HoldsAtPc, RolePc, Waking
<1>3. Windows /\ TestStands /\ NobodyForgotten
  BY MainAssumption DEF Init, Windows, TestStands, NobodyForgotten
<1> QED BY <1>1, <1>2, <1>3 DEF SleepInv

LEMMA LockInv ==
  ASSUME SleepInv, NEW t \in Thread, Lock(t)
  PROVE  SleepInv'
<1>1. TypeOK'
  BY MainAssumption DEF Lock, Goto, Yield, call, SleepInv, TypeOK, Pc, Mode
<1>2. LockExclusion' /\ HoldsAtPc'
  BY MainAssumption DEF Lock, Goto, call, SleepInv, TypeOK, Pc, Mode,
     LockExclusion, HoldsAtPc, RolePc, Waking, LockFree
<1>3. RolePc' /\ Windows'
  BY MainAssumption DEF Lock, Goto, Yield, call, SleepInv, TypeOK, Pc, RolePc,
     Windows, Waking, Asleep
<1>4. TestStands'
  BY MainAssumption DEF Lock, Goto, call, SleepInv, TypeOK, Pc, Mode,
     TestStands, LockExclusion, HoldsAtPc
<1>5. NobodyForgotten'
  BY MainAssumption DEF Lock, Goto, call, SleepInv, TypeOK, Pc, RolePc, Windows,
     HoldsAtPc, TestStands, NobodyForgotten, Coming, Waking, Asleep
<1> QED BY <1>1, <1>2, <1>3, <1>4, <1>5 DEF SleepInv

LEMMA UnlockInv ==
  ASSUME SleepInv, NEW t \in Thread, Unlock(t)
  PROVE  SleepInv'
<1>1. TypeOK'
  BY MainAssumption DEF Unlock, Goto, Yield, call, SleepInv, TypeOK, Pc, Mode
<1>2. LockExclusion' /\ HoldsAtPc'
  BY MainAssumption DEF Unlock, Goto, call, SleepInv, TypeOK, Pc, Mode,
     LockExclusion, HoldsAtPc, RolePc, Waking, LockFree
<1>3. RolePc' /\ Windows'
  BY MainAssumption DEF Unlock, Goto, Yield, call, SleepInv, TypeOK, Pc, RolePc,
     Windows, Waking, Asleep
<1>4. TestStands'
  BY MainAssumption DEF Unlock, Goto, call, SleepInv, TypeOK, Pc, Mode,
     TestStands, LockExclusion, HoldsAtPc
<1>5. NobodyForgotten'
  BY MainAssumption DEF Unlock, Goto, call, SleepInv, TypeOK, Pc, RolePc, Windows,
     HoldsAtPc, TestStands, NobodyForgotten, Coming, Waking, Asleep
<1> QED BY <1>1, <1>2, <1>3, <1>4, <1>5 DEF SleepInv

LEMMA ProceedInv ==
  ASSUME SleepInv, NEW t \in Thread, Proceed(t)
  PROVE  SleepInv'
<1>1. TypeOK'
  BY MainAssumption DEF Proceed, Goto, Yield, call, SleepInv, TypeOK, Pc, Mode
<1>2. LockExclusion' /\ HoldsAtPc'
  BY MainAssumption DEF Proceed, Goto, call, SleepInv, TypeOK, Pc, Mode,
     LockExclusion, HoldsAtPc, RolePc, Waking, LockFree
<1>3. RolePc' /\ Windows'
  BY MainAssumption DEF Proceed, Goto, Yield, call, SleepInv, TypeOK, Pc, RolePc,
     Windows, Waking, Asleep
<1>4. TestStands'
  BY MainAssumption DEF Proceed, Goto, call, SleepInv, TypeOK, Pc, Mode,
     TestStands, LockExclusion, HoldsAtPc
<1>5. NobodyForgotten'
  BY MainAssumption DEF Proceed, Goto, call, SleepInv, TypeOK, Pc, RolePc, Windows,
     HoldsAtPc, TestStands, NobodyForgotten, Coming, Waking, Asleep
<1> QED BY <1>1, <1>2, <1>3, <1>4, <1>5 DEF SleepInv

LEMMA AssertWaitInv ==
  ASSUME SleepInv, NEW t \in Thread, AssertWait(t)
  PROVE  SleepInv'
<1>1. TypeOK'
  BY MainAssumption DEF AssertWait, Goto, Yield, call, SleepInv, TypeOK, Pc, Mode
<1>2. LockExclusion' /\ HoldsAtPc'
  BY MainAssumption DEF AssertWait, Goto, call, SleepInv, TypeOK, Pc, Mode,
     LockExclusion, HoldsAtPc, RolePc, Waking, LockFree
<1>3. RolePc' /\ Windows'
  BY MainAssumption DEF AssertWait, Goto, Yield, call, SleepInv, TypeOK, Pc, RolePc,
     Windows, Waking, Asleep
<1>4. TestStands'
  BY MainAssumption DEF AssertWait, Goto, call, SleepInv, TypeOK, Pc, Mode,
     TestStands, LockExclusion, HoldsAtPc
<1>5. NobodyForgotten'
  BY MainAssumption DEF AssertWait, Goto, call, SleepInv, TypeOK, Pc, RolePc, Windows,
     HoldsAtPc, TestStands, NobodyForgotten, Coming, Waking, Asleep
<1> QED BY <1>1, <1>2, <1>3, <1>4, <1>5 DEF SleepInv

LEMMA ReclaimModeType ==
  ASSUME NEW flags, NEW type \in Mode
  PROVE  ReclaimMode(flags, type) \in Mode
BY DEF ReclaimMode, Mode

LEMMA SleepUnlockInv ==
  ASSUME SleepInv, NEW t \in Thread, SleepUnlock(t)
  PROVE  SleepInv'
<1>0. ReclaimMode(action[t], IsShared) \in Mode /\ ~inheritor /\ t \notin waker
  BY ReclaimModeType DEF IsShared, Mode, SleepUnlock, SleepInv, RolePc, Waking
<1>1. TypeOK'
  BY <1>0, MainAssumption DEF SleepUnlock, Goto, Yield, call, SleepInv, TypeOK, Pc, Mode
<1>2. \A u \in Thread : hold'[u] = IF u = t THEN "none" ELSE hold[u]
  BY DEF SleepUnlock, SleepInv, TypeOK
<1>a. LockExclusion'
  BY <1>2 DEF SleepInv, LockExclusion
<1>b. \A u \in Thread : u # t => want'[u] = want[u] /\ pc'[u] = pc[u]
  BY DEF SleepUnlock, Goto, SleepInv, TypeOK
<1>c. waker' = waker /\ inheritor' = inheritor /\ pc'[t] = "block"
  BY DEF SleepUnlock, Goto, SleepInv, TypeOK
<1>d. HoldsAtPc'
  BY <1>0, <1>2, <1>b, <1>c DEF SleepInv, HoldsAtPc
<1>3. RolePc' /\ Windows'
  BY MainAssumption DEF SleepUnlock, Goto, Yield, call, SleepInv, TypeOK, Pc, RolePc,
     Windows, Waking, Asleep
<1>4. TestStands'
  BY MainAssumption DEF SleepUnlock, Goto, call, SleepInv, TypeOK, Pc, Mode,
     TestStands, LockExclusion, HoldsAtPc
<1>5. NobodyForgotten'
  BY MainAssumption DEF SleepUnlock, Goto, call, SleepInv, TypeOK, Pc, RolePc, Windows,
     HoldsAtPc, TestStands, NobodyForgotten, Coming, Waking, Asleep
<1> QED BY <1>1, <1>a, <1>d, <1>3, <1>4, <1>5 DEF SleepInv

LEMMA ThreadBlockInv ==
  ASSUME SleepInv, NEW t \in Thread, ThreadBlock(t)
  PROVE  SleepInv'
<1>1. TypeOK'
  BY MainAssumption DEF ThreadBlock, Goto, Yield, call, SleepInv, TypeOK, Pc, Mode
<1>2. LockExclusion' /\ HoldsAtPc'
  BY MainAssumption DEF ThreadBlock, Goto, call, SleepInv, TypeOK, Pc, Mode,
     LockExclusion, HoldsAtPc, RolePc, Waking, LockFree
<1>3. RolePc' /\ Windows'
  BY MainAssumption DEF ThreadBlock, Goto, Yield, call, SleepInv, TypeOK, Pc, RolePc,
     Windows, Waking, Asleep
<1>4. TestStands'
  BY MainAssumption DEF ThreadBlock, Goto, call, SleepInv, TypeOK, Pc, Mode,
     TestStands, LockExclusion, HoldsAtPc
<1>5. NobodyForgotten'
  BY MainAssumption DEF ThreadBlock, Goto, call, SleepInv, TypeOK, Pc, RolePc, Windows,
     HoldsAtPc, TestStands, NobodyForgotten, Coming, Waking, Asleep
<1> QED BY <1>1, <1>2, <1>3, <1>4, <1>5 DEF SleepInv

LEMMA BlockedInv ==
  ASSUME SleepInv, NEW t \in Thread, Blocked(t)
  PROVE  SleepInv'
<1>1. TypeOK'
  BY MainAssumption DEF Blocked, Goto, Yield, call, SleepInv, TypeOK, Pc, Mode
<1>2. LockExclusion' /\ HoldsAtPc'
  BY MainAssumption DEF Blocked, Goto, call, SleepInv, TypeOK, Pc, Mode,
     LockExclusion, HoldsAtPc, RolePc, Waking, LockFree
<1>3. RolePc' /\ Windows'
  BY MainAssumption DEF Blocked, Goto, Yield, call, SleepInv, TypeOK, Pc, RolePc,
     Windows, Waking, Asleep
<1>4. TestStands'
  BY MainAssumption DEF Blocked, Goto, call, SleepInv, TypeOK, Pc, Mode,
     TestStands, LockExclusion, HoldsAtPc
<1>5. NobodyForgotten'
  BY MainAssumption DEF Blocked, Goto, call, SleepInv, TypeOK, Pc, RolePc, Windows,
     HoldsAtPc, TestStands, NobodyForgotten, Coming, Waking, Asleep
<1> QED BY <1>1, <1>2, <1>3, <1>4, <1>5 DEF SleepInv

LEMMA ReclaimInv ==
  ASSUME SleepInv, NEW t \in Thread, Reclaim(t)
  PROVE  SleepInv'
<1>1. TypeOK'
  BY MainAssumption DEF Reclaim, Goto, Yield, call, SleepInv, TypeOK, Pc, Mode
<1>2. LockExclusion' /\ HoldsAtPc'
  BY MainAssumption DEF Reclaim, Goto, call, SleepInv, TypeOK, Pc, Mode,
     LockExclusion, HoldsAtPc, RolePc, Waking, LockFree
<1>3. RolePc' /\ Windows'
  BY MainAssumption DEF Reclaim, Goto, Yield, call, SleepInv, TypeOK, Pc, RolePc,
     Windows, Waking, Asleep
<1>4. TestStands'
  BY MainAssumption DEF Reclaim, Goto, call, SleepInv, TypeOK, Pc, Mode,
     TestStands, LockExclusion, HoldsAtPc
<1>5. NobodyForgotten'
  BY MainAssumption DEF Reclaim, Goto, call, SleepInv, TypeOK, Pc, RolePc, Windows,
     HoldsAtPc, TestStands, NobodyForgotten, Coming, Waking, Asleep
<1> QED BY <1>1, <1>2, <1>3, <1>4, <1>5 DEF SleepInv

LEMMA BucketLockInv ==
  ASSUME SleepInv, NEW t \in Thread, BucketLock(t)
  PROVE  SleepInv'
<1>1. TypeOK'
  BY MainAssumption DEF BucketLock, Goto, Yield, call, SleepInv, TypeOK, Pc, Mode
<1>2. LockExclusion' /\ HoldsAtPc'
  BY MainAssumption DEF BucketLock, Goto, call, SleepInv, TypeOK, Pc, Mode,
     LockExclusion, HoldsAtPc, RolePc, Waking, LockFree
<1>3. RolePc' /\ Windows'
  BY MainAssumption DEF BucketLock, Goto, Yield, call, SleepInv, TypeOK, Pc, RolePc,
     Windows, Waking, Asleep
<1>4. TestStands'
  BY MainAssumption DEF BucketLock, Goto, call, SleepInv, TypeOK, Pc, Mode,
     TestStands, LockExclusion, HoldsAtPc
<1>5. NobodyForgotten'
  BY MainAssumption DEF BucketLock, Goto, call, SleepInv, TypeOK, Pc, RolePc, Windows,
     HoldsAtPc, TestStands, NobodyForgotten, Coming, Waking, Asleep
<1> QED BY <1>1, <1>2, <1>3, <1>4, <1>5 DEF SleepInv

LEMMA DropInv ==
  ASSUME SleepInv, NEW t \in Thread, Drop(t)
  PROVE  SleepInv'
<1>1. TypeOK'
  BY MainAssumption DEF Drop, Goto, Yield, call, SleepInv, TypeOK, Pc, Mode
<1>2. LockExclusion' /\ HoldsAtPc'
  BY MainAssumption DEF Drop, Goto, call, SleepInv, TypeOK, Pc, Mode,
     LockExclusion, HoldsAtPc, RolePc, Waking, LockFree
<1>3. RolePc' /\ Windows'
  BY MainAssumption DEF Drop, Goto, Yield, call, SleepInv, TypeOK, Pc, RolePc,
     Windows, Waking, Asleep
<1>4. TestStands'
  BY MainAssumption DEF Drop, Goto, call, SleepInv, TypeOK, Pc, Mode,
     TestStands, LockExclusion, HoldsAtPc
<1>5. NobodyForgotten'
  BY MainAssumption DEF Drop, Goto, call, SleepInv, TypeOK, Pc, RolePc, Windows,
     HoldsAtPc, TestStands, NobodyForgotten, Coming, Waking, Asleep
<1> QED BY <1>1, <1>2, <1>3, <1>4, <1>5 DEF SleepInv

LEMMA PrepareInv ==
  ASSUME SleepInv, NEW t \in Thread, Prepare(t)
  PROVE  SleepInv'
<1>1. TypeOK'
  BY MainAssumption DEF Prepare, Goto, Yield, call, SleepInv, TypeOK, Pc, Mode
<1>2. LockExclusion' /\ HoldsAtPc'
  BY MainAssumption DEF Prepare, Goto, call, SleepInv, TypeOK, Pc, Mode,
     LockExclusion, HoldsAtPc, RolePc, Waking, LockFree
<1>3. RolePc' /\ Windows'
  BY MainAssumption DEF Prepare, Goto, Yield, call, SleepInv, TypeOK, Pc, RolePc,
     Windows, Waking, Asleep
<1>4. TestStands'
  BY MainAssumption DEF Prepare, Goto, call, SleepInv, TypeOK, Pc, Mode,
     TestStands, LockExclusion, HoldsAtPc
<1>5. NobodyForgotten'
  BY MainAssumption DEF Prepare, Goto, call, SleepInv, TypeOK, Pc, RolePc, Windows,
     HoldsAtPc, TestStands, NobodyForgotten, Coming, Waking, Asleep
<1> QED BY <1>1, <1>2, <1>3, <1>4, <1>5 DEF SleepInv

LEMMA CompleteInv ==
  ASSUME SleepInv, NEW t \in Thread, Complete(t)
  PROVE  SleepInv'
<1>1. TypeOK'
  BY MainAssumption DEF Complete, Goto, Yield, call, SleepInv, TypeOK, Pc, Mode
<1>2. LockExclusion' /\ HoldsAtPc'
  BY MainAssumption DEF Complete, Goto, call, SleepInv, TypeOK, Pc, Mode,
     LockExclusion, HoldsAtPc, RolePc, Waking, LockFree
<1>3. RolePc' /\ Windows'
  BY MainAssumption DEF Complete, Goto, Yield, call, SleepInv, TypeOK, Pc, RolePc,
     Windows, Waking, Asleep
<1>4. TestStands'
  BY MainAssumption DEF Complete, Goto, call, SleepInv, TypeOK, Pc, Mode,
     TestStands, LockExclusion, HoldsAtPc
<1>5. NobodyForgotten'
  BY MainAssumption DEF Complete, Goto, call, SleepInv, TypeOK, Pc, RolePc, Windows,
     HoldsAtPc, TestStands, NobodyForgotten, Coming, Waking, Asleep
<1> QED BY <1>1, <1>2, <1>3, <1>4, <1>5 DEF SleepInv

LEMMA SignalInv ==
  ASSUME SleepInv, NEW t \in Thread, Signal(t)
  PROVE  SleepInv'
<1>1. TypeOK'
  BY MainAssumption DEF Signal, Goto, Yield, call, SleepInv, TypeOK, Pc, Mode
<1>2. LockExclusion' /\ HoldsAtPc'
  BY MainAssumption DEF Signal, Goto, call, SleepInv, TypeOK, Pc, Mode,
     LockExclusion, HoldsAtPc, RolePc, Waking, LockFree
<1>3. RolePc' /\ Windows'
  BY MainAssumption DEF Signal, Goto, Yield, call, SleepInv, TypeOK, Pc, RolePc,
     Windows, Waking, Asleep
<1>4. TestStands'
  BY MainAssumption DEF Signal, Goto, call, SleepInv, TypeOK, Pc, Mode,
     TestStands, LockExclusion, HoldsAtPc
<1>5. NobodyForgotten'
  BY MainAssumption DEF Signal, Goto, call, SleepInv, TypeOK, Pc, RolePc, Windows,
     HoldsAtPc, TestStands, NobodyForgotten, Coming, Waking, Asleep
<1> QED BY <1>1, <1>2, <1>3, <1>4, <1>5 DEF SleepInv

LEMMA ReleaseInv ==
  ASSUME SleepInv, NEW t \in Thread, Release(t)
  PROVE  SleepInv'
<1>1. TypeOK'
  BY MainAssumption DEF Release, Goto, Yield, call, SleepInv, TypeOK, Pc, Mode
<1>2. LockExclusion' /\ HoldsAtPc'
  BY MainAssumption DEF Release, Goto, call, SleepInv, TypeOK, Pc, Mode,
     LockExclusion, HoldsAtPc, RolePc, Waking, LockFree
<1>3. RolePc' /\ Windows'
  BY MainAssumption DEF Release, Goto, Yield, call, SleepInv, TypeOK, Pc, RolePc,
     Windows, Waking, Asleep
<1>4. TestStands'
  BY MainAssumption DEF Release, Goto, call, SleepInv, TypeOK, Pc, Mode,
     TestStands, LockExclusion, HoldsAtPc
<1>5. NobodyForgotten'
  BY MainAssumption DEF Release, Goto, call, SleepInv, TypeOK, Pc, RolePc, Windows,
     HoldsAtPc, TestStands, NobodyForgotten, Coming, Waking, Asleep
<1> QED BY <1>1, <1>2, <1>3, <1>4, <1>5 DEF SleepInv

LEMMA ThreadWakeupInv ==
  ASSUME SleepInv, NEW t \in Thread, ThreadWakeup(t)
  PROVE  SleepInv'
<1>1. TypeOK'
  BY MainAssumption DEF ThreadWakeup, AfterWakeup, Goto, Yield, call, SleepInv, TypeOK, Pc, Mode
<1>2. LockExclusion' /\ HoldsAtPc'
  BY MainAssumption DEF ThreadWakeup, AfterWakeup, Goto, call, SleepInv, TypeOK, Pc, Mode,
     LockExclusion, HoldsAtPc, RolePc, Waking, LockFree
<1>3. RolePc' /\ Windows'
  BY MainAssumption DEF ThreadWakeup, AfterWakeup, Goto, Yield, call, SleepInv, TypeOK, Pc, RolePc,
     Windows, Waking, Asleep
<1>4. TestStands'
  BY MainAssumption DEF ThreadWakeup, AfterWakeup, Goto, call, SleepInv, TypeOK, Pc, Mode,
     TestStands, LockExclusion, HoldsAtPc
<1>5. NobodyForgotten'
  BY MainAssumption DEF ThreadWakeup, AfterWakeup, Goto, call, SleepInv, TypeOK, Pc, RolePc, Windows,
     HoldsAtPc, TestStands, NobodyForgotten, Coming, Waking, Asleep
<1> QED BY <1>1, <1>2, <1>3, <1>4, <1>5 DEF SleepInv

LEMMA WakeBucketLockInv ==
  ASSUME SleepInv, NEW t \in Thread, WakeBucketLock(t)
  PROVE  SleepInv'
<1>1. TypeOK'
  BY MainAssumption DEF WakeBucketLock, Goto, Yield, call, SleepInv, TypeOK, Pc, Mode
<1>2. LockExclusion' /\ HoldsAtPc'
  BY MainAssumption DEF WakeBucketLock, Goto, call, SleepInv, TypeOK, Pc, Mode,
     LockExclusion, HoldsAtPc, RolePc, Waking, LockFree
<1>3. RolePc' /\ Windows'
  BY MainAssumption DEF WakeBucketLock, Goto, Yield, call, SleepInv, TypeOK, Pc, RolePc,
     Windows, Waking, Asleep
<1>4. TestStands'
  BY MainAssumption DEF WakeBucketLock, Goto, call, SleepInv, TypeOK, Pc, Mode,
     TestStands, LockExclusion, HoldsAtPc
<1>5. NobodyForgotten'
  BY MainAssumption DEF WakeBucketLock, Goto, call, SleepInv, TypeOK, Pc, RolePc, Windows,
     HoldsAtPc, TestStands, NobodyForgotten, Coming, Waking, Asleep
<1> QED BY <1>1, <1>2, <1>3, <1>4, <1>5 DEF SleepInv

LEMMA WakeAllInv ==
  ASSUME SleepInv, NEW t \in Thread, WakeAll(t)
  PROVE  SleepInv'
<1>1. TypeOK'
  BY MainAssumption DEF WakeAll, Goto, Yield, call, SleepInv, TypeOK, Pc, Mode
<1>2. LockExclusion' /\ HoldsAtPc'
  BY MainAssumption DEF WakeAll, Goto, call, SleepInv, TypeOK, Pc, Mode,
     LockExclusion, HoldsAtPc, RolePc, Waking, LockFree
<1>3. RolePc' /\ Windows'
  BY MainAssumption DEF WakeAll, Goto, Yield, call, SleepInv, TypeOK, Pc, RolePc,
     Windows, Waking, Asleep
<1>4. TestStands'
  BY MainAssumption DEF WakeAll, Goto, call, SleepInv, TypeOK, Pc, Mode,
     TestStands, LockExclusion, HoldsAtPc
<1>5. NobodyForgotten'
  BY MainAssumption DEF WakeAll, Goto, call, SleepInv, TypeOK, Pc, RolePc, Windows,
     HoldsAtPc, TestStands, NobodyForgotten, Coming, Waking, Asleep
<1> QED BY <1>1, <1>2, <1>3, <1>4, <1>5 DEF SleepInv

LEMMA WakeCompleteInv ==
  ASSUME SleepInv, NEW t \in Thread, WakeComplete(t)
  PROVE  SleepInv'
<1>1. TypeOK'
  BY MainAssumption DEF WakeComplete, AfterWakeup, Goto, Yield, call, SleepInv, TypeOK, Pc, Mode
<1>2. LockExclusion' /\ HoldsAtPc'
  BY MainAssumption DEF WakeComplete, AfterWakeup, Goto, call, SleepInv, TypeOK, Pc, Mode,
     LockExclusion, HoldsAtPc, RolePc, Waking, LockFree
<1>3. RolePc' /\ Windows'
  BY MainAssumption DEF WakeComplete, AfterWakeup, Goto, Yield, call, SleepInv, TypeOK, Pc, RolePc,
     Windows, Waking, Asleep
<1>4. TestStands'
  BY MainAssumption DEF WakeComplete, AfterWakeup, Goto, call, SleepInv, TypeOK, Pc, Mode,
     TestStands, LockExclusion, HoldsAtPc
<1>5. NobodyForgotten'
  BY MainAssumption DEF WakeComplete, AfterWakeup, Goto, call, SleepInv, TypeOK, Pc, RolePc, Windows,
     HoldsAtPc, TestStands, NobodyForgotten, Coming, Waking, Asleep
<1> QED BY <1>1, <1>2, <1>3, <1>4, <1>5 DEF SleepInv

LEMMA AssertWaitInterruptedInv ==
  ASSUME SleepInv, NEW t \in Thread, AssertWaitInterrupted(t)
  PROVE  SleepInv'
<1>1. TypeOK'
  BY MainAssumption DEF AssertWaitInterrupted, Goto, Yield, call, SleepInv, TypeOK, Pc, Mode
<1>2. LockExclusion' /\ HoldsAtPc'
  BY MainAssumption DEF AssertWaitInterrupted, Goto, call, SleepInv, TypeOK, Pc, Mode,
     LockExclusion, HoldsAtPc, RolePc, Waking, LockFree
<1>3. RolePc' /\ Windows'
  BY MainAssumption DEF AssertWaitInterrupted, Goto, Yield, call, SleepInv, TypeOK, Pc, RolePc,
     Windows, Waking, Asleep
<1>4. TestStands'
  BY MainAssumption DEF AssertWaitInterrupted, Goto, call, SleepInv, TypeOK, Pc, Mode,
     TestStands, LockExclusion, HoldsAtPc
<1>5. NobodyForgotten'
  BY MainAssumption DEF AssertWaitInterrupted, Goto, call, SleepInv, TypeOK, Pc, RolePc, Windows,
     HoldsAtPc, TestStands, NobodyForgotten, Coming, Waking, Asleep
<1> QED BY <1>1, <1>2, <1>3, <1>4, <1>5 DEF SleepInv

LEMMA PrepareInterruptedInv ==
  ASSUME SleepInv, NEW t \in Thread, PrepareInterrupted(t)
  PROVE  SleepInv'
<1>1. TypeOK'
  BY MainAssumption DEF PrepareInterrupted, Goto, Yield, call, SleepInv, TypeOK, Pc, Mode
<1>2. LockExclusion' /\ HoldsAtPc'
  BY MainAssumption DEF PrepareInterrupted, Goto, call, SleepInv, TypeOK, Pc, Mode,
     LockExclusion, HoldsAtPc, RolePc, Waking, LockFree
<1>3. RolePc' /\ Windows'
  BY MainAssumption DEF PrepareInterrupted, Goto, Yield, call, SleepInv, TypeOK, Pc, RolePc,
     Windows, Waking, Asleep
<1>4. TestStands'
  BY MainAssumption DEF PrepareInterrupted, Goto, call, SleepInv, TypeOK, Pc, Mode,
     TestStands, LockExclusion, HoldsAtPc
<1>5. NobodyForgotten'
  BY MainAssumption DEF PrepareInterrupted, Goto, call, SleepInv, TypeOK, Pc, RolePc, Windows,
     HoldsAtPc, TestStands, NobodyForgotten, Coming, Waking, Asleep
<1> QED BY <1>1, <1>2, <1>3, <1>4, <1>5 DEF SleepInv

LEMMA WaitEndsInv ==
  ASSUME SleepInv, NEW t \in Thread, WaitEnds(t)
  PROVE  SleepInv'
<1>1. TypeOK'
  BY MainAssumption DEF WaitEnds, Goto, Yield, call, SleepInv, TypeOK, Pc, Mode
<1>2. LockExclusion' /\ HoldsAtPc'
  BY MainAssumption DEF WaitEnds, Goto, call, SleepInv, TypeOK, Pc, Mode,
     LockExclusion, HoldsAtPc, RolePc, Waking, LockFree
<1>3. RolePc' /\ Windows'
  BY MainAssumption DEF WaitEnds, Goto, Yield, call, SleepInv, TypeOK, Pc, RolePc,
     Windows, Waking, Asleep
<1>4. TestStands'
  BY MainAssumption DEF WaitEnds, Goto, call, SleepInv, TypeOK, Pc, Mode,
     TestStands, LockExclusion, HoldsAtPc
<1>5. NobodyForgotten'
  BY MainAssumption DEF WaitEnds, Goto, call, SleepInv, TypeOK, Pc, RolePc, Windows,
     HoldsAtPc, TestStands, NobodyForgotten, Coming, Waking, Asleep
<1> QED BY <1>1, <1>2, <1>3, <1>4, <1>5 DEF SleepInv

LEMMA RunOneInv ==
  ASSUME SleepInv, NEW t \in Thread, RunOne(t)
  PROVE  SleepInv'
<1>1. TypeOK'
  BY MainAssumption DEF RunOne, Ready, Goto, Yield, call, SleepInv, TypeOK, Pc, Mode
<1>2. LockExclusion' /\ HoldsAtPc'
  BY MainAssumption DEF RunOne, Ready, Goto, call, SleepInv, TypeOK, Pc, Mode,
     LockExclusion, HoldsAtPc, RolePc, Waking, LockFree
<1>3. RolePc' /\ Windows'
  BY MainAssumption DEF RunOne, Ready, Goto, Yield, call, SleepInv, TypeOK, Pc, RolePc,
     Windows, Waking, Asleep
<1>4. TestStands'
  BY MainAssumption DEF RunOne, Ready, Goto, call, SleepInv, TypeOK, Pc, Mode,
     TestStands, LockExclusion, HoldsAtPc
<1>5. NobodyForgotten'
  BY MainAssumption DEF RunOne, Ready, Goto, call, SleepInv, TypeOK, Pc, RolePc, Windows,
     HoldsAtPc, TestStands, NobodyForgotten, Coming, Waking, Asleep
<1> QED BY <1>1, <1>2, <1>3, <1>4, <1>5 DEF SleepInv

LEMMA BeginInv ==
  ASSUME SleepInv, NEW t \in Thread, NEW wakes \in BOOLEAN, NEW mode \in Mode,
         Begin(t, wakes, mode)
  PROVE  SleepInv'
<1>1. TypeOK'
  BY MainAssumption DEF Begin, Goto, Yield, call, SleepInv, TypeOK, Pc, Mode
<1>2. LockExclusion' /\ HoldsAtPc'
  BY MainAssumption DEF Begin, Goto, call, SleepInv, TypeOK, Pc, Mode,
     LockExclusion, HoldsAtPc, RolePc, Waking, LockFree
<1>3. RolePc' /\ Windows'
  BY MainAssumption DEF Begin, Goto, Yield, call, SleepInv, TypeOK, Pc, RolePc,
     Windows, Waking, Asleep
<1>4. TestStands'
  BY MainAssumption DEF Begin, Goto, call, SleepInv, TypeOK, Pc, Mode,
     TestStands, LockExclusion, HoldsAtPc
<1>5. NobodyForgotten'
  BY MainAssumption DEF Begin, Goto, call, SleepInv, TypeOK, Pc, RolePc, Windows,
     HoldsAtPc, TestStands, NobodyForgotten, Coming, Waking, Asleep
<1> QED BY <1>1, <1>2, <1>3, <1>4, <1>5 DEF SleepInv

LEMMA SleepCallInv ==
  ASSUME SleepInv, NEW t \in Thread, NEW flags \in Action, Sleep(t, flags)
  PROVE  SleepInv'
<1>1. TypeOK'
  BY MainAssumption, ActionAssumption DEF HoldsAtPc, Sleep, Goto, Yield, call, SleepInv, TypeOK, Pc, Mode
<1>2. LockExclusion' /\ HoldsAtPc'
  BY MainAssumption DEF Sleep, Goto, call, SleepInv, TypeOK, Pc, Mode,
     LockExclusion, HoldsAtPc, RolePc, Waking, LockFree
<1>3. RolePc' /\ Windows'
  BY MainAssumption DEF Sleep, Goto, Yield, call, SleepInv, TypeOK, Pc, RolePc,
     Windows, Waking, Asleep
<1>4. TestStands'
  BY MainAssumption DEF Sleep, Goto, call, SleepInv, TypeOK, Pc, Mode,
     TestStands, LockExclusion, HoldsAtPc
<1>5. NobodyForgotten'
  BY MainAssumption DEF Sleep, Goto, call, SleepInv, TypeOK, Pc, RolePc, Windows,
     HoldsAtPc, TestStands, NobodyForgotten, Coming, Waking, Asleep
<1> QED BY <1>1, <1>2, <1>3, <1>4, <1>5 DEF SleepInv

LEMMA WakeOneInv ==
  ASSUME SleepInv, NEW t \in Thread, NEW transfer \in BOOLEAN, WakeOne(t, transfer)
  PROVE  SleepInv'
<1>1. TypeOK'
  BY MainAssumption DEF WakeOne, AfterWakeup, Goto, Yield, call, SleepInv, TypeOK, Pc, Mode
<1>2. LockExclusion' /\ HoldsAtPc'
  BY MainAssumption DEF WakeOne, AfterWakeup, Goto, call, SleepInv, TypeOK, Pc, Mode,
     LockExclusion, HoldsAtPc, RolePc, Waking, LockFree
<1>3. RolePc' /\ Windows'
  BY MainAssumption DEF WakeOne, AfterWakeup, Goto, Yield, call, SleepInv, TypeOK, Pc, RolePc,
     Windows, Waking, Asleep
<1>4. TestStands'
  BY MainAssumption DEF WakeOne, AfterWakeup, Goto, call, SleepInv, TypeOK, Pc, Mode,
     TestStands, LockExclusion, HoldsAtPc
<1>5. NobodyForgotten'
  BY MainAssumption DEF WakeOne, AfterWakeup, Goto, call, SleepInv, TypeOK, Pc, RolePc, Windows,
     HoldsAtPc, TestStands, NobodyForgotten, Coming, Waking, Asleep
<1> QED BY <1>1, <1>2, <1>3, <1>4, <1>5 DEF SleepInv

LEMMA NextSleepInv == SleepInv /\ [Next]_vars => SleepInv'
<1> SUFFICES ASSUME SleepInv, [Next]_vars PROVE SleepInv'
  OBVIOUS
<1>1. CASE UNCHANGED vars
  BY <1>1 DEF vars, call, SleepInv, TypeOK, LockExclusion, HoldsAtPc, RolePc,
              Windows, TestStands, NobodyForgotten, Coming
<1>2. CASE Next
  <2> PICK t \in Thread : \/ RunOne(t)
                          \/ \E wakes \in BOOLEAN, mode \in Mode : Begin(t, wakes, mode)
                          \/ Step(t)
                          \/ Interrupt(t)
    BY <1>2 DEF Next
  <2>1. CASE RunOne(t) \/ \E wakes \in BOOLEAN, mode \in Mode : Begin(t, wakes, mode)
    BY <2>1, RunOneInv, BeginInv
  <2>2. CASE Interrupt(t)
    BY <2>2, AssertWaitInterruptedInv, PrepareInterruptedInv, WaitEndsInv DEF Interrupt
  <2>3. CASE Step(t)
    BY <2>3, LockInv, UnlockInv, ProceedInv, AssertWaitInv, SleepUnlockInv,
       ThreadBlockInv, BlockedInv, ReclaimInv, BucketLockInv, DropInv,
       PrepareInv, CompleteInv, SignalInv, ReleaseInv, ThreadWakeupInv,
       WakeBucketLockInv, WakeAllInv, WakeCompleteInv, SleepCallInv, WakeOneInv
       DEF Step
  <2> QED BY <2>1, <2>2, <2>3
<1> QED BY <1>1, <1>2

(* The type invariant, for every set of threads and sleep actions.         *)
THEOREM SleepTypeOK == Spec => []TypeOK
<1>1. SleepInv => TypeOK
  BY DEF SleepInv
<1> QED BY <1>1, InitSleepInv, NextSleepInv, PTL DEF Spec

(* Whatever the sleepers, wakers, timeouts and interruptions, the sleep    *)
(* functions of locks.c lose no wakeup.                                    *)
THEOREM SleepLosesNoWakeup == Spec => []NoLostWakeup
<1>1. SleepInv => NoLostWakeup
  BY DEF SleepInv, NobodyForgotten, NoLostWakeup
<1> QED BY <1>1, InitSleepInv, NextSleepInv, PTL DEF Spec
-----------------------------------------------------------------------------
(* lck_rw_done reports the mode of a caller that holds the lock: no other  *)
(* thread holds it in the other mode.                                      *)
LEMMA IsSharedIsOwn ==
  ASSUME SleepInv, NEW t \in Thread, hold[t] # "none"
  PROVE  IsShared = hold[t]
BY DEF SleepInv, TypeOK, Mode, LockExclusion, IsShared

LEMMA NextModeRemembered ==
  ASSUME SleepInv, ModeRemembered, [Next]_vars
  PROVE  ModeRemembered'
<1>1. CASE UNCHANGED vars
  BY <1>1 DEF vars, call, ModeRemembered
<1>2. CASE Next
  <2> PICK t \in Thread : \/ RunOne(t)
                          \/ \E wakes \in BOOLEAN, mode \in Mode : Begin(t, wakes, mode)
                          \/ Step(t)
                          \/ Interrupt(t)
    BY <1>2 DEF Next
  <2> USE DEF SleepInv, TypeOK, ModeRemembered, Goto, call
  <2>1. CASE RunOne(t)
    BY <2>1 DEF RunOne
  <2>2. ASSUME NEW wakes \in BOOLEAN, NEW mode \in Mode, Begin(t, wakes, mode)
        PROVE  ModeRemembered'
    BY <2>2 DEF Begin
  <2>3. CASE SleepUnlock(t)
    <3>1. IsShared = entered[t] /\ hold[t] # "none"
      BY <2>3, IsSharedIsOwn DEF SleepUnlock, HoldsAtPc
    <3> QED BY <2>3, <3>1 DEF SleepUnlock
  <2>4. ASSUME NEW flags \in Action, Sleep(t, flags)
        PROVE  ModeRemembered'
    BY <2>4 DEF Sleep, HoldsAtPc
  <2>5. CASE Lock(t) \/ Unlock(t) \/ Proceed(t) \/ AssertWait(t)
    BY <2>5 DEF Lock, Unlock, Proceed, AssertWait
  <2>6. CASE ThreadBlock(t) \/ Blocked(t) \/ Reclaim(t) \/ Interrupt(t)
    BY <2>6 DEF ThreadBlock, Blocked, Reclaim, Interrupt, WaitEnds,
                AssertWaitInterrupted, PrepareInterrupted
  <2>7. CASE BucketLock(t) \/ Drop(t) \/ Prepare(t) \/ Complete(t)
    BY <2>7 DEF BucketLock, Drop, Prepare, Complete, RolePc
  <2>8. CASE Signal(t) \/ Release(t) \/ ThreadWakeup(t) \/ WakeBucketLock(t)
    BY <2>8 DEF Signal, Release, ThreadWakeup, AfterWakeup, WakeBucketLock
  <2>9. CASE WakeAll(t) \/ WakeComplete(t) \/ \E x \in BOOLEAN : WakeOne(t, x)
    BY <2>9 DEF WakeAll, WakeComplete, WakeOne, AfterWakeup
  <2> QED BY <2>1, <2>2, <2>3, <2>4, <2>5, <2>6, <2>7, <2>8, <2>9 DEF Step
<1> QED BY <1>1, <1>2

(* The sleep functions reclaim the lock in the mode the caller asked for   *)
(* or held, for every set of threads and flags.                            *)
THEOREM SleepReclaimsAsAsked == Spec => []ReclaimsAsAsked
<1>1. Init => ModeRemembered
  BY DEF Init, ModeRemembered
<1>2. SleepInv /\ ModeRemembered => ReclaimsAsAsked
  BY DEF SleepInv, HoldsAtPc, ModeRemembered, ReclaimsAsAsked
<1>3. SleepInv /\ ModeRemembered /\ [Next]_vars => SleepInv' /\ ModeRemembered'
  BY NextSleepInv, NextModeRemembered
<1> QED BY <1>1, <1>2, <1>3, InitSleepInv, PTL DEF Spec
-----------------------------------------------------------------------------
(* The lock as seen by its users.                                          *)

(* hold changes at one thread or not at all.                               *)
LEMMA RWHoldStep ==
  ASSUME SleepInv, NEW t \in Thread, NEW m \in Mode \union {"none"},
         hold' = [hold EXCEPT ![t] = m],
         m # "none" => hold[t] = "none" /\ LockFree(m)
  PROVE  [RW!Next]_RW!vars
<1> DEFINE R == {u \in Thread : hold[u] = "shared"}
<1> DEFINE W == {u \in Thread : hold[u] = "exclusive"}
<1>0. /\ \A u \in Thread : hold'[u] = IF u = t THEN m ELSE hold[u]
      /\ hold[t] \in Mode \union {"none"}
  BY DEF SleepInv, TypeOK
<1>1. CASE m = "none"
  <2>1. R' = R \ {t} /\ W' = W \ {t}
    BY <1>0, <1>1
  <2>2. CASE t \in R \union W
    BY <2>1, <2>2 DEF RW!Next, RW!Release
  <2>3. CASE t \notin R \union W
    BY <2>1, <2>3 DEF RW!vars
  <2> QED BY <2>2, <2>3
<1>2. CASE m = "shared"
  <2>1. R' = R \union {t} /\ W' = W /\ W = {} /\ t \notin R
    BY <1>0, <1>2 DEF LockFree
  <2> QED BY <2>1 DEF RW!Next, RW!AcquireShared
<1>3. CASE m = "exclusive"
  <2>1. R' = R /\ W' = W \union {t} /\ W = {} /\ R = {}
    BY <1>0, <1>3 DEF LockFree
  <2> QED BY <2>1 DEF RW!Next, RW!AcquireExclusive
<1> QED BY <1>1, <1>2, <1>3 DEF Mode

LEMMA RWStep == SleepInv /\ [Next]_vars => [RW!Next]_RW!vars
<1> SUFFICES ASSUME SleepInv, [Next]_vars PROVE [RW!Next]_RW!vars
  OBVIOUS
<1>1. CASE UNCHANGED hold
  BY <1>1 DEF RW!vars
<1>2. ASSUME NEW t \in Thread,
             \/ Unlock(t) \/ SleepUnlock(t) \/ Drop(t) \/ Release(t)
             \/ AssertWaitInterrupted(t) /\ hold' # hold
      PROVE  [RW!Next]_RW!vars
  <2>1. hold' = [hold EXCEPT ![t] = "none"]
    BY <1>2 DEF Unlock, SleepUnlock, Drop, Release, AssertWaitInterrupted
  <2> QED BY <2>1, RWHoldStep
<1>3. ASSUME NEW t \in Thread, Lock(t) \/ Reclaim(t)
      PROVE  [RW!Next]_RW!vars
  <2>1. /\ hold' = [hold EXCEPT ![t] = want[t]] /\ want[t] \in Mode
        /\ LockFree(want[t]) /\ hold[t] = "none"
    BY <1>3 DEF Lock, Reclaim, SleepInv, TypeOK, HoldsAtPc
  <2> QED BY <2>1, RWHoldStep
<1>4. \/ UNCHANGED hold
      \/ \E t \in Thread : \/ Unlock(t) \/ SleepUnlock(t) \/ Drop(t) \/ Release(t)
                           \/ AssertWaitInterrupted(t) /\ hold' # hold
                           \/ Lock(t) \/ Reclaim(t)
  BY DEF Next, Step, Interrupt, vars, RunOne, Begin, Proceed, AssertWait,
     ThreadBlock, Blocked, BucketLock, Prepare, Complete, Signal, ThreadWakeup,
     WakeBucketLock, WakeAll, WakeComplete, Sleep, WakeOne,
     PrepareInterrupted, WaitEnds
<1> QED BY <1>1, <1>2, <1>3, <1>4

(* Giving the lock up to sleep, reclaiming it and releasing it on an       *)
(* interruption are steps of a readers-writer lock: no sleep function      *)
(* enters beside a holder of the other mode.                               *)
THEOREM SleepImplementsRW == Spec => ImplementsRW
<1>1. Init => RW!Init
  BY DEF Init, RW!Init
<1> QED BY <1>1, InitSleepInv, NextSleepInv, RWStep, PTL
        DEF Spec, ImplementsRW, RW!Spec
-----------------------------------------------------------------------------
(* Bounded activity.                                                       *)

GoesOn == cpu # Main => Ready(cpu)

BoundedInv == /\ SleepInv
              /\ BlocksAsserted
              /\ GoesOn
              /\ fuel \in Nat

(* Whoever empties the queue has the processor, so nobody is in the call   *)
(* of thread_block.                                                        *)
LEMMA NextBlocksAsserted ==
  ASSUME SleepInv, BlocksAsserted, Next
  PROVE  BlocksAsserted'
<1> PICK t \in Thread : \/ RunOne(t)
                        \/ \E wakes \in BOOLEAN, mode \in Mode : Begin(t, wakes, mode)
                        \/ Step(t)
                        \/ Interrupt(t)
  BY DEF Next
<1> USE DEF SleepInv, TypeOK, BlocksAsserted, Goto, call
<1>1. CASE \/ RunOne(t)
           \/ \E wakes \in BOOLEAN, mode \in Mode : Begin(t, wakes, mode)
           \/ Interrupt(t)
  BY <1>1, MainAssumption DEF RunOne, Begin, Interrupt, AssertWaitInterrupted,
     PrepareInterrupted, WaitEnds, Windows
<1>2. CASE \/ ThreadWakeup(t) \/ WakeAll(t) \/ WakeComplete(t)
           \/ \E x \in BOOLEAN : WakeOne(t, x)
  BY <1>2 DEF ThreadWakeup, WakeAll, WakeComplete, WakeOne, AfterWakeup, Windows
<1>3. CASE \/ Lock(t) \/ Unlock(t) \/ Proceed(t) \/ AssertWait(t) \/ SleepUnlock(t)
           \/ ThreadBlock(t) \/ Blocked(t) \/ Reclaim(t)
  BY <1>3 DEF Lock, Unlock, Proceed, AssertWait, SleepUnlock, ThreadBlock,
     Blocked, Reclaim, RolePc
<1>4. CASE \/ BucketLock(t) \/ Drop(t) \/ Prepare(t) \/ Complete(t) \/ Signal(t)
           \/ Release(t) \/ WakeBucketLock(t)
           \/ \E flags \in Action : Sleep(t, flags)
  BY <1>4 DEF BucketLock, Drop, Prepare, Complete, Signal, Release,
     WakeBucketLock, Sleep
<1> QED BY <1>1, <1>2, <1>3, <1>4 DEF Step

(* A thread that keeps the processor is at a place where it needs no lock. *)
LEMMA NextGoesOn ==
  ASSUME SleepInv, GoesOn, Next
  PROVE  GoesOn'
<1> PICK t \in Thread : \/ RunOne(t)
                        \/ \E wakes \in BOOLEAN, mode \in Mode : Begin(t, wakes, mode)
                        \/ Step(t)
                        \/ Interrupt(t)
  BY DEF Next
<1>1. ASSUME cpu' = Main PROVE GoesOn'
  BY <1>1 DEF GoesOn
<1>2. CASE RunOne(t)
  BY <1>2 DEF RunOne, GoesOn, Ready, LockFree, call
<1>3. ASSUME cpu' = t, NEW q \in Pc, pc' = [pc EXCEPT ![t] = q],
             q \notin {"out", "blocked", "lock", "reclaim", "bucket", "complete",
                      "wake_bucket", "wake_complete"}
      PROVE  GoesOn'
  <2>1. pc'[t] = q
    BY <1>3 DEF SleepInv, TypeOK
  <2> QED BY <1>3, <2>1 DEF GoesOn, Ready
<1>4. ASSUME cpu = t, pc[t] \notin {"asserted", "block"}
      PROVE  t \notin waitq
  BY <1>4 DEF SleepInv, RolePc, Asleep, Windows
<1>5. CASE \/ Lock(t) \/ Proceed(t) \/ AssertWait(t) \/ Reclaim(t) \/ BucketLock(t)
           \/ Prepare(t) \/ WakeBucketLock(t)
  BY <1>3, <1>5 DEF Lock, Proceed, AssertWait, Reclaim, BucketLock, Prepare,
     WakeBucketLock, Goto, Pc
<1>6. CASE \/ Unlock(t) \/ Blocked(t) \/ Drop(t) \/ Complete(t) \/ Signal(t)
           \/ Release(t) \/ PrepareInterrupted(t)
           \/ \E flags \in Action : Sleep(t, flags)
  BY <1>1, <1>4, <1>6 DEF Unlock, Blocked, Drop, Complete, Signal, Release,
     PrepareInterrupted, Sleep, Yield
<1>7. CASE SleepUnlock(t)
  <2>1. cpu' = t
    BY <1>7 DEF SleepUnlock, Yield, SleepInv, RolePc
  <2> QED BY <1>3, <1>7, <2>1 DEF SleepUnlock, Goto, Pc
<1>8. CASE AssertWaitInterrupted(t)
  <2>1. CASE "UNLOCK" \in action[t]
    BY <1>1, <1>4, <1>8, <2>1 DEF AssertWaitInterrupted, Yield
  <2>2. CASE "UNLOCK" \notin action[t]
    BY <1>3, <1>8, <2>2 DEF AssertWaitInterrupted, Goto, Pc
  <2> QED BY <2>1, <2>2
<1>9. CASE \/ \E wakes \in BOOLEAN, mode \in Mode : Begin(t, wakes, mode)
           \/ WaitEnds(t) \/ ThreadBlock(t) \/ ThreadWakeup(t) \/ WakeAll(t)
           \/ WakeComplete(t) \/ \E x \in BOOLEAN : WakeOne(t, x)
  BY <1>1, <1>9 DEF Begin, WaitEnds, ThreadBlock, ThreadWakeup, WakeAll,
     WakeComplete, WakeOne
<1> QED BY <1>2, <1>5, <1>6, <1>7, <1>8, <1>9 DEF Step, Interrupt

LEMMA BoundedInitInv == BoundedInit => BoundedInv
BY InitSleepInv, FuelAssumption
   DEF BoundedInit, BoundedInv, Init, BlocksAsserted, GoesOn

LEMMA BoundedStepIsStep ==
  ASSUME BoundedNext
  PROVE  Next \/ UNCHANGED <<vars, fuel>>
BY DEF BoundedNext, Next, Interrupt, Quiet

LEMMA BoundedNextInv ==
  BoundedInv /\ [BoundedNext]_<<vars, fuel>> => BoundedInv'
<1> SUFFICES ASSUME BoundedInv, [BoundedNext]_<<vars, fuel>> PROVE BoundedInv'
  OBVIOUS
<1>1. fuel' \in Nat
  BY DEF BoundedInv, BoundedNext, Spend, Quiet
<1>2. CASE UNCHANGED <<vars, fuel>>
  <2>1. SleepInv'
    BY <1>2, NextSleepInv DEF BoundedInv
  <2>2. BlocksAsserted' /\ GoesOn'
    BY <1>2 DEF BoundedInv, vars, call, BlocksAsserted, GoesOn, Ready, LockFree
  <2> QED BY <1>1, <2>1, <2>2 DEF BoundedInv
<1>3. CASE Next
  BY <1>1, <1>3, NextSleepInv, NextBlocksAsserted, NextGoesOn DEF BoundedInv
<1> QED BY <1>2, <1>3, BoundedStepIsStep

(* Neither the lock nor the bucket lock nor the two together can leave the *)
(* threads waiting for each other: with nobody to run, each of them is     *)
(* outside or asleep, and none sleeps on a condition that holds.           *)
THEOREM SleepOnlySleepersWait == BoundedSpec => []OnlySleepersWait
<1>1. BoundedInv => OnlySleepersWait
  <2> SUFFICES ASSUME BoundedInv PROVE OnlySleepersWait
    OBVIOUS
  <2>1. ASSUME cpu = Main, \A t \in Thread : ~Ready(t)
        PROVE  /\ \A t \in Thread : pc[t] = "out" \/ (pc[t] = "blocked" /\ t \in waitq)
               /\ ~condition \/ waitq = {}
    <3> USE DEF BoundedInv, SleepInv
    <3>1. bucket = Main
      BY <2>1 DEF TypeOK, Windows, Ready
    <3>2. \A u \in Thread : pc[u] \in {"out", "blocked", "lock", "reclaim"}
      BY <2>1, <3>1 DEF TypeOK, Ready
    <3>3. \A u \in Thread : hold[u] = "none"
      BY <3>2 DEF HoldsAtPc
    <3>4. \A t \in Thread : pc[t] = "out" \/ (pc[t] = "blocked" /\ t \in waitq)
      <4> SUFFICES ASSUME NEW t \in Thread, pc[t] # "out"
                   PROVE  pc[t] = "blocked" /\ t \in waitq
        OBVIOUS
      <4>1. LockFree(want[t])
        BY <3>3 DEF LockFree
      <4> QED BY <2>1, <3>1, <4>1 DEF Ready
    <3>5. ~\E u \in Thread : Coming(u)
      BY <3>4 DEF Coming
    <3> QED BY <3>4, <3>5 DEF NobodyForgotten
  <2> QED BY <2>1 DEF OnlySleepersWait, BoundedInv, GoesOn
<1> QED BY <1>1, BoundedInitInv, BoundedNextInv, PTL DEF BoundedSpec
-----------------------------------------------------------------------------
LEMMA WakerBelow ==
  ASSUME TypeOK, NEW t \in waker, NEW q \in Pc, waker' = waker,
         pc' = [pc EXCEPT ![t] = q], WakerLeft(q) < WakerLeft(pc[t])
  PROVE  Below(wakersLeft', wakersLeft)
<1>0. t \in Thread
  BY DEF TypeOK
<1>1. pc'[t] = q /\ \A u \in Thread : u # t => pc'[u] = pc[u]
  BY <1>0 DEF TypeOK
<1>2. \A p : WakerLeft(p) \in Nat
  BY DEF WakerLeft
<1>3. \A u \in Thread : wakersLeft[u] \in Nat
  BY <1>2 DEF wakersLeft
<1>4. wakersLeft'[t] < wakersLeft[t]
  BY <1>0, <1>1 DEF wakersLeft
<1>5. \A u \in Thread : u # t => wakersLeft'[u] = wakersLeft[u]
  BY <1>1 DEF wakersLeft
<1>6. wakersLeft'[t] \in Nat
  BY <1>0, <1>1, <1>2 DEF wakersLeft
<1>7. \A u \in Thread : wakersLeft'[u] <= wakersLeft[u]
  BY <1>3, <1>4, <1>5, <1>6
<1> QED BY <1>0, <1>4, <1>7 DEF Below

LEMMA SleeperBelow ==
  ASSUME TypeOK, NEW t \in Thread \ waker, NEW q \in Pc, waker' = waker,
         pc' = [pc EXCEPT ![t] = q], waitq' \in {waitq, waitq \union {t}},
         SleeperLeft(q, t \in waitq') < SleeperLeft(pc[t], t \in waitq)
  PROVE  wakersLeft' = wakersLeft /\ Below(sleepersLeft', sleepersLeft)
<1>1. pc'[t] = q /\ \A u \in Thread : u # t => pc'[u] = pc[u]
  BY DEF TypeOK
<1>2. \A p, b : SleeperLeft(p, b) \in Nat
  BY DEF SleeperLeft
<1>3. \A u \in Thread : sleepersLeft[u] \in Nat
  BY <1>2 DEF sleepersLeft
<1>4. sleepersLeft'[t] < sleepersLeft[t]
  BY <1>1 DEF sleepersLeft
<1>5. \A u \in Thread : u # t => sleepersLeft'[u] = sleepersLeft[u]
  BY <1>1 DEF sleepersLeft
<1>6. sleepersLeft'[t] \in Nat
  BY <1>1, <1>2 DEF sleepersLeft
<1>7. \A u \in Thread : sleepersLeft'[u] <= sleepersLeft[u]
  BY <1>3, <1>4, <1>5, <1>6
<1>8. wakersLeft' = wakersLeft
  BY <1>1 DEF wakersLeft
<1> QED BY <1>4, <1>7, <1>8 DEF Below

LEMMA WakerStep ==
  ASSUME SleepInv, NEW t \in waker, Step(t)
  PROVE  Below(wakersLeft', wakersLeft)
<1>0. TypeOK /\ t \in Thread
  BY DEF SleepInv, TypeOK
<1>1. pc[t] \in Waking \union {"out", "lock", "test", "unlock"}
  BY <1>0 DEF SleepInv, RolePc
<1>2. waker' = waker
  BY DEF Step, call, Lock, Unlock, Proceed, AssertWait, SleepUnlock, ThreadBlock,
     Blocked, Reclaim, BucketLock, Drop, Prepare, Complete, Signal, Release,
     ThreadWakeup, WakeBucketLock, WakeAll, WakeComplete, Sleep, WakeOne
<1>3. \E q \in Pc : /\ pc' = [pc EXCEPT ![t] = q]
                    /\ WakerLeft(q) < WakerLeft(pc[t])
  <2> USE DEF Goto, Pc, WakerLeft
  <2>1. CASE Lock(t) \/ Unlock(t)
    BY <2>1 DEF Lock, Unlock
  <2>2. CASE Signal(t) \/ Release(t)
    BY <2>2 DEF Signal, Release
  <2>3. CASE ThreadWakeup(t) \/ WakeBucketLock(t)
    BY <2>3 DEF ThreadWakeup, AfterWakeup, WakeBucketLock
  <2>4. CASE WakeAll(t) \/ WakeComplete(t) \/ \E x \in BOOLEAN : WakeOne(t, x)
    BY <2>4 DEF WakeAll, WakeComplete, WakeOne, AfterWakeup
  <2> QED BY <1>1, <2>1, <2>2, <2>3, <2>4
          DEF Step, Waking, Proceed, AssertWait, SleepUnlock, ThreadBlock,
              Blocked, Reclaim, BucketLock, Drop, Prepare, Complete, Sleep
<1> QED BY <1>0, <1>2, <1>3, WakerBelow

LEMMA SleeperStep ==
  ASSUME SleepInv, BlocksAsserted, NEW t \in Thread \ waker, Step(t)
  PROVE  wakersLeft' = wakersLeft /\ Below(sleepersLeft', sleepersLeft)
<1>0. TypeOK /\ t \in Thread
  BY DEF SleepInv
<1>1. /\ pc[t] \notin Waking
      /\ cpu = t => (t \in waitq <=> pc[t] \in {"asserted", "block"})
  BY DEF SleepInv, RolePc, Windows, Asleep, BlocksAsserted
<1>2. waker' = waker
  BY DEF Step, call, Lock, Unlock, Proceed, AssertWait, SleepUnlock, ThreadBlock,
     Blocked, Reclaim, BucketLock, Drop, Prepare, Complete, Signal, Release,
     ThreadWakeup, WakeBucketLock, WakeAll, WakeComplete, Sleep, WakeOne
<1>3. \E q \in Pc : /\ pc' = [pc EXCEPT ![t] = q]
                    /\ waitq' \in {waitq, waitq \union {t}}
                    /\ SleeperLeft(q, t \in waitq') < SleeperLeft(pc[t], t \in waitq)
  <2> USE <1>1 DEF Goto, Pc, SleeperLeft
  <2>1. CASE Lock(t) \/ Unlock(t) \/ Proceed(t)
    BY <2>1 DEF Lock, Unlock, Proceed
  <2>2. CASE AssertWait(t) \/ SleepUnlock(t) \/ ThreadBlock(t)
    BY <2>2 DEF AssertWait, SleepUnlock, ThreadBlock
  <2>3. CASE Blocked(t) \/ Reclaim(t)
    BY <2>3 DEF Blocked, Reclaim
  <2>4. CASE BucketLock(t) \/ Drop(t) \/ Prepare(t) \/ Complete(t)
    BY <2>4 DEF BucketLock, Drop, Prepare, Complete
  <2>5. CASE \E flags \in Action : Sleep(t, flags)
    <3>1. CASE inheritor
      <4>1. pc[t] = "test" /\ pc' = [pc EXCEPT ![t] = "bucket"] /\ waitq' = waitq
        BY <2>5, <3>1 DEF Sleep
      <4> QED BY <4>1
    <3>2. CASE ~inheritor
      <4>1. pc[t] = "test" /\ pc' = [pc EXCEPT ![t] = "sleep"] /\ waitq' = waitq
        BY <2>5, <3>2 DEF Sleep
      <4> QED BY <4>1
    <3> QED BY <3>1, <3>2
  <2> QED BY <2>1, <2>2, <2>3, <2>4, <2>5
          DEF Step, Waking, Signal, Release, ThreadWakeup, WakeBucketLock,
              WakeAll, WakeComplete, WakeOne
<1> QED BY <1>0, <1>2, <1>3, SleeperBelow

Settles ==
    \/ fuel' < fuel
    \/ fuel' = fuel /\ Below(wakersLeft', wakersLeft)
    \/ UNCHANGED <<fuel, wakersLeft>> /\ Below(sleepersLeft', sleepersLeft)
    \/ /\ UNCHANGED <<fuel, wakersLeft, sleepersLeft>>
       /\ cpu = Main /\ cpu' # Main

LEMMA StepSettles ==
  ASSUME BoundedInv, BoundedNext
  PROVE  Settles \/ UNCHANGED <<vars, fuel>>
<1>1. CASE Spend
  BY <1>1 DEF Spend, BoundedInv, Settles
<1>2. ASSUME NEW t \in Thread, RunOne(t), fuel' = fuel PROVE Settles
  <2>1. UNCHANGED <<wakersLeft, sleepersLeft>>
    BY <1>2 DEF RunOne, call, wakersLeft, sleepersLeft
  <2> QED BY <1>2, <2>1, MainAssumption DEF RunOne, Settles
<1>3. ASSUME NEW t \in Thread, Step(t), fuel' = fuel PROVE Settles
  <2>1. CASE t \in waker
    BY <1>3, <2>1, WakerStep DEF BoundedInv, Settles
  <2>2. CASE t \notin waker
    BY <1>3, <2>2, SleeperStep DEF BoundedInv, Settles
  <2> QED BY <2>1, <2>2
<1>4. CASE Quiet
  BY <1>4 DEF Quiet
<1> QED BY <1>1, <1>2, <1>3, <1>4 DEF BoundedNext

(* Woken sleepers that find the condition used up and sleep again do so    *)
(* only as often as somebody wakes them: every step makes progress in a    *)
(* well-founded order.  With SleepOnlySleepersWait this is WakeupArrives   *)
(* up to the fairness that the process keeps executing.                    *)
THEOREM SleepSleepersSettle == BoundedSpec => SleepersSettle
<1>1. BoundedInv /\ [BoundedNext]_<<vars, fuel>> => [Settles]_<<vars, fuel>>
  BY StepSettles
<1>2. BoundedSpec => [][Settles]_<<vars, fuel>>
  BY <1>1, BoundedInitInv, BoundedNextInv, PTL DEF BoundedSpec
<1> QED BY <1>2 DEF Settles, SleepersSettle
=============================================================================
