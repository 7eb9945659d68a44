# A TLA+ model of SockFuzzer's threads, locks, scheduler and sessions

SockFuzzer runs XNU's networking and IPC code in user space and fuzzes it,
including the order in which the kernel's threads run. What makes that work is
a concurrency layer of its own: a cooperative scheduler that picks the next
thread from the fuzzer's input, executors that carry the threads, virtual
mutexes and readers-writer locks with a deadlock detector, a ticket-lock
manager, and the `Host`, which keeps the kernel-visible state of every thread
(waiting, suspended, terminating, continuation, wait result). A mistake there
shows up as a hang, a false crash or a lost thread in every fuzzing session.
On top of it sit the sessions, which run the commands of an input on three
kernel threads, and below the kernel the fakes: allocators, atomics, clock and
more than 900 stubs. These modules model those layers, check them with TLC and
prove their safety properties with TLAPS, for any number of threads, locks,
sessions and elements.

## Inventory

| Component | State | Operations | What makes it hard | What must hold |
| --- | --- | --- | --- | --- |
| `FuzzedScheduler` (third_party/concurrence/scheduler) | `runnable_`, `live_set_`, `pending_deletion_`, `interrupts_enabled_` | CreateThread, MakeRunnable, MakeNotRunnable, Yield, Block, SwitchTo, ChooseThread, RunUntilEmpty, ThreadDestroyed, CleanupDeadThreads | dead threads stay queued, stack addresses are reused, everybody wakes everybody | no handle twice, no unmapped stack queued or run, RunUntilEmpty ends |
| `CoroutineExecutor` (fuzz/executor) | mapped stacks, `g_current_thread` | CreateThread, SwitchTo, DeleteThread, end of a thread | a thread cannot unmap the stack it is on | deletion is deferred and complete |
| `ThreadExecutor`, `CooperativeThread` (concurrence/executor/stdthread) | `executor_mutex_`, `main_thread_running_`, `running_`, `terminate_`, `joinable_` | CreateThread, SwitchTo, ExitThread, Wait, Signal, destructor | real OS threads; a hand-over is two assignments and an Await | exactly one thread has the token, switches arrive, destructors return |
| `VirtualRwLock`, `VirtualMutex`, `Sync` (concurrence/sync) | `owners_`, `mutex_`, `waiters_` | Lock, TryLock, Unlock in both modes, upgrade, downgrade | a woken waiter may find the lock taken again; `waiters_` keeps woken threads | exclusion, no lost wakeup, no abort for paired calls |
| `SyncTracker` and deadlock detection | `all_primitives_` | Allocate, Free, FindDependencyPath, DetectDeadlock | runs only when a wait begins; no visited set | every deadlock reported, no false alarm, the search ends |
| `Host` thread state (fuzz/host/host.cc, osfmk/api/thread.c) | `waiting_`, `uninterruptible_`, `wait_report_`, `terminating_`, `enqueued_for_termination_`, `suspended_`, `suspended_runnable_`, `wait_results_`, `continuations_` | assert_wait, thread_go, ThreadBlock, Yield, Block, suspend, terminate, destroy | wakeups race with preemption, lock blocks and suspension | no thread lost, none runs while it waits, continuations match stacks |
| `HwTicketLockManager` | `live_locks_`, `invalidated_locks_` | Allocate, Invalidate, Lock, TryLock, Unlock, Destroy | locks are invalidated and freed while others wait | no use after free, ACQUIRED means held, Destroy returns |
| Kernel lock fakes (osfmk/fakes/sync) | none of their own | `lck_mtx_*`, `lck_rw_*`, `lck_spin_*`, `hw_lck_ticket_*` | a preemption point around most calls | they are the clients of the locks above |
| Sleep functions (osfmk/fakes/locks.c) | none of their own | `lck_*_sleep`, `*_with_inheritor` | unlock between assert_wait and thread_block | no wakeup lost between unlock and block |
| Sessions (fuzz/handlers, fuzz/target) | three command threads, the data providers, `ready_for_preemption`, `copyin_blocked_` | HandleSession, CommandThread, HandleCommand, ThreadFinished, KillAllNonInitProcs | abort and reap of threads in any state, on a kernel that earlier sessions used; longjmps out of calls; pointers to locals | a session ends, leaves nothing behind but uninterruptible threads, and nobody reads a provider that is gone |
| Zone registry (osfmk/fakes/zalloc.c) | `zone_array`, `num_zones`, `num_zones_in_use`, `zone_security_array`, `zone_view_count` | zone_create_ext, zone_create_find, zone_view_startup_init | fixed, dynamic and heap zones in one array, 16-bit fields, chunk geometry | identifiers unique and enumerable, views counted, chunks hold elements with least waste |
| Element caches (zalloc.c, bsd/fakes/mcache.c, osfmk/fakes/atomic.c) | zstacks, mcache lists, `z_elems_rsv` | zcache_alloc_n, zcache_free_n, zalloc_n, zfree_nozero_n, mcache_*_ext, zone_raise_reserve | failure half-way, cache operations that yield, atomics that yield | all or nothing, nothing freed twice or lost, no raise lost |
| Clock (osfmk/fakes/clock.c) | none: time stands still | machine_delay_until | a delay that converts to a tick never ends | sessions end |
| Stubs (osfmk_stubs.c, stubs.c, scheduler.c, ...) | none | more than 900 functions | which abort, read the input or yield | classified in `KernelStubs` |
| BSD backend, protobuf, generators, logging | see PROJECT.json | | straight-line or generated code | |

They interact by calls. A kernel thread blocks on a lock through
`Sync::AddWaiter` and `FuzzedScheduler::Block`, which reports
`Host::ThreadWillBlock`; an unlock calls `MakeAllRunnable` on the waiters. A
kernel wait goes through `Host::ThreadBlock`, which picks with
`ChooseThread` and switches directly. Whoever gets the processor runs
`Host::ThreadResumed`. Main runs `RunUntilEmpty`, and gets the processor back
when nobody else is ready. With the coroutine executor all of this is one OS
thread, so code between two switches is atomic and the interleavings are those
of the switch points; with `ThreadExecutor` the same discipline is kept by a
token.

A session (`HandleSession`, on the main thread) creates the command threads
through kernel code, sets the data providers, and calls `RunUntilEmpty` after
each step of its tear-down. The kernel in between calls the fakes, which yield,
wait, abort or draw from the providers.

The hazards this leaves, at their lines, are in PROJECT.json.

## Modules

| Module | Models |
| --- | --- |
| `CoopScheduler` | abstract: one processor, live and ready threads (scheduler.h) |
| `FuzzedScheduler` | fuzzed_scheduler.cc over coroutine_executor.cc; implements `CoopScheduler` |
| `MCFuzzedScheduler` | the same with a client that makes at most `Fuel` calls |
| `ReadersWriter` | abstract: any readers or one writer |
| `VirtualRwLock` | rwlock.cc with its inner mutex and the scheduler's ready set; implements `ReadersWriter` |
| `MCVirtualRwLock` | the same with any clients, or with clients that pair their calls and stop after `Fuel` of them |
| `SyncTracker` | mutex.cc, sync.cc, tracker.cc: who owns and waits for what, and the search |
| `MCSyncTracker` | the search as the recursion of the code |
| `HostThread` | host.cc and the wait functions of osfmk/api/thread.c |
| `ThreadExecutor` | thread_executor.cc and thread.cc; implements `CoopScheduler` |
| `HwTicketLock` | hw_ticket_lock_manager.cc; implements `ReadersWriter` (without readers) |
| `KernelSleep` | the sleep and wakeup functions of osfmk/fakes/locks.c and the kernel's use of them; its lock implements `ReadersWriter` |
| `MCKernelSleep` | the same with at most `Fuel` calls, aborts and interruptions |
| `FuzzCommands` | command.cc: the kernel entries behind each kind of command; the trap wrappers of osfmk_backend.c; the banned system calls of bsd_backend.c |
| `KernelStubs` | what each stub of osfmk_stubs.c, stubs.c, scheduler.c, timer.c, pmap.c, ... does to the process |
| `FuzzSession` | session.cc, command_thread.cc, InitializeHost, and what the fakes let kernel code do; composes `FuzzCommands` and `KernelStubs` |
| `KernelZones` | the zone registry of zalloc.c |
| `KernelElements` | zstacks, zone caches, mcache lists, and the yielding atomics |
| `MCKernelFakes` | the two side by side |
| `FuzzedSchedulerProofs`, `VirtualRwLockProofs`, `SyncTrackerProofs`, `HostThreadProofs`, `ThreadExecutorProofs`, `KernelSleepProofs`, `FuzzSessionProofs` | the theorems about the module they are named after |
| `KernelFakesProofs` | the theorems about `HwTicketLock`, `KernelZones` and `KernelElements` |

Variables keep the names of the members they stand for. An action is a call up
to the next switch; where the code blocks inside a call, a program counter
(`pc`, `at`, `waiting`) says where and a second action continues after the
switch. Handles, threads and locks are model values.

**FuzzedScheduler.** `stacks` is the executor's mapped memory: `CreateThread`
takes any unmapped handle, so addresses are recycled. The two picking loops
take one step per iteration (`RunOne`; `Choose`); a pick takes any position,
because the index is drawn from the input or from `rand()`, or the last one
when `thread_choices_` is null. Threads choose in Yield and in ThreadBlock, main
in Yield outside its loop: it may hand the processor to a thread without being in
RunUntilEmpty, and gets it back when that thread finds nobody else. `Leave` is `Host::SwitchFrom` as far as the
queue goes. `MakeRunnable` may be called with handles of dead threads and with
0, as `Host::ThreadTToHandle` can produce.

**VirtualRwLock.** `hold` records what the calls returned, `owners_` and
`mutex_owner` what the lock stores. `waiters_` is a set because AddWaiter
removes an entry before it adds one. `SpuriousWake` makes any thread runnable
at any time. With `Misuse` clients may call in any state.

**SyncTracker.** `waiting[t]` is the object in whose `waiters_` thread t is.
The mutex inside a rwlock is the object `mutex_(r)`, never registered.
`FindDependencyPath` is defined as reachability (no recursion, so that it can
be proved about); `MCSyncTracker` has the recursive search of the code, and the
two are proved to agree.
Freeing is limited to locks nobody holds or waits for, which the kernel's own
lock life cycle requires.

**HostThread.** `SelfWake` allows a wakeup of the running thread, `Suspension`
allows suspending threads (today `ThreadStop` returns at once, so nothing
does), `Debug` enables the checks under `#ifndef NDEBUG`. `given` remembers the
result a wakeup gave a thread blocked in ThreadBlock. The wait queues are
kernel code: a thread in `waiting_` may be woken at any time, with any result.
Main does not wait.

**ThreadExecutor.** `executor_mutex_` is the holder of the absl::Mutex; a free
mutex may go to any thread whose condition holds. `DeleteUnstarted` allows the
executor to be destroyed while threads exist that never ran.

**HwTicketLock.** One lock. `acquired` are the threads that were told
HW_LOCK_ACQUIRED and have not unlocked. The callers' protocol kept is that the
holder invalidates, that a lock that was not invalidated is destroyed unused,
and, in the run, that nobody calls plain Lock on an invalidated lock
(`LocksInvalid`).

**KernelSleep.** Threads test a condition under a lock and sleep through
`lck_*_sleep` or, when `inheritor`, through the `*_with_inheritor` functions;
others make the condition true under the lock and wake, before or after
releasing it. The lock is an abstract readers-writer lock (VirtualRwLock
implements it); a mutex is one that is taken exclusively. Here the processor
(`cpu`) is explicit, because the functions rely on it: the unlock between
assert_wait and thread_block contains a preemption point, which `Host::Yield`
ignores for a thread that waits. `bucket` is the turnstile's hash bucket lock.
A thread that waits for a lock is not ready until it is free; the wait queue and
the turnstile are kernel code, as far as locks.c uses them.

**FuzzSession.** An action is a stretch of code of `g_current_thread` up to a
place where it can lose the processor. `st` says where each thread is or will
resume; handles are stack addresses, reused lowest first. XNU is not in the
repository, so inside a call a thread may do whatever the fakes allow: yield
(atomics, locks), wait with or without a continuation, block uninterruptibly,
disable interrupts through `ml_set_interrupts_enabled`, delay, call a stub, wake
another thread, return, or leave by `thread_syscall_return`. `CallStub` takes
the behaviours that `KernelStubs` lists and the kind of a command comes from
`FuzzCommands`. The kernel's reaper daemons are one thread, `Daemon`. The two
data provider pointers are null, live or dead; reading a dead one, or the null
`xnu_fdp` unchecked, sets `crash`. `skipped` counts the UnblockCopyin calls that
a longjmp went past; `section` follows a stretch with interrupts disabled until
it ends, blocks or enables preemption itself. A thread that an earlier session
left in an uninterruptible wait may be woken in a later one; when it then comes
back to `CommandThread`'s loop its commands are freed (`crash = "freed"`). The
model reaches that state, as the code does, and no property excludes it. The
threads are the session's three; threads that a command creates are not
modelled, and neither is a wait of main for a lock while it clones the tasks.

**FuzzCommands, KernelStubs.** Tables. A command is the sequence of entries it
calls with the kind of its addresses; the model uses whether the call runs under
BlockCopyin and whether a Yield follows. Two facts are assumptions that TLC
evaluates: every trap with a wrapper is reached by some command and every entry
a command calls exists (`CommandsCoverWrappers`), and no stub has two
definitions (`StubsLinkOnce`). The bodies behind the names are not translated, so
the lines that the map gives these tables say that a function is classified, not
that its behaviour is verified: of the wrappers and the stubs the properties use
the shapes of the commands and the behaviours that `CallStub` offers, no more.
Reading the handlers for this table showed that
the `IoctlReal` case has no break and goes on into `Connectx`, and that `MachMsg`
starts with a break.

**KernelZones.** `zone_array` holds the zones whose `z_self` is set. Panics and
failing assertions end the process (`panicked`). Geometry is exact, with 16-bit
fields and the rounded percentages of the code. `Sizes` are the sizes asked
for; the proofs take any set of naturals. `zone_security_array` has the heap of
each zone (`z_kheap_id`), which `zone_create_ext` clears and its `extra_setup`
sets; the first view of a zone adds two to `zone_view_count` only if the zone is
of no heap. A view of the data heap (`ZV_NAMEI`) is on the zone that
`kalloc_zone_for_size` finds: that is kernel code, taken to be the smallest zone
of the heap that is large enough, or any entry at all when the heap has none.
The registry is that of `zone_create_ext`. `zone_create` and `zinit` calloc a zone
each, which never enters `zone_array`; nothing here is about those.

**KernelElements.** Threads build zstacks and mcache lists and give them back.
The operations of a zone cache are kernel code that may yield, so
`zcache_alloc_n` and `zcache_free_n` go one element per step; `zalloc_n` and the
mcache functions do not yield. `doing` is what a thread is in the middle of, and
`left` the iterations of `zcache_alloc_n`'s loop still to come. malloc gives any element that is not in use;
realloc and `zc_op_alloc` may fail. A composite mcache goes to its slab function,
kernel code that may return the objects in any order and fewer of them; an mcache
malloc that fails ends the process at the write to the object.
`zone_raise_reserve` uses XNU's os_atomic_max, taken to be a compare-and-exchange
loop over the wrappers of atomic.c; a width of 16 bits may bypass those, which
leaves fewer interleavings than the model has. Whether it was called with a view
or with a zone makes no difference to the number that is raised. The comment in
`zalloc_n` promises a success rate of 90% while the code allocates when the draw
is 0, one time in ten; both are the same nondeterministic choice here.

## Runs

| Run | Instance | Shows |
| --- | --- | --- |
| scheduler | 3 stacks, 7 client calls, release build | `NoDoubleEnqueue`, `QueuedStacksMapped`, `ImplementsCoop`, `RunUntilEmptyReturns` |
| rwlock | 4 threads, any calls; or 3 threads, 2 calls each, paired | `Exclusion`, `NoLostWakeup`, `HolderNeverBlocks`, `PairedClientsSafe`, `ImplementsRW`, `LockEventuallyReturns` |
| sync | 3 threads, 2 mutexes, 1 rwlock | `TrackedDeadlocksReported`, `ReportsAreReal`, `SearchReturnsReachability` |
| sync_rw | 2 threads, 1 mutex, 1 rwlock | violated: `DeadlocksReported` |
| host | 2 threads and main, debug build | `NoThreadLost`, `WaitEndsByWakeup`, `ReapedNeverRun`, `DebugChecksPass` |
| host_all | the same with self-wakeups and suspension, whose debug checks may abort | `NoThreadLost`, `ContinuationsArePending` |
| host_result | 2 threads | violated: `WaitResultDelivered` |
| executor | 3 OS threads and main | `TokenPassedToOne`, `RunnerIsCurrent`, `TerminatedOnlyExits`, `DeleteThreadReturns`, `SwitchArrives` |
| ticket | 4 threads | `NoUseAfterFree`, `AcquiredMeansHeld`, `DestroyReturns` |
| sleep | 3 threads, 4 calls, aborts and interruptions, 4 sleep actions | `NoLostWakeup`, `ReclaimsAsAsked`, `WakeupArrives` |
| session | 2 sessions, 4 handles, 1 command per thread, 2 kernel steps per session, 1 stuck thread | `ProvidersOutliveReaders`, `CopyinCounterExact`, `SectionsNotPreempted`, `SessionEndsClean`, `SessionEnds` |
| fakes | 4096 element sizes; zone_array of a few entries; 2 threads on a few elements | `ZonesRegistered`, `ChunksHoldElements`, `ElementsAccounted`, `AllOrNothing`, `ReserveReached` |

What the session run shows. The scheduler does keep a pointer to a provider that
has gone out of scope, but nobody reads it: between sessions nothing is picked,
and until the next session sets it preemption is off and main picks nothing
(`ProvidersOutliveReaders`; the mutant that leaves preemption on breaks it).
A thread in any state is ended by the abort, because an aborted thread cannot
wait interruptibly again (`SessionEndsClean`). Every session ends although the
order of threads is the input's choice, provided that no delay converts to a
tick.

Bounds. The scheduler's queue never holds a handle twice, so three handles bound
it; seven calls suffice for a thread to be created, run, queued, destroyed, its
stack unmapped and the address handed out again beside a second thread. Two
writers and two readers contending (4 threads) show every race of the rwlock.
Three threads give deadlocks through one intermediate thread, the smallest that
a search of direct owners misses. Two kernel threads and main give a waker, a
sleeper and a bystander; the theorems cover any number. The destroyer of a
ticket lock, two waiters and a newcomer are four. Two sleepers and a waker, one
of them coming back a second time, need three threads and four calls. A session
needs its three threads; the fourth handle lets one of them outlive it, and two
sessions show what it meets. Two kernel steps per session let one thread wait
and another wake it, or one disable interrupts and yield. The chunk geometry
depends on nothing but the element size, of which every class (multiple of 8 up
to 32 KB) is tried; the registry is tried with fixed and dynamic identifiers up
to the end of the array, with heap and plain zones and up to two views on each;
what follows a per-cpu or a read-only zone, which differ only in their chunks, is
cut off (`PlainZones`).

Fairness. `rwlock` (for paired clients), `scheduler`, `session` and `sleep` assume only that the process goes on
executing (weak fairness of the whole next-state relation of a client that runs
out of calls); the choice of threads is unrestricted. In `session` this is the one OS thread
of the process; the kernel's own steps are bounded by `Fuel`, as XNU's system
calls are finite. `executor` assumes that
the OS runs threads and that absl::Mutex admits a waiter whose condition holds.
`ticket` assumes that a queued thread is eventually picked, which `rand()` gives
once the input is used up, and that the destroyer's Yield does yield; with
interrupts disabled, or without a data provider (the last of the queue is always
taken), `WakeupWaiters` would spin. No run assumes that callers unlock, wake or
terminate except as stated.

### Disagreements found

* **sync_rw**: a thread that waits for a *writer* waits in the inner mutex's
  list. The tracker never registered that mutex, so the wait is no edge of the
  dependency graph: a cycle through it is not reported, although
  `DetectDeadlock` says it checks for deadlocks when a thread becomes a waiter.
  `MutexDeadlocksReported` proves that readers-writer locks are the only cause.
* **host_result**: `ThreadResumed` clears the wait again with THREAD_AWAKENED
  after `ThreadWakeup` stored the real result; TIMED_OUT and INTERRUPTED never
  reach the caller of thread_block.

A remark without a run: a thread that was created and never switched to when the
executor is destroyed runs its target, because `Start`, in which the destructor
wakes it, does not test `terminate_`; the destructor's comment (thread.cc:77) says
that it is woken so that it can exit. `TerminatedOnlyExits` fails in four steps
with `DeleteUnstarted = TRUE`; the run `executor` and the theorems have every
thread started first.

### Hazards without a property

Five of the listed hazards are states that the code reaches when its callers do
what the repository neither does nor rules out; a property against them would be
about those callers, most of them in XNU. The models show each. With `SelfWake`
the debug checks of the Host can abort in an ordinary block; with `LocksInvalid`
two callers can be told ACQUIRED; with `DeleteUnstarted` a destroyed thread runs;
with `DelayNanoseconds` of a second a session does not end; and after a jump past
UnblockCopyin (always in the model, counted by `skipped`) the thread's later
commands copy nothing. `SectionsNotPreempted` is about Yield alone: a section
whose own thread blocks comes back with interrupts enabled and is left out
(`section = "split"`). Two more hazards are left without a property for the
reasons given beside them in PROJECT.json.

## Theorems

The proofs hold for every set of threads, handles, locks and elements and every
value of the bounds. Their assumptions on constants are the ones stated beside
them (the special handles differ from threads, the switches are Boolean, the
bounds are natural numbers, a session has handles enough for its threads and the
ones left over, a program has finitely many threads), and TLC evaluates those in
the runs. A theorem that
needs a switch to be off says so in its statement.

Each component has an inductive invariant, `...Inv`, in its own module, where
TLC can check it too; a `...Safe` theorem proves it, and the properties that the
runs check follow from it.

* **FuzzedSchedulerProofs.** `SchedulerInv` adds to the checked invariants that
  the mapped stacks are exactly the live and the pending threads
  (`StacksAccounted`: without it, unmapping the pending ones could unmap a
  queued one) and that main is never in both picking loops (`MainInOneLoop`: a
thread that it picks outside RunUntilEmpty comes back to Yield). Lemmas about
  erasing from and appending to a sequence carry `NoDoubleEnqueue`. Under the
  mapping `ready <- Entries(runnable_) \intersect live_set_` every step is a
  step of `CoopScheduler` or stutters (`SchedulerImplementsCoop`).
  `SchedulerNoDoubleEnqueue` and `SchedulerQueuedMapped` are parts of the
  invariant. `SchedulerEveryStepConsumes` and `SchedulerLoopLeavesNothing` are
  the safety behind `RunUntilEmptyReturns`. Each client call pays for three
  steps, and `Variant` falls with every step: a picking loop that meets a dead
  handle has taken it off the queue, and one that queues its caller again leaves
  the loop with the next thread.
* **VirtualRwLockProofs.** `RwLockInv` ties `hold` to `owners_` and
  `mutex_owner` (`HoldIsReal`), the waiter lists to the program counters
  (`WaitersMatchPc`) and says that nobody keeps `mutex_` while there are
  readers. From it follow `RwLockExclusion`, `RwLockNoLostWakeup`,
  `RwLockHolderNeverBlocks` and `RwLockImplementsRW`.
  `RwLockPairedClientsSafe` is about `MCSpec`: a client that releases only what
  it holds owns it by `HoldIsReal`, and with readers in `owners_` nobody has
  `mutex_`, so that no release waits for it. Behind `LockEventuallyReturns` are
  `RwLockNobodyStranded` (from `HoldersGoOn` and `NoLostWakeup`: when nobody is
  left to run, nobody holds the lock, so nobody can be waiting for it) and
  `RwLockWokenWaitersSettle`. The measure of the latter is needed because a woken
  writer may go from one list to the other and block again: it does so only
  towards the list that the lock's state calls for (`Misplaced`).
* **SyncTrackerProofs.** A new wait or a new owner closes a set of mutually
  waiting threads only through the thread that moves; if it does, every owner of
  what it waits for can reach it, which is what the search tests
  (`DetectorComplete`). Conversely the threads on the way back form such a set
  (`DetectorSound`). `OwnersAndWaiters` is needed so that a thread waits only
  for registered objects it does not own. `SearchIsReachability` proves that the
  code's recursion computes that reachability. An answer "found" is a path, by
  induction on the depth; the threads for which it is "not found" are closed
  under dependency; and the threads from which a search of a given depth is given
  up grow strictly fewer with each level, since otherwise they would wait for one
  another, which `DetectorComplete` excludes. So no search goes as deep as there
  are threads, although it marks nothing as visited. The inductions are over sets
  of naturals (`AllNumbers`, from the least element of a set), and `LevelsExist`
  shows that the recursive function is defined.
* **HostThreadProofs.** `HostInv` has three parts: one for all calls
  (`RunsAtRun`, `FlagsOfWaits`, `NoThreadLost`, `ContinuationsArePending`); one for
  runs without suspension (`NoneSuspended`), which keeps waiting threads out of
  the queue and reaped threads off the processor, also when threads wake
  themselves (`HostWaitsLast`, `HostReapedNeverRun`); and one for runs with
  neither (`QueuedOnce`: the running thread is never queued), which makes the
  debug checks pass (`HostDebugChecks`).
* **KernelSleepProofs.** `SleepInv` says that a thread keeps the processor from
  assert_wait to thread_block and the bucket lock until its wait is asserted
  (`Windows`), that what a sleeper tested stands as long as it has the lock
  (`TestStands`, from `LockExclusion`), and extends `NoLostWakeup` to threads
  about to assert their wait (`NobodyForgotten`); only together are they
  inductive. `ModeRemembered` carries the mode across the sleep. With
  `LockExclusion` the lock implements `ReadersWriter` (`SleepImplementsRW`).
  `SleepOnlySleepersWait` excludes deadlock among the lock, the bucket lock and
  the wait queue: whoever has the bucket lock never needs the lock before giving
  it up, and whoever has the lock can always run. `SleepSleepersSettle` orders
  the steps: wakers come nearer to their end, and while they stand still sleepers
  come nearer to their next sleep. Both are about the run's `BoundedSpec`, for any
  number of calls and interruptions.
* **ThreadExecutorProofs.** Outside a deletion the thread that
  `g_current_thread` names is the only one whose condition holds (`TokenAtRest`);
  during one the token goes from main to the deleted thread and back, and
  `TokenInDeletion` says which flags are set at each stage. Both are needed: a
  hand-over is complete only together with what `main_thread_running_` says,
  which `ChecksPass` ties to `g_current_thread`, and every other thread has to be
  asleep with its flags down (`Undisturbed`). The theorems assume
  `~DeleteUnstarted`: the executor is not destroyed while a thread exists that
  never ran, since such a thread would run (see the remark above).
  `ExecutorImplementsCoop` shows that the hand-over between OS threads is, to its
  clients, the same one-processor scheduler that `FuzzedScheduler` implements.
  `ExecutorSwitchNotOvertaken` and `ExecutorDeletionAdvances` are the safety
  behind `SwitchArrives` and `DeleteThreadReturns`: nobody gets in between, and a
  deletion is a fixed number of steps of two threads.
* **FuzzSessionProofs.** `SessionInv` holds over any number of sessions, handles,
  commands and kernel steps.
  - `QueueMatches` (who is queued or running is who does not wait) and
    `MainWaits` (others run only while main is in RunUntilEmpty) place every step
    of a thread at a step of the session. With `ProvidersInPlace` (preemption is
    off until the providers are set, and both are live from then on)
    every reader finds a live provider (`SessionProvidersOutliveReaders`).
  - `SectionsInCalls` and `ShapesInCalls` say where in a call a section or an
    open raw command can be. They carry `SessionSectionsNotPreempted` and
    `SessionCopyinExact` through the longjmps and through the reuse of handles.
  - `SlotsInUse` (to which threads main refers at each step, and that only those
    are new), `AllAborted` (whoever exists has been aborted or main will still do
    it; an aborted thread does not wait) and `DaemonComes` (the daemons are
    scheduled when there is something to reap or to free) give
    `SessionLeavesClean`: at the end nobody is scheduled, so nobody is new,
    waiting, ended or reaped.
  - `SessionEachStepAdvances` is the safety behind `SessionEnds`. A step takes the
    main thread to a later statement (`Ahead`), or uses `Fuel`, or leaves some
    thread with less to do and none with more (`ToDo`), or has the daemons run,
    or lets a queued thread run. It assumes that the kernel asks for no delay of a
    second or more; such a delay never ends.
* **KernelFakesProofs.**
  - Ticket lock: `TicketInv` says that `waiters_` are exactly the threads inside
    Lock and are all runnable once the mutex is free, and that at most one thread
    destroys the lock, after it was invalidated. Hence while Destroy waits the
    waiters can only leave (`TicketDestroyDrains`, the safety behind
    `DestroyReturns`). The acquisitions and releases are those of a lock with one
    holder (`TicketImplementsRW`).
  - Zones: `ZonesRegistered` is inductive with the types; its counts need that
    the identifier found is new, that a view adds to `Views` itself and, if it is
    the first on a zone of no heap, one more, and that no zone changes its heap
    once it has views. `ZonesHoldElements` is arithmetic: the sizes the code accepts fit
    the 16-bit fields, and when the code's percentages, rounded down, prefer one
    chunk, the other one wastes no smaller part by more than the rounding
    (`LessWaste`). This extends the run's sizes to all sizes and any number of
    processors.
  - Elements: `CallsBeginEmpty` and `LoopCounts` (the elements on the stack, the
    failed pushes and the iterations left add up to the count) make
    `ElementsAccounted` and `AllOrNothing` inductive. `CopiesAreOld` (the value a
    raiser compares with is no newer than the number) does it for
    `ReserveReached`: the exchange succeeds only on the current value, so it only
    raises.

The measures and the properties behind liveness, and the refinements of
`ThreadExecutor`, `HwTicketLock` and `KernelSleep`, were checked with TLC on the
instances of the runs before they were proved; the runs do not repeat them.

The type invariants of all these modules, `CurrentIsLive` and the executor's
CHECKs (`ChecksPass`) are parts of the inductive invariants and so are proved,
not listed in the runs.

Only model-checked, and why:

* liveness itself (`RunUntilEmptyReturns`, `LockEventuallyReturns`,
  `DeleteThreadReturns`, `SwitchArrives`, `DestroyReturns`, `WakeupArrives`,
  `SessionEnds`). What is proved for every instance is its safety part: a measure
  that falls with every step, and that nobody is left behind when it can fall no
  further. That the steps are enabled, and the conclusion by fairness, is out of
  the prover's reach; TLC checks both on the runs' instances;
* the assumptions about tables (`CommandsCoverWrappers`, `StubsLinkOnce`) are
  constants that TLC evaluates in full.

With suspension `ReapedNeverRun` and `WaitEndsByWakeup` do not hold: a thread that
was suspended while it was queued is in `suspended_runnable_`; when a lock's
release makes it run all the same and it then waits, or ends and is reaped, the
end of the suspension still queues it. Nothing suspends threads today, since
`ThreadStop` returns at once, so this is a remark for whoever enables it.

## Not modelled

XNU itself is not part of the repository; its system calls, wait queues,
daemons and reference counts appear as what the code in the repository relies
on, and its state behind them does not. Logging, names and backtraces are output.
Protobuf definitions and the syscall generators have no state at run time. The
functions that lay out packets, Mach messages, NECP buffers and ioctl arguments
from protobuf fields (bsd.cc, mach_message.cc, necp.cc, the ioctl tables) compute
bytes and change no state. mbuf.c, vfs.c, root_device.c and the kalloc
configuration set up kernel objects in straight lines. libco's context switch and
libFuzzer are external. `wake_active` of the Host is left to a later module.

## Plan

`ThreadStop`: `XNUThreadStop` and `XNUThreadWait` with `wake_active`, over
`HostThread`, when the repository enables suspension.
