# A TLA+ model of Cosmopolitan's threads

CosmoRuby builds Ruby against Cosmopolitan Libc, which is in this repository
under `libc/`. Nearly everything else is vendored (`third_party/`), or is
sequential library code. The part with the hard behaviour of its own is the
threading runtime: `libc/thread`, the locks under `libc/intrin`, and the code of
`libc/proc` and `libc/intrin/sig.c` that reaches into it. That is what is
modelled here.

## Inventory

| component | state | operations | what is hard | what makes it correct |
|---|---|---|---|---|
| POSIX thread objects (`pthread_create.c`, `pthread_exit.c`, `pthread_detach.c`, `pthread_timedjoin_np.c`, `pthread_zombify.c`, `pthread_decimate_np.c`, `pthread_orphan_np.c`) | `_pthread_list`, `_pthread_count`, and of each object `pt_status`, `pt_refs`, `tib_ctid` | create, start, exit, join, detach, kill, cancel, garbage collection | list and count under a lock, the other fields without it; clone fails half way; the last thread reclaims the rest | nobody uses a freed object; the assertions hold; handles stay valid; the process ends |
| futex mutex (`pthread_mutex_lock.c`, `_unlock.c`, `_clocklock.c`) | one word | lock, trylock, clocklock, unlock | lost wakeups, timeouts | exclusion, progress |
| recursive and error checking mutex (same files) | a word of type, owner, depth and lock bit | the same | the word is rebuilt by compare and exchange; unlocking what one does not hold | exclusion, depth |
| barrier (`pthread_barrier_{init,wait,destroy}.c`) | `_entered`, `_exited`, `_round` | wait, destroy | reset at `BARRIER_MAX`, teardown | rounds of exactly `count` threads, one serial thread each, everyone returns |
| semaphore (`sem_*.c`) | `sem_value`, `sem_waiters` | post, trywait, wait, timedwait, init, destroy | a waiter that gives up as it is woken; destroy beside waiters | units are neither lost nor made up; no lost wakeup |
| condition variable without nsync (`pthread_cond_*.c`) | `_sequence`, `_waiters`, `_waited` | wait, timedwait, signal, broadcast, destroy | signals between unlock and sleep; expiring and cancelled waits | no lost signal; the mutex is held on return |
| rwlock, spin lock, once | a word each | | | exclusion |
| lock order checker (`intrin/deadlock.c`) | edges between lock addresses, locks held per thread | track, untrack, check, record | checked before a lock is taken, recorded afterwards; both tables are finite | what is recorded is not nested the other way; no false alarm |
| stack cache (`intrin/stack.c`) | bounded list of free stacks, list objects | alloc, free, clear, set the limit | unmapping outside of the lock, failing `mmap` and `munmap` | a stack has one owner |
| stream table of stdio (`intrin/stdio.c`, `stdio/alloc.c`, `fclose.c`, `fflush.c`) | `__stdio.files`, reference counts, locks | open, close, flush one, flush all | counts change without the lock; closing while all are flushed; cancelation | no stream is freed in use, or leaked |
| fork (`proc/fork.c`, `pthread_atfork.c`) | all locks of the runtime | prepare, parent, child | lock order, threads that vanish | no deadlock, no lock left behind in parent or child |
| cancellation, signals, timers, processes on Windows | per thread masks and pending sets | | delivery races | |
| nsync | vendored | | | used through its contract |

The components meet in these places. The list of thread objects is protected by
a global lock, the *gil*, `_pthread_lock()`, a recursive mutex of nsync.
`pthread_join()` waits on the futex `tib_ctid`, which the kernel (or the clone
wrapper) clears when the thread has left its stack. Signal senders and cancellers
walk the list under the gil and hold a lease (`pt_refs`) on the thread they have
found. The last thread runs the `atexit` handlers, which may call back into
`pthread_create()`. Mutex, barrier, semaphore and condition variable sit on
`cosmo_futex_wait()` and `cosmo_futex_wake()`, the condition variable on the
mutex as well. An error checking mutex consults the lock order checker before it
blocks. `fork()` takes the lock of every stream, then `__stdio.lock`, and after
these the other locks of the runtime in a fixed order.

## Modules

| module | models |
|---|---|
| `PosixThread` | thread objects, from creation to reclamation |
| `Mutex` | abstract mutex |
| `DrepperMutex` | the futex mutex; implements `Mutex` |
| `Barrier` | abstract barrier |
| `PosixBarrier` | the barrier; implements `Barrier` |
| `PosixMutex` | error checking and recursive mutexes and the lock order checker, on top of the abstract `Mutex` |
| `Semaphore` | abstract semaphore |
| `PosixSem` | unnamed semaphores; implements `Semaphore` |
| `PosixCond` | condition variable, composed with a mutex and the producers and consumers of a monitor |
| `StdioFork` | the stream table of stdio and the part of `fork()` that locks it |
| `StackCache` | the cache of thread stacks |
| `PosixThreadProofs`, `DrepperMutexProofs`, `PosixBarrierProofs`, `PosixSemProofs`, `PosixCondProofs`, `PosixMutexProofs`, `StdioForkProofs`, `StackCacheProofs` | the inductive invariants of these modules and the theorems |
| `MCPosixThread`, `MCPosixMutex`, `MCStackCache` | symmetry sets for TLC |

A definition whose name is that of another with a suffix
(`DecimateCtid_Ignored`, `Limit_Ragged`) is a plausible bug: put in place of the
definition it varies, it breaks the property it is listed with in
`PROJECT.json`. No specification uses these definitions.

### PosixThread

A member of `Thread` is both the thread and its `struct PosixThread`. It is made
at most once, so an object stays `"freed"` for ever after `_pthread_free()` and
every later use of it shows. `pc` says at which load, store or critical
section each actor is; a `Sender` is one of the Windows threads that call
`__sig_generate()` without being POSIX threads.

The grain follows the synchronisation of the code. Under the gil, list
operations are one step, since nothing else reads the list. `pt_status`,
`pt_refs` and `tib_ctid` are also read and written without the gil, so each load
and store of them is a step of its own, in the order of the source: the
collector's loads of `pt_refs` (`DecimateRefs`), `tib_ctid` (`DecimateCtid`) and
`pt_status` (`DecimateStatus`); the joiner's load of `pt_refs` before it locks
(`JoinRefs`); the count that the exiting thread decrements first
(`ExitCount`) and the assertion that reads it (`OrphanReturn`, `ExitPopulation`).
Compare-and-exchange loops are one step, as their failures only repeat them.

`pthread_create()` is `pthread_create` (garbage collection first), `CreateAlloc`,
`CreateLink`, `CreateCount`, `CreateClone` and `CreateUnref`, or the error paths
`CreateNoMemory`, and `CreateCloneFails` followed by `CreateUnlink`,
`CreateUncount`, `CreateFree`. `pthread_exit()` is `pthread_exit`, `ExitCount`,
the loop of the last thread (`ExitSpawn` and `ExitFinalize` for the handlers, a
garbage collection, `ExitOrphan`, `ExitPopulation`), `ExitStatus`, `ExitZombify`,
and `ExitThread` or `ExitProcess`.

Left out: attributes, stacks and TLS layout (an object owns them and they are
freed with it), exit values, which signal is sent. The application is assumed to
use a handle at most once at a time and never after it joined or detached it:
`handles` are the ones still in its hands.

`Ops` selects the operations an application uses, `AtexitSpawns` how many of its
`atexit` handlers create a thread.

### DrepperMutex

One step per atomic operation on the word, and one per system call. The kernel
compares the word with 2 when a thread goes to sleep; a wake picks any sleeper;
a sleeper may be interrupted at any time, or time out if it has a deadline. A
system without futexes (`polls`, chosen at the start from `Polyfill`) polls the
word instead. A timed wait may also return at once, which is what happens when
`cosmo_futex_wait()` refuses its deadline: the loop ignores every error but
ETIMEDOUT.

The abstract `Mutex` is about calls and their results. A thread is out of every call,
in a lock, trylock or timed lock call, or owns the mutex. A call succeeds at a moment at which nobody
owns it; trylock and timed lock fail only at a moment at which somebody does, and a
plain lock never fails. This is more than exclusion: a trylock that answered EBUSY for a
free mutex, or a lock that returned without it, would not be a step of `Mutex`. The unlocker owns the mutex until the word is
zero, so a trylock that fails between its `fetch_sub` and its store is right to do so.

### PosixMutex

The mutexes that are neither normal nor handled by nsync. Error checking mutexes
block like the abstract `Mutex`; what is modelled is what is around it:
`LockCheck` (is it mine, would it close a cycle), `LockAcquire` with the entry in
`tib_locks`, `RecordScan` and `RecordInsert` for every edge that is added to the
graph, and `Unlock`, which goes by `tib_locks`. Edges are never removed, so a
search in the growing graph, `Check`, is one step: it finds what was
there when it began, and what it finds in addition is there for good. Recursive
mutexes are modelled load by load and exchange by exchange. `nested` and `nest`
are ghosts: the nestings that happened and the acquisitions that are not undone.
Left out: debug builds, which check normal mutexes too, and the pid in the word.

The `Dynamic` mutexes are the error checking ones outside of static memory. They are
tracked and recorded like the others (`pthread_mutex_lock.c:48-49` passes `notrap = 1`), but
`__deadlock_tracked()` answers "uncertain" for one that the thread does not have
(`deadlock.c:215-216`), and `pthread_mutex_unlock()` goes on then: who does not hold it
releases it. `pthread_mutex_lock.c:288-290` says that error checking is supported only
for mutexes in static memory. With `Misuse = FALSE` threads unlock only those
`Dynamic` mutexes that they hold, as the run and the theorems assume; other
mutexes may be unlocked by anyone. `Misuse = TRUE` lifts this, with the
consequences listed below.

### PosixSem

Steps are the atomic accesses to `sem_value` and `sem_waiters` and the futex
calls. A wait can fail (EINTR, ECANCELED, ETIMEDOUT, cancelation for good) before
the kernel has looked at the word or while asleep, and it can return for no
reason. `rc` is the result of the last call: with `value` it is the abstract
`Semaphore`. `sem_destroy()` is two steps, the load of `sem_waiters` (`DestroyCheck`) and
the store of INT_MIN (`DestroyStore`), and others may be in the midst of any call
meanwhile. A thread that starts to wait between the two (`late`, a ghost) is on a
semaphore that goes away under it: its wait trips the assertion of `sem_timedwait.c:94`
(`WaitAbort`), or it sleeps until a signal or its deadline. The code
cannot exclude this, it is for the application not to do it; what `SemInv` says is
that it happens to no thread that was counted when `sem_destroy()` looked.
`sem_init()` of a destroyed semaphore is called when nobody is in a call. Posting stops
at `MaxValue`.

### PosixCond

`Lock` and `Unlock` are the mutex. A wait is the sequence number read under the
mutex (`WaitSequence`), the count (`WaitEnter`), the unlock, the sleep, and
`pthread_cond_leave()`, which is also the cleanup handler of a cancelled wait, in two
steps. A consumer whose wait expired or was cancelled looks at the items once
more (`check_last`); that is how a careful caller uses it, and
without it a signal may be spent on a thread that gives up. Producers signal or
broadcast, with the mutex held or after they released it. Sequence numbers do
not wrap: between a waiter's read and its sleep 2^32 signals would have to pass.

`pthread_cond_destroy()` is called in the monitor while no signal is under way. Its
look at `_waiters` (`DestroyCheck`) and the `memset()` (`CondDestroy`) are separate
steps. That nobody is inside a wait then (`NoUseAfterDestroy`) rests on the waiter's
side: it is counted before it gives up the mutex and counted out after it has it
again. From then on the application waits and signals no more.

### StdioFork

A section under `__stdio.lock` is one step, and so is each access to a reference
count outside of it: `UnrefShared` and `UnrefLast` are the two ways
`__stdio_unref()` can go, `UnrefLock` the second look with the lock held. `FILE::lock`
is a recursive mutex of nsync. A place in `File` may be used for one stream after the other, as
`free()` and `calloc()` may do. Opened streams are closed by the thread that opened
them. `fork()` is `ForkBegin`, a `ForkScan` and a `ForkLock` for each stream, and
`ForkParent` or `ForkChild`; after `ForkChild` the behaviour is that of the child and
only the forking thread goes on. Buffers are left out.

A thread may be cancelled in the `write()` of a flush. `fflush(0)` has a cleanup handler that
unlocks the stream and drops the reference (`FlushAllCancel`). `fclose()` has none
(`fclose.c:32-46`): with `FcloseCancel` the thread is gone (`"canceled"`), its stream stays
locked and its reference is never dropped.

### StackCache

What happens under `cosmo_stacks.lock` is one step. Evicted stacks are in
`surplus` until they are unmapped one by one; their list objects, `spare`, are given
back at the end. `mmap()` and `munmap()` may fail at any time. A stack size and a
guard size together are a `Kind`; a size of zero is refused (`stack.c:371`) before anything
is changed and is left out. `older` is a history of the calls of `cosmo_stack_free()`, kept apart
from the list: which stack was released to the cache after which. It is what
`EvictsOldest` goes by.

### PosixBarrier

`ticket` and `seen` are the local variables `entered` and `round` of
`pthread_barrier_wait()`. `Step` has one action per atomic operation, store and
futex call, including the three stores of the reset. `BARRIER_MAX`, 2^31 - 1 in
the code, is a constant, so that the reset happens after a few rounds;
`TypeOK` bounds `_entered` by the limit plus the number of threads, so the 32-bit
words cannot wrap. A spurious failure of the weak compare and exchange repeats
the step. Loads are sequentially consistent: `_round` is loaded relaxed, but after
the acquiring increment of `_entered`, and an older value of it leads only to a
failed exchange or to a futex wait that returns at once.

`pthread_barrier_destroy()` may be called by a `Destroyer` that is outside of the
barrier. With `EarlyDestroy = FALSE` it is called when nobody is going to enter and everyone
inside has been released. The code does not check this: its comment promises to
block while there are waiters (`pthread_barrier_destroy.c:33-34`). With `EarlyDestroy = TRUE`
it is called at any time, and the application then makes only those calls that the threads
inside wait for (`Awaited`). The code does not keep the promise, see `barrier_teardown` below; so
`barrier` and the theorems are about `EarlyDestroy = FALSE`.

The abstract `Barrier` completes a round at the arrival that makes it `Count`
threads. A thread has arrived when it has drawn a valid ticket and has left when
it is counted in `_exited`; those with a ticket of a complete round are the
released ones.

## What the model checker shows

| run | instance | shows |
|---|---|---|
| `posix_thread_join` | 3 threads; join, kill, self detach, detached creation, cancel everyone, orphan test | `NoUseAfterFree`, the two assertions of the code (`FreeAssertion`, `OrphanAssertion`), `HandlesValid`, `ZombiesLast`, `LegalTransitions` |
| `posix_thread_signal` | 3 threads, a signal sender, an `atexit` handler that makes a thread; self detach, detached creation, decimate, orphan test | `NoUseAfterFree` |
| `posix_thread_exit` | 3 threads, fair | `LastExitEndsProcess` |
| `drepper_mutex` | 4 threads, fair; lock, trylock, clocklock; with futexes and polling | exclusion, no lost wakeup, calls and results are those of `Mutex`, someone acquires while a thread sleeps |
| `posix_mutex` | 2 threads, 3 error checking mutexes, one of them outside of static memory, and a recursive one of depth 2, 3 slots, 2 edges | only owners release; unlocks match locks (`NestCounted`, part of `MutexInv`); recorded nestings are not reversed (`OneWayNesting`); EDEADLK is justified (`NoFalseAlarm`); nobody waits for itself unless `tib_locks` is full (`NoSelfDeadlock`, part of `MutexInv`) |
| `barrier` | 3 threads, count 2, limit 4, then destroyed when all are released, fair | implements `Barrier`; one serial thread per round, destroy waits until everyone is counted, counters in range (`BarrierInv`); released threads return, threads beyond the limit are woken, destroy returns |
| `semaphore` | 3 threads, up to 2 units, fair; destroyed at any time and made anew | implements `Semaphore`; waiters are counted and no semaphore is destroyed under those that `sem_destroy()` could see (`SemInv`); `NoLostWakeup`; units and sleepers do not stay together (`Progress`) |
| `cond` | 2 producers, 2 consumers, 3 items, fair; then destroyed | `NoLostSignal`; the mutex is held when a wait returns, waiters are counted (`CondInv`); nobody is inside a wait once it is destroyed (`NoUseAfterDestroy`); items and sleepers do not stay together (`Progress`) |
| `stdio_fork` | 3 threads, 2 of which fork and 1 of which flushes everything, memory for 2 streams, fair | references are counted right (`StdioInv`); everything is locked when the child is made (`ForkQuiescent`), nothing afterwards, in parent and child (`ForkUnlocks`); `fork()` returns (`ForkReturns`) and closed streams are freed (`ClosedFreed`) unless a thread is cancelled in `fclose()` |
| `stack_cache` | 3 threads, 3 stacks, 2 kinds, limits 0 to 2 | `OneOwner`, `RightKind`, the limit and the list objects (`CacheInv`), evicted stacks were released before those that stay (`EvictsOldest`) |

Three threads are enough for each role of a conflict on one object: the thread
itself, the one that joins or detaches it, and the one that collects garbage or
creates. Four lockers give the mutex two sleepers, one owner and one thread
between its `fetch_sub` and its wake. Three threads on a barrier of two, with a
limit of four, give two rounds in flight at once and threads that overtake the
reset; `BARRIER_MAX` is 5, not a multiple of the count, so that the remainder
matters. Three threads on a semaphore give two sleepers and a poster, and two
units a post that does not start from zero. Two consumers of a monitor suffice for one to
take the item the other was signalled for, and three items for one of them to
come back while the other still waits. Two lockers and three mutexes give every nesting of
three; fewer edges than pairs exhaust the graph. Two streams give the flush of
all streams a neighbour that may be closed, freed and opened again meanwhile. Three
stacks and a limit of two make evictions of one and of two.

Fairness. A thread that can run is scheduled (`WF` on its steps). The gil and the
locks of stdio are mutexes of nsync, which does not let a waiter starve, hence
`SF` on taking them. No fairness is assumed for the application's calls, for
signals that interrupt a wait, for deadlines, or for the mutex of a monitor. A
critical section of `DrepperMutex` ends (`WF` on `Unlock`, as part of `Step`). `ForkReturns`
and `ClosedFreed` say in their premise which calls must stop for them to hold: a
program that opens streams faster than `fork()` can lock them is not promised an
end.

Deadlock is checked for thread objects, where an ended process stutters (`Done`),
the futex mutex, the semaphore and the stack cache. The runs of the barrier and
of the condition variable say `CHECK_DEADLOCK FALSE`, because what is destroyed is never used
again, `stdio_fork`, because everyone may end up waiting for the lock of a thread cancelled in
`fclose()` (what must go on otherwise is said by `ForkReturns` and `ClosedFreed`), and `posix_mutex` because two threads that nest mutexes in opposite orders
for the first time may well deadlock: the checker learns from what has been
nested, not from what will be.

### Where code and text disagree

| run | what the trace shows |
|---|---|
| `posix_thread_detach_race` | `pthread_detach()` of a terminated thread between the collector's loads of `pt_refs` and `pt_status`: the object is freed while detach is about to link it again. `pthread_create.c:77` asserts that this cannot be |
| `barrier_teardown` | 3 threads, count 2, destroyed while one waits and one is yet to come (`EarlyDestroy = TRUE`). `pthread_barrier_destroy()` waits for the tickets drawn when it looked, and returns while the thread that completed the round is still inside; its comment says that it blocks until completion (`pthread_barrier_destroy.c:33-36`). In the same state the other thread, counted out, still has to read `_count` (`pthread_barrier_wait.c:37`), although the comment recommends the call for barriers on the stack |

The two disagreements of `barrier_teardown` are separate. With `EarlyDestroy = FALSE` the run
fails by the read of `_count` alone. With `EarlyDestroy = TRUE` TLC also reaches states in which
destroy comes to its `fetch_add` before anyone has left: the first exit then makes `_exited` the
limit and resets `_round` to 0 (`pthread_barrier_wait.c:30-35`), destroy returns, and another
thread of the same round that goes to sleep after that finds `_round` to be 0 and sleeps for ever.

Instances outside of the runs that TLC refutes within a minute:

- `posix_thread_join` with a `Sender` and `Ops = {"join"}` violates
  `NoUseAfterFree`: `pthread_join()` loads `pt_refs` before it takes the lock
  (`pthread_timedjoin_np.c:140`), and a sender that holds the lock takes its lease afterwards
  and keeps a freed object;
- `posix_thread_exit` with `AtexitSpawns = 1` violates `LastExitEndsProcess`: a
  thread made by an `atexit` handler and the last thread wait for one another for
  ever (`pthread_exit.c:100`);
- `cond` with `Private = TRUE` violates `NoUseAfterDestroy`: for a process-private
  condition variable used with a recursive mutex `pthread_cond_destroy()` looks at nsync's
  waiters, of which there are none, instead of `_waiters` (`pthread_cond_destroy.c:35`);
- `posix_mutex` with `Misuse = TRUE` violates `OnlyOwnerUnlocks`: a thread that unlocks a mutex
  outside of static memory that another one has releases it. Then the slots of the true
  owner are wrong too, and `NoFalseAlarm`, `OneWayNesting` and `MutexInv` fail in turn;
- `stdio_fork` without the exception `FcloseCanceled` violates `ForkReturns` and `ClosedFreed`: a
  thread cancelled in `fclose()` keeps the lock, for which `fork()` waits for ever, and its reference.

Lock order. `OneWayNesting` is about pairs, and this is all the checker
guarantees. A pair is safe since whoever nests it the other way holds the mutex
the first one needs until its edge is recorded. In a cycle of three mutexes,
three threads can each check before any of the others has recorded:
with three threads TLC reaches a state in which all three edges of the cycle are
in the graph. From then on every thread that holds one of them is refused the
next.

Read, not run:

- the comment of `pthread_barrier_wait()` gives the serial return code to the first
  thread that arrives in a round; the code gives it to the last (`Result`);
- `cosmo_stack_munmap()` (`stack.c:224`) reads the result of `munmap()` the wrong way
  round: `cosmo_stack_free()` returns 0 when it failed and may return an old `errno` when
  it succeeded, contrary to its comment (`stack.c:446`). `FreeUnmap` does the same;
- `pthread_mutex_clocklock()` with a malformed deadline spins until it gets the mutex and
  returns 0; its comment (`pthread_mutex_clocklock.c:266`) promises EINVAL;
- the comments of `pthread_mutex_lock.c` promise EPERM for a cycle (line 279) and
  EDEADLK for `pthread_mutex_trylock()` of a mutex the caller has (line 344); the code
  returns EDEADLK and EBUSY. A weak compare and exchange (line 99) lets
  `pthread_mutex_trylock()` of a free recursive mutex return EBUSY;
- `sem_post()` reads `sem_pshared` after it has published the unit (`sem_post.c:28`), when the
  semaphore may be gone; `sem_timedwait()` asserts that there is no other error than
  those it knows (`sem_timedwait.c:88`), so a malformed deadline aborts the process;
- `_flushlbf()` (`flushlbf.c:32`) continues with a variable that is not set for a
  stream that is not line buffered.

## What is proved

Every safety property that a passing run checks is also a theorem, most without and
some under a hypothesis, for every value of
the constants: any number of threads, objects, mutexes, streams or stacks, every
barrier count and limit. The theorems use of the constants what the assumptions
next to their declarations say: that the sets of threads are finite
where something counts them, that the value for "none" is no thread or object,
and the ranges of the numbers. The runs evaluate these assumptions.

| module | theorem | states | hypothesis |
|---|---|---|---|
| `PosixThreadProofs` | `TypeCorrect`, `MemorySafety`, `FreeAsserted`, `OrphanAsserted`, `HandlesStayValid`, `ZombiesGather`, `StatusDiagram` | `TypeOK`, `NoUseAfterFree`, `FreeAssertion`, `OrphanAssertion`, `HandlesValid`, `ZombiesLast`, `LegalTransitions` | `Discipline` |
| `DrepperMutexProofs` | `TypeCorrect`, `Exclusion`, `WakeupNotLost`, `Refinement` | `TypeOK`, `MutualExclusion`, `NoLostWakeup`, `ImplementsMutex` | |
| `PosixBarrierProofs` | `RoundsComplete`, `Refinement` | `BarrierInv`, `ImplementsBarrier` | `~EarlyDestroy` |
| `PosixSemProofs` | `WaitersExact`, `WakeupNotLost`, `Refinement` | `SemInv`, `NoLostWakeup`, `ImplementsSemaphore` | |
| `PosixCondProofs` | `MonitorKept`, `SignalNotLost`, `NotDestroyedUnderWaiter` | `CondInv`, `NoLostSignal`, `NoUseAfterDestroy` | the third: `~Private` |
| `PosixMutexProofs` | `DepthExact` | `TypeOK` and `NestCounted` | |
| | `SelfDeadlockRefused`, `NestingOneWay`, `OwnerUnlocks`, `AlarmJustified` | `MutexInv`, `OneWayNesting`, `OnlyOwnerUnlocks`, `NoFalseAlarm` | `[]Roomy` and `~Misuse` |
| | `RoomForAll` | `[]Roomy` | at most `Slots` error checking mutexes, and `~Misuse` |
| `StdioForkProofs` | `RefsExact`, `ForkFindsQuiescence`, `NoLockLeftBehind` | `StdioInv`, `ForkQuiescent`, `ForkUnlocks` | |
| `StackCacheProofs` | `CacheConsistent`, `KindKept`, `SingleOwner`, `LeastRecentlyUsed` | `CacheInv`, `RightKind`, `OneOwner`, `EvictsOldest` | |

Each module first strengthens the property to an inductive invariant `IInv` (found
with TLC, which checked it on the instances of the runs), then proves that the initial
states satisfy it and that each action keeps it, and derives the theorems. The
sections below say what the strengthening is and why it is needed.

### Thread objects

`Discipline` excludes what the races above need: detaching another thread,
signal senders beside joins, and `atexit` handlers that create threads. (The run
`posix_thread_signal` covers memory safety of the last case on three threads.)

`IInv` is the conjunction of the type invariant and fourteen parts:

- who may be where: `GilInv` (an actor in a critical section owns the gil),
  `TargetInv`, `PcInv`, `ListInv` (no object twice, cursors in range);
- `LiveInv`: whatever is linked, targeted, in a batch or running is live. This is
  memory safety read the other way round, and the part all others serve;
- `StatusInv`: status and `tib_ctid` against the progress of the thread;
- `RefsInv`: `pt_refs` is the number of actors that hold a lease. Hence a
  collector that reads zero knows that nobody does;
- `CountInv`, `LoneInv`: `_pthread_count` is the number of threads that run or are
  being made, and is zero while the last one loops;
- `CreateInv`, `EmbryoInv`: an object in the making has one creator, and is no
  one else's before it is linked and after it is unlinked;
- `HandleInv`, `JoinInv`, `DecimateInv`: what a joiner or a collector knows about
  its object after each of its loads, and that it stays true until it frees it.
  `DecimateInv` is where `Discipline` is used: between the load of `pt_refs` and
  that of `pt_status` nobody may newly take a lease without the gil.

The first lemmas say what the list operations do to a list of
distinct objects (`RemoveAt`, `Remove`, `MakeFirst`, `MakeLast`,
`MoveLastFacts`), how leases and count change (`LeaseTaken`, `LeaseReturned`,
`CountRises`, `CountFalls`), and, one frame lemma for each part of `IInv`, under
which local conditions a step of one actor keeps that part. After them there is
one lemma per action, which establishes these conditions; the parts that an
action really disturbs are proved there.

`ZombiesGather` needs a second invariant on top of `IInv`, `ZombieInv`, about the
order of the list at all times, also while the gil is held. A zombie becomes one
outside of the lock and is moved to the end later, so what may have only zombies
behind it is a *settled* zombie: one that was moved or whose thread is gone.
`pthread_join()` goes the other way round, it moves the object first and makes it
a zombie afterwards; in between that object is the exception, and the last one of the list.

### Futex mutex

The invariant ties the word to the owner: it is not zero while a thread holds the
mutex or is about to store zero, and there is at most one such thread. The window
of the unlocker between its `fetch_sub` and its store is what makes it necessary.
`NoLostWakeup` is inductive on top of it. The refinement maps each thread's place to its
status: the unlocker owns the mutex up to the step that makes the word zero, and a
failed exchange of a trylock or an expired wait finds the word nonzero, hence
somebody who owns it.

### Barrier

The arithmetic comes first: `Complete(n)`, the last ticket of a complete round, and
the remainder, as the next ticket is drawn. The main lemma is that the number of
waiting threads is `Last % Count`: `TicketInv` says that the tickets of the
incomplete round are all held, each by one thread, hence there is a bijection
between them and the waiting threads. With it a ticket that completes a round maps to the abstract arrival that
does. `RoundInv` keeps `_round` and the copies of it within the
complete rounds, so that whoever exits was released. `ExitInv` is the count that
triggers the reset (`_exited` and the threads inside add up to the tickets; destroy
adds what is missing), and `ResetInv` says that nobody is inside during the three stores
of the reset, which is why they need no lock. `BalanceInv` relates the returned calls to
those under way, serial ones counted `Count` times; it becomes `OneSerialPerRound`
when nobody is inside.

### Semaphore

`WakeInv`: while someone sleeps there is, for each unit, a thread that is going to
wake a sleeper or to look at the value. `NoLostWakeup` counts every waiter that is
awake; the invariant leaves out those that have looked and are at their futex
call, where a signal may end the wait without taking a unit. The counted
waiters (`SemInv`) make the poster's decision to wake right. `LocalInv` says that
what a thread remembers of the value is not outdated by a destruction.
The refinement maps a step that changes `sem_value` to the abstract call that ends with it.

### Condition variable

`WaitInv` records what a consumer has seen before it gives up the mutex: an empty monitor and
a sequence number not beyond the present one. `SignalInv` has two bounds on the
items: one for whoever sleeps, by the signals under way and the consumers awake;
and a sharper one for a consumer whose sequence number is still the present one, by
the signals that have yet to change it. The second makes the first
inductive, since such a consumer may go to sleep. `NoUseAfterDestroy` is proved for shared condition
variables, for which `pthread_cond_destroy()` looks at `_waiters`: the destroyer has held the mutex
since it saw no waiters. For private ones it is false (see above).

### Recursive and error checking mutexes

The depth and the owner of a recursive mutex are exact in every behaviour. What
error checking mutexes promise depends on `tib_locks`, which has 64 slots in the code:
when it is full the thread loses track of what it holds, and the code answers
"uncertain". `Roomy` says that this does not happen while there is
something left to lock; `RoomForAll` shows that it never does in a program with no
more error checking mutexes than slots, as in the run. `Disciplined` is what `~Misuse` gives:
a thread that unlocks a mutex outside of static memory holds it. `TrackInv`: the slots list
what the thread holds, once. `CheckedInv`: a thread that waits has
seen no edge from what it wants to what it holds. Its edges stay absent because
only a holder of both could add them. `RecordInv` and `NewInv`: a nesting is
an edge, or will be before either mutex is released, or the edges
are used up and nothing is recorded any more. The search in the graph (`Reaches`) is
defined as membership in every closed set, which needs no recursion.

### Streams and fork

`TableInv`: the streams in the table are distinct and allocated, and an allocated
one outside of it has one thread about to free it. `RefsCounted`, part of
the property itself, is inductive with it: it relates the count to the threads
at places where they own a reference. `LockInv` says who may have the lock of a
stream: whoever is inside it, or the forking thread once it has marked it; and
that a marked stream is locked or being waited for. When the scan finds no unmarked
stream, all are locked by `fork()`: `ForkQuiescent`. A thread cancelled in `fclose()` counts as
inside its stream for ever.

### Stack cache

`OwnInv`: the stacks in use, in the cache and in the lists of the evicted are
pairwise different and mapped; from this `OneOwner` follows by counting. `PcInv` says
what each thread owns at each place. Eviction and reuse take an element out of
the list, so most lemmas are about the range and the distinctness of prefixes and
of lists with one element removed. `Recency` says that the list is in the order of release by
`older`, the last one first: `cosmo_stack_free()` puts a stack at the head, and eviction and
reuse keep the order of the others. `LeastRecentlyUsed` follows, since eviction takes the end.

### Model-checked only

Liveness under fairness and `ENABLED` are outside the reach of the prover:
`LastExitEndsProcess`, the three `Progress` properties, `ReleasedReturn`,
`OverLimitWakes`, `DestroyReturns`, `ForkReturns` and `ClosedFreed` are checked
on the instances above. So is memory safety of thread objects without `Discipline`, in
the run `posix_thread_signal`. The modules have no recursive operator.

## Not modelled, and plan

Next come the read-write lock, the spin lock and once; the other locks of `fork()` with
the threads that nest them, and the thread list of the child; cancelation points;
interval timers; named semaphores. Of the proofs, what is left is to
weaken `Discipline`: `atexit` handlers that create threads satisfy memory safety in
the run, and the invariant would have to follow the last thread through them.

Read-write lock and spin lock of the path without nsync are a few lines each around
one word, and `cosmo_once()` is one exchange and a spin: they come last because
little can go wrong in them.

Out of scope: vendored code including nsync, Ruby and the other programs under
`third_party/`; the APE loader, assembly and build files; the buffers and formats
of stdio, the allocator, strings and math, which are sequential; programs and examples such as
`tool/net/redbean.c` and `net/turfwar`, which use the library; what
Windows does with signals and processes, of which only the lease on the target
thread is modelled. They are by far the larger part of the repository's lines, and
the modules cover a small share of it: the threading runtime.
