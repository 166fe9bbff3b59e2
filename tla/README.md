# A TLA+ specification of hotcoco

hotcoco is a C++20 coroutine library: lazy tasks, asynchronous synchronisation
primitives, structured concurrency (groups, races, timeouts, cancellation),
executors (thread pool, libuv, io_uring, user polling) and TCP, files and HTTP on
top. This directory holds TLA+ modules translated from its source,
configurations that check them with TLC on small instances, and proofs checked by
TLAPS.

    tlc -workers 2 -config Executors.cfg Executors        # one run
    tlapm ChannelProofs.tla                               # the proofs of one module

`PROJECT.json` lists components, runs, mutants, the source lines each
definition stands for, findings, hazards and theorems. Below,
`sync/`, `core/`, `io/`, `http/`, `execution/` are directories of
`src/include/hotcoco/` (headers) or of `src/src/` (`.cpp`).

## 1. Inventory

| Component | State | Operations | What makes it hard |
|---|---|---|---|
| `AsyncMutex` (`sync/mutex.hpp`) | `locked_`, `waiters_` | `Lock`, `TryLock`, `Unlock` | test, release, test again, suspend; ownership handed to a coroutine that is not yet running; inline resumption |
| `AsyncSemaphore` (`sync/semaphore.hpp`) | `count_`, `waiters_` | `Acquire`, `Release`, `Guard` | the same, with several permits and releases without a guard |
| `AsyncRWLock` (`sync/rwlock.hpp`) | `reader_count_`, `write_locked_`, two queues | `ReadLock`, `WriteLock`, both unlocks | a batch of readers admitted at once and resumed one by one; fairness between the kinds |
| `AsyncLatch` (`sync/latch.hpp`) | `count_`, `waiters_` | `CountDown`, `Wait` | lock-free fast path, saturation at zero |
| `AsyncEvent` (`sync/event.hpp`) | `signaled_`, `waiters_` | `Wait`, `Set`, `Reset` | reset before the released waiters have run |
| `Channel` (`core/channel.hpp`) | `buffer_`, `closed_`, two queues | `Send`, `Receive`, `Close`, destructor | direct hand-over, flags written into suspended frames, close against everything |
| `TaskGroup` (`core/task_group.hpp`) | `size`, an `AsyncEvent` | `Start`, `co_await` | counter and event are two steps on both sides |
| `WhenAll`, `WhenAny`, `Timeout` (`core/`) | countdown or winner flag | start, join | children that end before the parent waits, losers that outlive it |
| `Task`, `DetachedTask`, senders (`core/`, `execution/`) | a frame and its continuation | start, transfer, destroy | who destroys the frame, and on which thread |
| `Spawn` (`core/spawn.hpp`), `SyncWait` (`sync/sync_wait.hpp`) | result, callbacks or event of one task | `OnComplete`, `OnError`, completion, wait | registration against completion; the waiter's frame ends while the wrapper still runs |
| frame pool (`core/frame_pool.hpp`) | free lists of each thread | `Allocate`, `Deallocate` | frames that end on another thread than they began on |
| `Cancellation` (`core/cancellation.hpp`, `execution/stop_token_adapter.hpp`) | `cancelled_`, callbacks | `Cancel`, register, unregister | registration against cancellation; a callback running while it is unregistered |
| `Retry` (`core/retry.hpp`), `Generator` (`core/generator.hpp`) | attempt and delay; current value | `Execute`; iteration | backoff arithmetic; values in the frame of the coroutine that yields |
| `ThreadPoolExecutor` (`io/thread_pool_executor`) | work queue, delayed heap, `stopping_`, `active_tasks_` | `Schedule`, `ScheduleAfter`, `Post`, `Run`, `RunOnce`, `Stop`, destructor | atomics changed outside the mutex of the condition variable that waits for them |
| `PollingExecutor`, `LibuvExecutor`, `IoUringExecutor` (`io/`) | ready, callback and timer queues of one loop | the same interface | wake-up of a blocked loop, `Stop` against `Run`, ring limits |
| io_uring operations, streams, files (`io/iouring_*`) | a descriptor, a ring, provided buffers | one awaitable per system call | ring full, short transfers, close against pending operations, descriptor numbers that are reused |
| blocking TCP (`io/sync_tcp`) | a descriptor | `SendAll`, `RecvExact`, ... | partial transfers |
| libuv TCP (`io/tcp`), `PeriodicTimer` | single waiter slots, buffers, heap-allocated handles | callbacks of the loop | one slot, close against pending reads, handles that outlive their object |
| HTTP (`http/http`) | parser state, connection loop | `Parse`, `Run`, `HandleConnection`, `Stop` | text cut anywhere, keep-alive, failures in the middle |

**How they interact.** Every primitive suspends a coroutine by storing its handle
and later calls `handle.resume()` *on the thread and stack of the coroutine that
releases it*; no primitive goes through an executor. A resumed coroutine therefore
runs nested in the releasing call and may itself release, lock or suspend, and the
releasing call goes on when the resumed coroutine next suspends. `TaskGroup`,
`WhenAny` and `Timeout` are built on `AsyncEvent` and detached tasks; sleeping,
`Yield()`, `ScheduleOn()` and `Spawn()` hand a handle to an executor, and from there a thread
of the executor resumes it. The HTTP server is two kinds of coroutines over
`TcpListener` and `TcpStream`, whose callbacks libuv makes on the loop's thread.

**What makes each correct.** Locks: exclusion, conservation of permits, FIFO grants,
no suspended coroutine that nothing will resume, no handle resumed twice.
Channel: a bounded FIFO queue whose `Send` and `Receive` report truthfully what
happened. Group: the join waits for everything started. Frames: destroyed once,
never run in after that, never by two threads. Callbacks: once. Executors: each item is
executed once, in order, eventually; `Run` and the destructor return, and a
delayed handle is neither early nor lost. Streams and files: bytes in order, results that say what was
moved, every descriptor and handle released once. HTTP: handlers see the requests
that were sent, clients are answered.

## 2. Modules

A *bold* module is the root of a run.

| Module | Models | Built on |
|---|---|---|
| `FifoPermits`, `FifoChannel`, `FifoExecutor` | what a FIFO pool of permits, a bounded FIFO channel and an executor promise (abstract) | |
| `Coroutines` | inline resumption: stacks, `Leave`, `WakeAll`, `YieldAt` | |
| `AsyncMutex`, `AsyncSemaphore`, `AsyncRWLock`, `AsyncLatch` | the primitives of these names | `Coroutines`; mutex and semaphore implement `FifoPermits` |
| **`SyncPrimitives`** | these four under common properties | |
| **`Channel`** | `Channel` | `Coroutines`, implements `FifoChannel` |
| `AsyncEvent` | `AsyncEvent` | `Coroutines` |
| **`TaskGroup`** | `TaskGroup` and the end of a `DetachedTask` | `AsyncEvent` |
| `WhenAll`, `Race` | `WhenAll`; `WhenAny` and `WithTimeout` | `AsyncEvent` |
| **`Structured`** | event, group and race under one roof | |
| **`ThreadPoolExecutor`**, **`ThreadPoolTimer`** | work queue, workers, `Run`, `Stop`, destructor; `ScheduleAfter` and the timer thread | |
| **`ThreadPool`** | the pool with its timer thread | |
| `EventLoop` | queues, wake-up and batches that the loops share | |
| `PollingExecutor`, `LibuvExecutor`, `IoUringExecutor` | the executors of these names | `EventLoop` |
| **`Executors`** | one of the three loops per behaviour | implements `FifoExecutor` |
| `FramePool` | frame memory per thread | |
| `TaskFrames` | `Task`, senders, scheduler, `Yield`: frames on the stacks of threads | `FramePool` |
| `Spawn`, `SyncWait` | `Spawn()`; `SyncWait()` and `DetachedTask` | `TaskFrames` |
| `Cancellation`, `Retry`, `Generator` | the components of these names | |
| **`Lifetimes`** | all of these; a behaviour is about one program | |
| `Tcp`, `HttpServer` | libuv streams; parser, requests, server with its clients | `HttpServer` extends `Tcp` |
| `Descriptors` | the kernel's descriptors, objects that own them, one connection | |
| `UringOps`, `UringStreams` | every io_uring awaitable and the provided buffers; io_uring listener, stream, file | `Descriptors` |
| `SyncTcp` | blocking listener and stream | `Descriptors` |
| `PeriodicTimer` | `PeriodicTimer` | |
| **`Streams`** | HTTP, blocking, io_uring and timer programs under common properties | |

Theorems are in modules of their own: `CoroutineLemmas` (sequences without repetitions, stacks and
wake-up lists) holds the lemmas that several need; `SyncPrimitivesProofs`,
`ChannelProofs`, `StructuredProofs`, `ExecutorsProofs`, `LifetimesProofs` and `ThreadPoolExecutorProofs`
extend the module each is named after, the last one all of `ThreadPool`.

The roots `SyncPrimitives`, `Structured`, `ThreadPool`, `Executors`, `Lifetimes` and `Streams` hold a
variable (`subject`, `part`, `kind`, `about`, ...) that says which of their parts a
behaviour is about: a property common to several components is then stated, and
broken by a mutant, once.

### Coroutines and threads

In the primitives a process is a *coroutine*. `pc[c]` says where it stands,
`to_wake[c]` is the local list of handles of the unlocking, setting or closing call it
executes, and `runner` says on whose stack it was
resumed. A critical section of the primitive's internal `std::mutex` is one action; what lies
between two of them is a separate label:

    Lock()    "run" --LockReady--> "owner" | "lock?" --LockSuspend--> "owner" | "mwait"
    Unlock()  "owner" --Unlock--> "run" | "wake" --LockResume--> "nest" --(resumed one leaves)--> "run"

Each coroutine starts on its own thread, so any two labels of different coroutines
interleave, except that a coroutine in `nest` waits for the one it resumed.
`Leave(c, next)` is the step in which a coroutine gives its thread up and the call
that resumed it returns; `YieldAt(c)` is user code that suspends elsewhere and is
continued by an executor on a thread of its own. User code may do any legal sequence of operations;
a coroutine that holds a lock does not ask for the same lock again (the primitives are not
reentrant). `TryLock()` that fails changes nothing and is left to stuttering.
The destructor of `Channel` comes when no operation is in progress, and puts the waiters it drops
into `abandoned`.

In `TaskGroup` the steps of `Start()` and of the completion callback are separate
actions, because they are separate atomic operations in the code. The variable
`one_thread`, chosen at the start, says whether the executor is a single event loop: then
no operation is interrupted by another. In `Race` the caller starts a controller, which
starts the children through the latch of `WhenAll`; the winner of the exchange on
`first_completed` publishes and sets an `AsyncEvent`, on whose waiter list the caller may
or may not be yet. `freed` marks the destruction of the latch and of the children's
frames at the end of the controller's `co_await`.

### Frames

In `TaskFrames` a process is a *thread* with a stack of frames. `resume()` pushes a
frame, symmetric transfer replaces the top, suspension pops it. A host coroutine
(that of `Spawn`, `SyncWait` or a `DetachedTask`) awaits `Child`, which may hop to another thread through the
executor, await `Leaf` directly or as a sender through the bridge coroutine, or await
the scheduler. Every frame is allocated from the `FramePool` of the thread that
creates it and returned to that of the thread that destroys it; sizes are chosen so that two
frames share a bucket and one is oversized.

`Cancellation` has several cancelling threads and clients that register, unregister
and let guards go while `Cancel()` is between its flag, its lock and its calls; a client may be a
link to or from a `std::stop_token`. `Retry` keeps the delay in a `long` of
`MaxLong`, multiplies it by halves and drops the fraction; a cast out of range gives the smallest `long` or the nearest one, as processors do.

### Executors

In the pool a process is a *thread*. `queue_mutex_` is a variable only where a thread
holds it across steps. `condition_variable::wait(lock, pred)` is: evaluate `pred` with
the mutex held; if false, a further step releases it and blocks, atomically, as the
standard requires; a notification moves a blocked thread back to the evaluation, and so may a
spurious wakeup. `notify_one()` chooses any blocked thread. Changes of `stopping_` and
`active_tasks_` that the code makes without the mutex can thus fall between the
evaluation and the blocking. Handles and
callbacks are both *items*; an item may schedule itself again (`Yield()`). The variable
`ops`, chosen at the start from `Programs`, says which operations the users of the pool call.

`ThreadPoolTimer` has the delayed heap as a set with deadlines, the capacity of the
vector under it, and the reference that `TimerLoop()` keeps to its first element while
it waits. A push that exceeds the capacity moves the vector: reads through the reference then
give an arbitrary time and handle (`Garbage` included), the outcome the build can produce.
Time is a counter up to `MaxTime`.

The event loops share `EventLoop`: a call pushes under `queue_mutex_` and, in a second
step, writes the wake-up; the loop swaps the queues into its locals `ready` and `callbacks` (`SwapQueues`) and
runs these item by item, and what it runs may call the executor again. `batch` is what a phase of the loop
has taken from elsewhere, the timers that expired or the operations that completed, and `arming` the
timers on their way from the queue to the loop's own. Each executor adds its order
of phases: `PollingExecutor` polls its source, which keeps what has `completed`, in batches of `BatchSize`, then
timers, then queues, and never blocks for ever; `LibuvExecutor` is driven by `uv_run` (timers, idle handle, poll,
async callback); `IoUringExecutor` submits, blocks for a completion, handles the eventfd read
and renews it, which fails when the submission queue of `QueueDepth` is full (`unarmed`).
`FifoExecutor` is what they implement: given, run once, in order within handles
and within callbacks, dropped only by destruction.

### Streams

`Tcp` gives the loop's thread to one actor at a time (`on`): libuv calls back only while no
coroutine runs, and a callback that resumes a coroutine hands it the thread. A connection has
two ends with their handles (`raw`, `open`, `closing`, `freed`), the bytes in flight and the requests of libuv; system
calls fail up to `MaxFaults` times. The parser sees a request as a sequence of
pieces; a read delivers any number of them, llhttp calls back once for all the
text of a part it finds in one call, and so every cut of a message is covered. The limits of the parser
are constants. `HttpServer` has `Run()`, one `HandleConnection()` per connection, `Stop()`, and
clients that send one request at a time, read its response and close as they like.

`Descriptors` reuses numbers at once, so a descriptor closed twice can be somebody else's.
`UringOps` prepares one ring entry per awaitable (error at once without an executor or with a
full ring; one that waits for the loop to submit it may find its descriptor closed meanwhile, and its number
another's) and lets the kernel complete, shorten or fail it; `UringStreams` is the
listener, the stream and the file over these; `SyncTcp` takes one step per `send()` or `recv()`.
The source sends the bytes 1, 2, 3, ...; what the sink was given is kept in `got`.

## 3. Runs

| Run | Instance | Shows |
|---|---|---|
| `sync` | 4 coroutines; a mutex; 2 permits + 1 from an unguarded `Release()`; a reader-writer lock; a latch of 3 counted down by 1 or 2 | `MutualExclusion` through the hand-over, `HandlesValid`, `WaitersJustified`, `ReadWriteExclusion` with exact counts, `BoundedOvertaking`, `MutexRefinesFifo`, `SemaphoreRefinesFifo`, `WaitersServed` |
| `channel` | 3 coroutines, capacity 1, 3 messages, `Close()` and the destructor at any time | `RefinesFifoChannel`, `WaitersRight`, `Truthful`, `CloseReleases` |
| `structured` | 4 users of an event; a group with 3 tasks on one thread and on several; `WhenAny` over 0 to 3 tasks, `WithTimeout` of one, with and without an executor | `HandlesValid`, `JoinsAllOnOneThread`, `AwaitReturns`, `NoUseAfterFree`, `ResultPublished`, `OneWinner`, `CallerReturns` |
| `task_group_race` | owner + 2 tasks | **violation** of `JoinsAll` |
| `timeout_no_executor` | the races of `structured` | **violation** of `TaskAlwaysWins` |
| `pool` | 2 workers, 2 users, 2 items, 2 requeues; programs that call `RunOnce`, or `Run`, `Stop` and the destructor. Or: 2 delayed handles, delays 1 and 2, time to 3, a vector of capacity 0, 1 or 2 that may grow, `Stop()` at any time | `ItemsInOnePlace`, `RunReturnsIdle`, `ItemsServed`, `DelayedOnceUnlessMoved`, `DelayedServed` |
| `pool_destroy_hang` | 1 worker, destructor | **violation** of `DestructorReturns` |
| `pool_timer_dangling` | 2 handles, new vector | **violation** of `DelayedOnceNotEarly` |
| `executors` | each loop with one other thread; 2 handles, a callback, a delayed handle, an I/O operation, of which 3 are given; batches of 1, ring of 1 | `RefinesFifoExecutor`, `NoLostWakeup`, `TimeoutsTracked`, `ItemsServed`, `StopEndsRun` |
| `streams` | HTTP with one client (8 kinds of request, every cut) or two; 1 fault, 2 requests; 3 descriptors, 2 bytes, 2 provided buffers, ring of 1; a timer with 2 waiters | `RequestsIntact`, `ClientServed`, `HandlesReleased`, `DescriptorsOwned`, `TransfersTruthful` |
| `headers_combined` | the same | **violation** of `HeadersCombined` |
| `lifetimes` | main thread and 2 workers, 5 frames, 2 hops, free lists of 1; 2 cancellers and 2 clients; 4 attempts with a `long` of 7; generators of up to 3 values | `FramesSafe`, `ToldOnce`, `LoopsRight`, `EverythingEnds` |

**Why the bounds are enough.** Four coroutines at a lock give an owner, a
waiter being handed the lock, a waiter behind it in the queue and a newcomer, all at
once; at the reader-writer lock, a writer that leaves, two readers in one batch and a
waiting writer. Capacity 1 with 3 messages fills the buffer, suspends senders
behind it and drains it across the end of the stream; with 3 coroutines a sender, a
receiver and a closer meet in every order. Two workers and two users suffice for a
notification that wakes the wrong thread, and two items for one that waits while the other runs. Two delayed
handles give a sleeping timer thread an earlier newcomer, and the capacities a vector that moves and one that does not. Three racing tasks give a winner, a loser that
ends meanwhile and a loser that ends after the caller. In an event loop 3 items give one running, one in the
batch and one pushed meanwhile, and a ring of 1 is full at once. One fault at any call of libuv
reaches every error path of the streams, 2 requests make the second one follow whatever the
first left in the parser, and 3 descriptors force a number to be reused. Two hops
move a frame to another thread and back; free lists of 1 are full after one frame. Backoff
factors 1, 1.5 and 2 with a `long` of 7 overflow within 4 attempts.

`CHECK_DEADLOCK FALSE` is set where the system may really stop: an event nobody sets, a latch nobody
counts down, a closed channel, a race that is over, a pool, loop or program that has
ended or whose items, clock or requests are used up.

**Fairness.** Weak fairness of the steps inside the library (a started
`await_suspend`, `Unlock` section or `resume()` loop is executed by its thread to
the end) and of the destruction of a guard, which scope exit brings. Strong fairness of `Yield` where
the liveness of a *batch* is at stake: a coroutine resumed inside somebody's wake-up
loop must eventually suspend or end, or those after it in the loop wait for it; the
library can promise nothing otherwise. In `Race` the tasks
need not end: a task started inline must at last suspend or end, the timer fires, and everything
else is library code. In the pool, every worker and every user inside a
call keeps taking steps; strong fairness is what a mutex that does not starve a thread
gives. In `Executors` the loop thread keeps running, what it runs returns however often it calls the
executor (strong fairness of `EndItem`), timers expire and operations complete. In `Streams` a
coroutine that has the loop's thread gives it up (`[]<>(on = Loop)`) and libuv calls back while it has something to
call back for; clients are obliged to nothing. In `Lifetimes` every thread runs what is on its
stack or what the executor has. Nobody is obliged to begin an operation, and spurious wakeups are
possible and never fair.

**Findings.** The five violation runs are disagreements between the code and what it
documents; `PROJECT.json` quotes both sides. In short: a `Start()` on one thread
overlapping the last completion on another leaves the group's event set; `Stop()`
and the destructor notify outside the mutex, so a worker can sleep for ever and `join()`
never return; `TimerLoop()` reads through a reference after the wait that let the heap
move; without an executor `AsyncSleep` does not suspend (`timer.hpp:71`), so the timer child of `WithTimeout`
wins at once against a task that has suspended, where `timeout.hpp:15-16` says that "the timer cannot fire, so the
user's task always wins"; and a header that comes twice loses its first value when the second arrives in two
reads (`http.cpp:267-269`), where the parser's comment and its test say that the values are combined. The passing runs show that the rest of the same components is right, and delimit
each finding: `JoinsAll` holds on one thread, `DelayedOnceNotEarly` until the
vector moves under the reference, `CallerReturns` for a timeout with an executor, and
`RequestsIntact` says that values of a repeated header are lost only before one that was cut.

**Observations** that have no run of their own. Where a property has an exception, the
exception is a behaviour of the code that TLC reaches:

* `RunReturnsIdle` fails in a program that calls both `Run()` and `RunOnce()`: the latter
  raises `active_tasks_` only after it has released the mutex (`thread_pool_executor.cpp:96`). A
  finishing item lowers `active_tasks_` and notifies outside the mutex (line 198), so `Run()` can miss
  the end of the last item and then absorb the `notify_one()` meant for a worker, which is
  why the pool's `ItemsServed` is stated for programs without `Run()`. `Run()` clears
  `stopping_`, so a `Stop()` just before it is forgotten.
* `WriteUnlock()` admits all waiting readers before a writer that queued earlier: the alternation
  its comment speaks of (`rwlock.hpp:195-196`) is between the kinds (`BoundedOvertaking`), not in
  order of arrival.
* `LibuvExecutor::Stop()` from another thread does not wake a loop that is blocked
  (`libuv_executor.cpp:90`); `StopEndsRun` excepts this.
* When the renewal of the wake-up read finds the submission ring full
  (`iouring_executor.cpp:374`), nothing retries it and later calls do not wake the loop: the
  state `unarmed`.
* A read that fails or meets the end sets `closed_` (`tcp.cpp:259`), after which neither `Close()` nor the
  destructor calls `uv_close`: `HandlesReleased` excepts these streams (`eof`). A `Close()` while
  a `Read()` waits leaves the reader suspended.
* `HandleConnection()` ignores what `Write()` returns (`http.cpp:381`): after a response that `uv_write`
  refused, server and client wait for each other (`unsent`). `Read()` ignores what `uv_read_start` returns
(`tcp.cpp:227`), and suspends for ever where that fails (`unread`). `ClientServed` excepts both. `Stop()` of the server is noticed only after
  the next accepted connection.
* A descriptor of io_uring is left open for ever (`lost`) in three cases, and `DescriptorsOwned` allows no others: a read that
  meets the end sets `closed_` (`iouring_tcp.cpp:165`, `191`), so that neither `Close()` nor the destructor closes it;
  `Connect()` after `Close()` leaves `closed_` set, with the same effect on the new descriptor; and `File::Close()` that cannot be
  submitted has forgotten it.
* `ReadProvided()` leaves the submission to the loop (`iouring_async_ops.hpp:232`): after a `Close()` meanwhile it
  receives on whatever has the number by then.
* `ReadProvided()` without a free buffer looks like the end of the stream to its caller.
* A second `Wait()` on a `PeriodicTimer` overwrites the first (`forgotten`); its destructor
  resumes a waiter that may `Wait()` again and is then never resumed.
* A cancellation callback may still run after its guard was destroyed, when `Cancel()` had already
  moved the list. A second `OnComplete()` after a first has consumed the result is called with a
  moved-from value.
* `SyncWait()` destroys its wrapper while that may still run on another thread up to its final
  suspension; `FramesSafe` excepts that wrapper.
* The retry delay is multiplied without a cap (`retry.hpp:121`); once it leaves `long`, the slept time may be
  negative (`overflowed`).
* A `DetachedTask` started as its header shows, with `GetHandle().resume()` (`detached_task.hpp:24`), has
  `started_` false: it destroys its frame when it ends, and the destructor of the object destroys it again. The
  models, like the library, start it with `Start()`.
* The move constructor of `DetachedTask` does not take `started_` over (`detached_task.hpp:80`).

Each property of a passing run has a mutant in `PROJECT.json`: a `Bug_` operator
next to the definition it replaces, with a plausible mistake (a test not repeated,
a counter changed in the wrong branch, a missing reset) for which TLC finds the property violated.

## 4. Proofs

Every theorem below is checked by TLAPS for all values of the constants, where TLC checks one
small instance. The only hypotheses are the named assumptions of the modules (a finite set of
coroutines, `None` not one of them, counts and capacities natural numbers, a capacity of at
least 1, the parts played by different coroutines; in `Executors` handles, callbacks, delayed handles and
operations are different items; in `Lifetimes` the five frames, the callbacks, and the cancelling threads
and their clients are different, a retry policy has no negative numbers and fits a `long`, and the heap has as
many blocks as there are frames, so that `operator new` does not fail), which TLC evaluates on every run, and
the one that `RunSound` states.

| Theorem | Proves | Of |
|---|---|---|
| `MutexSafe`, `MutexRefines` | `MutualExclusion`, `MutexRefinesFifo` | `AsyncMutex` implements `FifoPermits` |
| `HandlesSafe`, `NobodyWaitsInVain` | `HandlesValid`, `WaitersJustified` | `AsyncMutex`, `AsyncSemaphore`, `AsyncRWLock`, `AsyncLatch` |
| `SemaphoreRefines` | `SemaphoreRefinesFifo` | `AsyncSemaphore` implements `FifoPermits` |
| `LockExcludes`, `LockAlternates` | `ReadWriteExclusion`, `BoundedOvertaking` | `AsyncRWLock` |
| `ChannelRefines`, `WaitersSafe`, `EndsTruthful` | `RefinesFifoChannel`, `WaitersRight`, `Truthful` | `Channel` |
| `EventHandlesSafe` | `HandlesValid` | `AsyncEvent`, alone, in a group and in a race |
| `GroupJoins` | `JoinsAllOnOneThread` | `TaskGroup` |
| `LatchOutlivesChildren` | `NoUseAfterFree` | `WhenAll` |
| `ResultThere`, `WinnerStays` | `ResultPublished`, `OneWinner` | `WhenAny`, `WithTimeout` |
| `PoolKeepsItems`, `RunSound` | `ItemsInOnePlace`, `RunReturnsIdle` | `ThreadPoolExecutor` |
| `DelayedSound` | `DelayedOnceUnlessMoved` | the pool's timer thread |
| `ExecutorsRefine` | `RefinesFifoExecutor` | the polling, libuv and io_uring executors implement `FifoExecutor` |
| `WakeupNeverLost`, `TimeoutsFreedOnce` | `NoLostWakeup`, `TimeoutsTracked` | the libuv and io_uring loops |
| `FramesSound` | `FramesSafe` | `Task`, senders, `Spawn`, `SyncWait`, `DetachedTask`, the frame pool |
| `ToldSound` | `ToldOnce` | `Spawn`, `SyncWait`, `DetachedTask`, cancellation |
| `LoopsSound` | `LoopsRight` | `Retry`, `Generator` |

Each module has one inductive invariant (`IndInv`; `TimerIndInv` for the timer thread, `Inv` in `ExecutorsProofs` and
`LifetimesProofs`), a lemma per action or group of actions that it is preserved, a theorem
`Spec => []IndInv`, and the properties as its consequences. TLC checked each of them as an invariant of
the module's run before it was proved.

**Stacks and lists** (`CoroutineLemmas`). All the primitives resume inline, so all their
invariants share two parts. `StackInv(R, A)`: a coroutine somebody has resumed is not
suspended, its runner is inside `resume()`, and a runner runs one coroutine, so that
`Leave` moves one frame besides its own; a list of handles is left to resume only at "wake" and "nest".
`ListsInv(A)`: no list that a waker works through has a repetition, no two of them meet,
and who is in one is suspended. `AtInv`, `LeaveInv`, `WakeAllInv`, `ResumeInv` and `InlineInv`
say that the five steps of `Coroutines` preserve both for any labels, and what they do to `Woken`;
`OnePlace` derives `InOnePlace` from them. Without these parts no property is inductive: that a `resume()` wakes
somebody who sleeps, and makes nobody a second owner, rests on the handle being in no other place.

**`SyncPrimitives`.** `MutexCore` says that there is one owner exactly while `locked_`, counting one on its way to be
resumed, and that coroutines are queued only while `locked_`. `MutexRefines` maps each step to one of
`FifoPermits` or to a stutter: `TakeLock` takes the free permit, the suspending branch queues, the
branches of `Unlock` hand over or free. `SemCore` adds that nobody is queued while `count_ > 0`: that is why a `Release()`
with a waiter hands the permit over and one without raises the count, the two steps of the refinement.
`RWCore` adds that a reader is queued only behind a writer that has the lock or waits, and a writer only
behind an owner, and `Turns`: while the lock is held for writing no queued writer has been passed,
otherwise no queued reader has. `BoundedOvertaking` follows; by itself it is not inductive, because it does not
say who is next. The counts are cardinalities (`FS_AddElement`, `FS_RemoveElement`), a batch of
readers that of a deque without repetitions (`DistinctCardinality`).

**`Channel`.** `Handles` (one place each, with those the destructor abandons apart), `Queues` (who is listed
has a reason), `Messages` (a message is accepted, refused or in the hands of one sender, whose
`sent_` says which) and `Ends` (a woken receiver without a result will find the channel closed and
empty). `Truthful` needs the last two: the flag is written by one coroutine and read by another,
any number of steps later.

**`Structured`.** `EventInv` holds whoever uses the event. `GroupInv` says which coroutines may be where,
that a task about to be started is about to be started once, that `size` is the number of tasks live or begun,
and, on one thread, that one operation at most is under way and that between operations the event is set
exactly when `size = 0`; with several threads this last part is what fails (`task_group_race`). `RaceInv` says
that the latch counts the children that have not taken theirs and the controller until `TryAwait()`,
that a winner exists at most once and has published before it sets, and that only the caller waits,
so a `Set()` resumes one coroutine.

**The pool.** `ItemsInOnePlace` is inductive with the knowledge of who has an item in a local (`HoldsItem`)
and that `active_tasks_` counts the threads between its increment and decrement (`CountsActive`).
`RunSound` is about the programs in which nobody calls both `Run()` and `RunOnce()`; section 3 says why not the
others. Both and `DelayedSound` are about the whole pool: `PoolParts` says that each of its parts behaves by
its own specification. In `DelayedSound` the invariant is stated up to the moment a push moves the vector (`moved`), as in the
property; `FrontSound` says that until then the reference is to an element of the heap.

**The event loops.** `Inv` has five parts. `Control` types the control state. `Data` says which loop
uses which of the places an item can be in, that a wait is in one of them at most (armed, due, in the submission
queue, completed, in `timer_queue_`, `arming` or `batch`), that what is anywhere was given to the executor, and that `pending_timeouts_` has the timeouts that
are on their way through the ring, which is `TimeoutsTracked`; the refinement maps each place to what
`FifoExecutor` knows of the item. `Quiet` says in which phases the loop has nothing of its own left to run. The last
two are about the wake-up, and differ because the loops do: in `UvWakeup` queued work means that the idle handle is
active, the async handle is signalled, or the pusher is between its push and its signal; in `UringWakeup` a read of
the eventfd is in the ring or about to be renewed, unless the ring was full (`unarmed`), and queued work or a
stop means that the eventfd is or will be written, until the loop has passed the place where it looks.
`NoLostWakeup` alone is not inductive: it speaks of the blocked loop and not of how it came there.

**Lifetimes.** A step of one of the four programs leaves the variables of the others alone, so `Inv` is the conjunction of
one invariant for each. That of the tasks, `TasksInv`, has these parts.

* `ControlInv`: which combinations of states the five coroutines can be in together. `HostInv` and `CallerInv` tie the
  host to the caller and to the child, `LeafInv` the leaf and the bridge to what the child awaits, and
  `ScheduledInv` says what the executor has to resume. All later parts rest on it: that a `Destroy` or a
  resumption finds the frame it should is a fact about several coroutines at once.
* `StackInv`: on the stacks are only the bodies of active coroutines, a `start()` still to come, and the
  wrapper that `SyncWait()` has destroyed under its last step, each once over all the threads. Symmetric
  transfer, `resume()` and suspension are lemmas (`TransferStep`, `PushStep`, `PopStep`) with the condition that nobody
  who stays loses the right to be there (`Keeps`) and who comes was nowhere (`Fresh`).
* `PoolInv`: each block is free, under one frame or in one slot of one free list, and has the size its place says;
  a frame has memory exactly while it lives. The blocks taken from the heap are no more than the frames
  created, which is counted with `FiniteSetTheorems`: hence there is one to take (`HeapSuffices`).
* `SpawnInv`: each callback given is in one of five places: in `on_complete`, about to be called by the task's or by the
  registering thread, called, or replaced by a later one. `WaitInv`: what is signalled has a result.

`CancelInv` says that handles are unique, so that unregistering takes out the one entry it means, and that a callback not
called yet and not given up is in the list or in the hands of the one `Cancel()` that won. `RetryInv` and `GeneratorInv` count
attempts against sleeps and positions against values.

**Only model-checked.** Liveness (`WaitersServed`, `CloseReleases`, `AwaitReturns`, `CallerReturns`, `ItemsServed`,
`DelayedServed`, `StopEndsRun`, `ClientServed`, `EverythingEnds`): fairness and `ENABLED` are outside
this prover's reach. Of the safety properties, those of `Streams`: `RequestsIntact` compares a fold over the pieces of a
message with a definition that reads all of them at once, which needs induction over the sequence, and that the
provers cannot do; `HandlesReleased`, `DescriptorsOwned` and `TransfersTruthful` have no proofs yet. The five violated
properties are, of course, not theorems.

## 5. Not modelled

Memory orderings weaker than sequential consistency (the atomics are used with
acquire/release on single locations, or next to a mutex); exceptions (the library aborts or
returns `Result`); destruction of a primitive that still has waiters, which is the
caller's error by its documentation except for `Channel`; the values that tasks, channels and callbacks carry,
beyond what tells them apart; pipelined HTTP requests (clients wait for the response before they send again, so
that a read never holds parts of two); a `DetachedTask` started other than by `Start()`; the text of HTTP messages and the spelling of responses;
moves of `DetachedTask`, `Task` and the other handles of the core (the descriptors' owners do
move); the transfer of `ScheduleOn()` between two executors; receivers with a stop token; the
duration of delays in the event loops (a timer expires at any time after it is armed);
`Result`, errors, combinators and thread naming, which have no state.

## 6. Plan

Done: every component with state of its own is modelled, and the safety properties of all of them but the
streams are proved. What is left are theorems, in this order:

1. `DescriptorsOwned` of the blocking and io_uring streams: one owner per descriptor, over the kernel's reuse of numbers.
2. `HandlesReleased` of `Tcp` and `PeriodicTimer`, with the invariant that one actor has the loop's thread.
3. `TransfersTruthful`: what the sink got is a prefix of what the source sent.
