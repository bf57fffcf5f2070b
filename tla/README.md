# oveRTOS in TLA+

oveRTOS gives embedded applications one C interface (threads, queues, timers, work queues,
power management, networking, audio, ...) over several kernels. The POSIX backend implements
the interface itself, on plain pthreads; the other backends hand most calls to a kernel that
is not part of the repository. The hard concurrent code that the repository owns is
therefore in `backends/posix`, `backends/common` and `src`, and this project models its
core:

| Code | Module | Abstract specification | Proofs |
|---|---|---|---|
| `backends/posix/posix_workqueue.c` | `PosixWorkqueue` | | `WorkqueueInvariant`, `WorkqueueWorker`, `WorkqueueProofs` |
| `backends/posix/posix_queue.c` | `PosixQueue` | `BoundedQueue` | `QueueProofs` |
| `backends/posix/posix_stream.c` | `PosixStream` | `ByteStream` | `StreamProofs` |
| `backends/posix/posix_eventgroup.c` | `PosixEventGroup` | | `PrimitiveProofs` |
| `backends/posix/posix_timer.c` | `PosixTimer` | | `PrimitiveProofs` |
| `backends/posix/posix_thread.c`, the event of `posix_sync.c` | `PosixThread` | | `PrimitiveProofs` |
| `src/ove_media.c`, `src/ove_block.c`, `backends/nuttx/nuttx_block.c` | `MediaLease` | | as below |
| `backends/common/lxp_ove_storage_adapter.c` | `StorageAdapter`, composed with `MediaLease` | | `StorageInvariant`, `StorageRequests`, `StorageProofs` |
| `src/ove_pm.c`, `backends/posix/posix_pm.c` | `PowerManager` | | `PowerProofs` |

Each `MC*` module instantiates one of them for TLC. `PROJECT.json` maps every definition to
the lines it models and lists components, runs, hazards and theorems.

```
tlc -workers 2 -config Queue.cfg MCQueue     # model-check a run
tlapm WorkqueueProofs.tla                    # check the proofs of a module
```

## Inventory

### What is modelled

**Work queues.** State: per queue an array of pending items, the `running` flag, a mutex and
one condition variable; per item the backpointer `wq`, `pending`, `in_progress`, `delay_ms`,
`handler`. Operations: submit, delayed submit, cancel, init and deinit of items and of
queues, and the worker loop. Hard: cancellers sleep on the worker's condition variable; the
worker sleeps an item's delay without the lock; cancel reads the backpointer without a lock;
deinit drains.

**Message queues.** A ring with `head`, `tail`, `count`, two condition variables, timeouts,
an optional notify hook called after the unlock. Hard: one signal per item, callers that
barge in, deadlines that pass as a signal is sent.

**Byte streams.** A ring of bytes with a trigger level. A send may block half-way through
its message; a reset empties the ring under sleeping callers.

**Event groups.** Bits under one mutex; waiters differ in mask, all/any and clear-on-exit,
and share one condition variable.

**Timers.** One dispatcher thread per timer; start, stop, reset, change of period and
teardown from any thread, and the first four also from the callback.

**Power manager.** An idle thread consumes activity reports, asks the policy and puts the
system to sleep with the mutex held; clients set state and policy and register wake sources,
notifiers and domains. The decision is made without the mutex.

**Threads and events.** A thread is suspended by SIGUSR1, whose handler marks it and sleeps
on a semaphore; resume tests the mark and posts; stop sets a flag; deinit tests once and
joins. The thread sleeps on an event that others set and wait for too. Hard: the handler may
start between any two steps of the thread, while it holds the event's mutex too.

**Removable media and raw block access.** One atomic word counts who owns the card: the
filesystem, a raw writer, raw readers. A lease is good for one generation of the card. There
is no lock: a call is a sequence of atomic accesses.

**Storage adapter.** One worker serves requests from a queue of one. The coordinator waits
for a synchronous request; an asynchronous one is collected later, or cancelled, by its
owner. Both threads acquire the card, the worker for the filesystem and for reads of its
own, the coordinator for the raw lease. Hard: cancellation against completion, one staging
buffer for all, a stop behind requests that nobody waits for any more.

### What is not modelled

| Part | State and hard behaviour | Reason or plan |
|---|---|---|
| Mutex, semaphore, condition variable (`posix_sync.c`) | thin wrappers of pthreads | nothing beyond the host's own objects; the event is modelled |
| Profiler and trace rings | lock-free ring with commit bytes; try-lock ring | plan 1 |
| MQTT client | request and acknowledgement with timeouts | plan 2 |
| HTTP server, WebSocket | request loop, connection pool used by several threads | plan 3 |
| Audio graph | topological sort, start with rollback, statistics | plan 4 |
| Arena allocator, heap lock | block list, counters | plan 5 |
| Other Linux personality adapters | call forwarding; sequence-locked metrics | forwards to a library outside the repository |
| HTTP client, SNTP, TLS, sockets, files, key-value store | little state | I/O, one system call per operation |
| Buses, pins, LED, frame buffer, touch, console, shell, board | registration tables | device I/O |
| Time, interrupts, watchdog, protected calls | clock, recursive mutex, fault capture | behaviour of the host |
| Inference, module loader | tensor arena; relocation | wrapper of a library; sequential arithmetic |
| FreeRTOS, Zephyr, NuttX, WASM backends | kernel objects | the kernels are not part of the repository |
| Simulator, C++/Rust/Zig bindings | | host tools; wrappers (the Rust executor over the notify hook is a later composition) |

## How the code is modelled

A step is one critical section, from taking the mutex (on entry, or when `pthread_cond_wait`
returns) to unlocking or sleeping. Where code touches shared state outside a critical
section there is a step for each access: the load of `w->wq` in `ove_work_cancel`, the
worker's unlocked delay, and the idle thread's pass before it takes the mutex: the exchange of
the flag, each reading of the clock, the store of the baseline, the test of the state behind
it, the consultation of the policy and the comparison of its answer with the state. The
consultation reads the baseline, the policy and its data in one step. Code without a lock (media ownership, the state word of a thread) has a step for
each atomic access; a compare-and-swap loop is the attempt that succeeds.

- A condition-variable wait has three stages: `wait` (asleep), `loop` (woken, has to get the
  mutex and test again) and, where the wait is timed, `timedout`. Signal moves one sleeper
  to `loop`, broadcast all of them; a sleeper may also wake spuriously. Woken threads
  compete with new callers for the mutex.
- In queues, streams, event groups and timers only a sleeper that has not been signalled
  times out. POSIX permits a timed-out wait to consume a signal. The code returns without
  testing again when a wait times out (`posix_queue.c:76`, `121`, `posix_stream.c:80`,
  `135`), so `CallersAwake`, `ReadersAwake` and `WritersAwake` rest on this assumption. The
  event is modelled without it: `ove_event_wait` tests the flag after a timeout, and
  `SignalSeen` holds either way.
- `PosixWorkqueue`: worker `q` is the thread `q`; `cur` and `execute` are its locals.
  `cancelled` is a history variable: the items whose last submission a cancel took back.
- `PosixQueue`: `ove_queue_send`, `ove_queue_receive` and the ISR variants are `Call`s that
  test, move an item, sleep, or return; `moved` remembers the item of the last step for the
  refinement.
- `PosixStream`: the loop that copies bytes within one critical section is one block copy;
  its signals are sent one per byte as in the code. `trigger` is what `ove_stream_init` makes
  of the level it is given, from which `Init` chooses.
- `PosixTimer`: `dispatcher` is where the dispatcher thread is; time is what is left until
  its deadline, so it needs no bound. `age`, `shots` and `quiet` are history for `FiringJustified`.
- `PosixEventGroup`: `where` is where each caller is, `req` what it waits for; `takes` counts
  how often a bit has been taken since it was set.
- `PowerManager`: one tick is a millisecond, `pc` is the idle thread and `cpc` the clients.
  `spent` and `posted` are history.
- `PosixThread`: `handler` is where the signal handler of the thread is, `at` where the
  threads are. `ThreadInit` assumes that an earlier thread has installed the handler for the
  process. A client deinitialises after it has asked the thread to stop and when nobody else
  is in a call on the handle. The state changes around a wait are those of a build with
  `CONFIG_OVE_THREAD_STATE_STATS`.
- `MediaLease`: `card` counts how often the card came or went; what the backend knows of it
  is `noted`, what `ove_media.c` publishes is `generation` and `present`.
- `StorageAdapter`: `co` is the coordinator, `wk` the worker, `request` the synchronous and
  the asynchronous request, `held` the handles the personality can name. The asynchronous
  gate is a library outside the repository and modelled from its use. Any request may be made
  synchronously beside an asynchronous one. `g_io_buffer` is whose bytes the staging buffer
  holds; `overlapped` is history: a synchronous transfer has run beside an asynchronous one
  and one of the two requests is not over.

Calls the interface does not foresee are not modelled: `ove_timer_deinit` from the timer's
own callback joins the calling thread, and a power notifier that calls the power interface
waits for the mutex its caller holds. Return codes, trace marks and log output are left out,
and so is `deinit` of queues and streams, which destroys an object nobody uses any more.

## The runs

| Run | Instance | Distinct states | Checks |
|---|---|---|---|
| `workqueue` | 1 queue, 2 items, 2 clients, 1 slot | 19 936 | item bookkeeping, wakeups, cancellation, draining; items come back and calls return |
| `workqueue_stale_backpointer` | 2 queues, 1 item, 2 clients | violation | a canceller sleeps on the wrong queue |
| `eventgroup_safety` | 3 callers, 2 bits, all masks | 733 469 | no satisfied sleeper; a bit is taken once |
| `power_states` | 1 client, 1 policy, clock to 2 | 238 076 | statistics, activity, deinit |
| `power_tables` | 1 client, table sizes 2 | 292 896 | sleep is bracketed; held domains are powered |
| `power_choice` | 1 client, default policy, clock to 4 | violation | the idle thread overrides an explicit choice |
| `queue` | 3 callers, 2 values, 2 slots | 88 852 | FIFO refinement, wakeups, progress |
| `stream` | 1 writer, 2 readers, resets, 3 bytes, triggers 0, 2 and 4 | 300 195 | byte-stream refinement, wakeups, no standoff |
| `stream_two_writers` | 2 writers, 1 reader, 2 bytes | violation | a writer sleeps beside free space |
| `timer` | 2 clients and the callback, periods to 3 | 3 959 | firing, teardown, progress |
| `storage` | 2 owners, 1 handle, 2 leases, the card changes twice | 1 675 699 | ownership of the card, handles, staging buffer, pending count, failing closed |
| `thread` | 1 thread, 2 controllers, one of which waits for the event | 54 197 | resume and event are not lost, suspension holds, what hangs and why |

**Bounds.** Two slots make a ring wrap, fill and empty; three callers are one to sleep, one
to be signalled and one to barge in. Two items on one slot make a submission meet a full
queue while the worker has the other in hand. A stream of three bytes takes a three-byte
message apart at the wrap; trigger levels of 0 (taken as 1), 2 and 4 are the least, one a
reader has to wait for, and one the ring cannot reach. One writer is run there, because a
second one may sleep on beside free space (`stream_two_writers`). Periods up to three ticks give a reprogramming to shorter, equal
and longer periods. `MaxClock` bounds the clock of the power manager: with thresholds of one
and two ticks every state is reached and left again before the clock stops; the liveness
properties of `power_states` do not need it to go on. A card that changes twice is taken out
and replaced, which is a lease for an old card, a card that is gone and a new one; two
leases are all the adapter has, one for each of its threads; two owners are one that holds
the gate and one that is turned away. Two controllers race a suspend with a resume;
`MaxTokens` bounds the semaphore where a resume begins, and one token nobody has taken is
enough to wake a handler whose thread has not been resumed. Symmetry is used in safety runs
only, over interchangeable threads, items and bits.

**Fairness.** A runnable thread runs (weak fairness of the steps that continue a call, of
the dispatcher, of the clock and of join). Strong fairness is assumed where weak fairness is
not enough. A worker, a canceller and the idle thread, which ask again and again for a mutex
that is released again and again, get it in the end; pthread mutexes do not promise this, a
fair scheduler gives it. A sleeper's deadline is absolute, so it passes although the sleeper
keeps waking. In `thread` a pending signal is delivered, the handler and the calls go on,
and a mutex that is released again and again is had in the end; nobody is assumed to resume.
`CHECK_DEADLOCK` is off there because the system really may stop: a thread that is suspended
in `ove_event_wait` keeps the event's mutex, and both controllers may then be waiting for
it. Handlers and callbacks return. Nobody is assumed to call anything. Streams and event
groups have no liveness run: what a caller waits for there depends on what others choose to
do.

### Where code and documentation differ

Three runs end in a counterexample.

- `workqueue.h:207` says that cancel waits for an executing handler. `ove_work_cancel` loads
  `w->wq` and then locks that queue. If the item finishes there and is submitted to another
  queue in between, the canceller sleeps on the first queue's condition variable, which the
  worker that has the item does not broadcast.
- The comment at `ove_pm.c:233` says that a manual change is kept against the idle policy.
  `ove_pm_idle_process` decides before it takes the mutex and does not look again, so it may
  escalate past a state chosen in between.
- `stream.h:108` says that a send blocks while there is insufficient space. One receive
  signals once however many bytes it frees, and a woken writer signals nobody: with two
  writers the second sleeps on although there is space. `stream` shows that a single writer
  is safe, but for one that a reset finds asleep.

Others were met while modelling and have no run:

- `eventgroup.h:79` says that deinit unblocks waiters (the code wakes nobody).
- A stream's reset does not wake sleeping writers; `stream.h:226` says so of receivers only.
  `WritersAwake` and `NoStandoff` exempt a writer that a reset left behind (`stranded`).
- `ove_stream_init` accepts a trigger level above the size of the ring. No reader is ever
  served then, and once the ring is full writers and readers wait for each other. `stream`
  runs such a level; `NoStandoff` names it as the exception. The other way to a standoff is
  the lost wakeup of a second writer above, which is why the theorem is about a lone one.
- A timer's callback may begin after `ove_timer_stop` has returned, if it was decided on
  before.
- The power policy's function and data are read separately.
- `workqueue.h:181` promises `OVE_ERR_BUSY` for an item that is queued elsewhere, which the
  code tests under the other queue's lock only.
- A resume that finds the thread not yet marked SUSPENDED does nothing, so a suspend whose
  signal is delivered later is not undone; two suspends need two resumes when the second
  signal arrives in the handler. `StuckOnlyBySuspend` says that nothing else makes a call
  hang.
- A resumer that is late may set READY over TERMINATED. The signal handler is installed by
  the first thread, and a suspend of a thread that has not set `tls_current` yet is ignored.
- `block.h:12` says that handles "fail closed after card removal/replacement". Two callers
  of `ove_block_get_info` at once may defeat it: an answer published late makes an old
  generation, and the leases taken for it, good again. `FailsClosed` names exactly these two
  cases as exceptions.
- A storage callback may run after a `run_end` that is not the last client's, because the
  worker goes on; `port-migration-baseline.md:911` says that a provider "guarantees that no
  callback survives the matching `run_end()`".
- A comment at `lxp_ove_storage_adapter.c:231` says that the staging buffer is filled and
  emptied "while holding g_submit_lock". `submit_sync` does so; `submit_async` and
  `async_collect` do not, and the gate keeps only asynchronous requests apart. A synchronous
  transfer while an asynchronous one is under way or uncollected overwrites its bytes, or
  has its own overwritten. `StagingIntact` claims nothing from such an overlap until both
  requests are over (`overlapped`), and everything else.
- A cancelled request that is dropped wakes nobody who was told to come back.
- The size of the card that `block_bounds` uses is cached, and may be an earlier card's.
- The NuttX backend counts only the changes it has noted: a card that is swapped between two
  looks keeps its generation. The POSIX backend compares inodes instead.

## What is proved

Every safety invariant, action property and refinement that a passing run checks is also
proved, for every value of the constants: any number of queues, items, clients, callers,
writers, readers, owners and handles, any capacity, any period. The proofs use the named
assumptions on the constants (`WorkqueueAssumption`, `QueueAssumption`, `StreamAssumption`,
`EventGroupAssumption`, `TimerAssumption`, `ThreadAssumption`, `MediaAssumption`,
`StorageAssumption`, `PMAssumption`), which TLC evaluates in the runs,
and for work queues and for the writers of a stream one hypothesis each, stated below. The
properties are seldom inductive as they stand; each paragraph says what has to be known
besides.

**Work queues** (`WorkqueueProofs`). One theorem per invariant of the run, and two for what
it rests on: `WorkqueueType`, `WorkqueueQueuedOnce`, `WorkqueueBackpointerExact`,
`WorkqueueReleasedUnreferenced`, `WorkqueueWorkerSleepsIdle`,
`WorkqueueCancellerWillBeWoken`, `WorkqueueCancelledNeverRuns`,
`WorkqueueDrainedBeforeDestroy`. All have the hypothesis `SingleTarget`: an item is only ever
submitted to one queue. `workqueue_stale_backpointer` shows that `CancellerWillBeWoken` fails
without it. `BackpointerExact` is disturbed by a submission whose tests were passed earlier,
so the invariant has to remember what a client inside submit has established (`Submitting`,
`Holding`). `ReleasedUnreferenced` needs that a deinit has its item to itself (`DeinitAlone`)
and that nobody queues the item again behind it (`DeinitDequeued`). `CancellerWillBeWoken`
needs the worker's local variables tied to its place in the loop and to `in_progress`
(`WorkerState`, `InProgress`), and `SingleTarget` enters through `HomeQueue` and
`Cancellers`. `CancelledNeverRuns` needs `PendingState` and `SlotsDistinct`. `IInv` of
`WorkqueueInvariant` is the conjunction. `WorkqueueWorker` proves that the worker, the life
of queues and items and the tests of a submission keep it, `WorkqueueProofs` that storing a
submission and cancelling do.

**Message queues** (`QueueProofs`): `QueueType`, `NoLostSignal`, `RingImplementsFIFO`. The
invariant adds `head = (tail + count) % MaxItems` and that a blocked sender has an item.
`NoLostSignal` is a counting argument: each put adds an item and wakes a receiver, each take
removes an item and at most one woken receiver. The refinement shows that a put appends to
the abstract sequence, a take removes its head, and every other step leaves it alone.

**Byte streams** (`StreamProofs`): `RingImplementsStream` and `StreamReadersAwake` for any
number of writers and readers; `StreamWritersAwake` and `StreamNoStandoff` with the
hypothesis `LoneWriter`, without which `WritersAwake` fails (`stream_two_writers`). The
invariant says that indices and count agree (`Ring`) and that whoever is blocked has
something left to send or to ask for (`Blocked`). `ReadersAwake` counts: a send of `k` bytes
adds `k` to the count and wakes `k` readers or all there are; a receive takes at least one
byte for the one woken reader it uses up. `StreamNoStandoff` is about every size and trigger
level; its conclusion names the level above the size as an exception. For a lone writer `WritersAwake` has a sharper
form (`Unstranded`): it never sleeps beside space but for a reset. The refinement has to show
that a block copy which wraps around the end of the ring appends its bytes to what the ring
holds; the lemmas on windows of the ring (`Offset`, `CopiedIn`, `Appends`, `Removes`) do the
modular arithmetic once.

**Timers** (`PrimitiveProofs`): `TimerType`, `TimerDeinitFinal`, `TimerNoLostSignal`,
`TimerFiringJustified`. A firing is justified by `Deadline`: from the moment the dispatcher
programs a deadline, the time that has passed and the time that is left add up to the period
at least, until somebody reprograms; and an armed one-shot timer has not fired.

**Event groups** (`PrimitiveProofs`): `GroupNoLostWakeup`, `GroupTakenOnce`,
`GroupReturnsOnCondition`. That a bit is taken once needs that a bit which is set has not
been taken since (`SetUntaken`).

**Threads and events** (`PrimitiveProofs`): `ThreadResumeNotLost`, `EventSignalNotLost`,
`ThreadStaysSuspended`. What ties the mark SUSPENDED to the signal handler is `HandlerInv`:
the mark is there only while the handler is in its loop, and neither a pending signal nor the
handler outlives the thread.

**Power manager** (`PowerProofs`): `PowerStatsAccount`, `PowerNoActivityLost`,
`PowerSleepBracketed`, `PowerHeldDomains`. `Mutex` says who has the mutex at each step of the
idle thread and of a change of policy. The account of time needs to know which state the time
between two steps of a sleep belongs to (`Account`), and activity that the baseline about to
be stored is no older than the report it answers (`Baseline`).

**Storage adapter** (`StorageRequests`): `StorageHandlesAccounted`, `StorageStagingIntact`,
`StoragePendingExact`, of the composition of the adapter with the raw block API.
`RequestInv` of `StorageInvariant` follows the two requests: the synchronous one is in one
place (`HandOver`), the gate is taken exactly while the worker or the result has the
asynchronous one (`GateInv`), and a taken handle has one owner, the personality or one of the
two requests, until the stop closes them all (`HandleInv`, `OneOwner`): a close answers for
its slot until it is executed, an open from then on. `StagingIntact` has an invariant of its
own (`StagingInv`, inductive beside `RequestInv`): as long as no two transfers have
overlapped, at most one request has bytes in the buffer, and a request that ends forgets its
own bytes only, because an owner is never mistaken for the synchronous caller.

**The card** (`StorageProofs`): `StorageOwnersExact`, `StorageWriterAlone`,
`StorageFilesKeepWritersOut`, `StorageFailsClosed`, of the same composition, over `CardInv`,
which steps keep because `RequestInv` holds. An open has a lease object of its own, which is
not active before its swap (`Opening`), or a grant would count a lease twice.
`storage_run_begin` blanks the raw lease without giving anything back, which loses a share of
the card unless the stop request of the run before has released it and nobody has opened it
since (`Stopped`). The filesystem's share is the mount's, and open files have a mount
(`Mounted`). `FailsClosed` follows because no caller has an answer ahead of what the backend
has counted (`AnswersPast`): a store of `ove_media_observe` that makes a lease good again
publishes the current count, or an answer that has been overtaken, or falls between the two
stores of another caller.

TLC agrees on the instances of the runs where the invariants are intricate: `RequestInv`,
`StagingInv`, `CardInv` and `AnswersPast` hold in all 1 675 699 states of `storage`, `Ring`,
`Blocked` and `Unstranded` in all 300 195 of `stream`.

**Only model-checked.** Liveness, because the prover handles neither fairness nor `ENABLED`:
`SubmittedComesBack` and `CallsReturn` of work queues, `NobodyStranded` of queues,
`ArmedFires` and `DeinitReturns` of timers, `ActivityWakes` and `DeinitReturns` of the power
manager, `StuckOnlyBySuspend` of threads. The three counterexamples are TLC's, too.

## Not modelled

The parts the table above gives a reason for: kernels and libraries that are not part of the
repository, device and host I/O with one system call per operation, and sequential
arithmetic. Of the modelled parts are left out: `deinit` of queues and streams; transfers
longer than the staging buffer of the storage adapter, which the code makes piece by piece;
the sectors of a raw transfer one by one, and the failure of one after others; what the
flush of `ove_block_close` notes of a card that is gone, which is left to the next look at
it; the adapter's wake-up callbacks and pacing;
mutex, semaphore and condition variable of `posix_sync.c`, which forward to pthreads (the
maximum of a semaphore, `sync.h:90`, is ignored); the registry and the statistics of
threads.

What could still be modelled, in this order:

1. `ProfilerRing`: two producers and a consumer, indices modulo a small word; every claimed
   sample is read once or counted as dropped, out-of-order commits stop the consumer. A
   producer that is overtaken between its two loads drops although the ring is not full.
2. `MqttClient` over a stream that delays and splits packets; an acknowledgement belongs to
   the request it is taken for; packets behind the awaited one, and partial ones at the end
   of a read, are not lost.
3. `Httpd`: server loop and WebSocket pool with senders on other threads; one answer per
   request (a failed handler is answered twice), one close per connection.
4. `AudioGraph`: order of processing against the edges of small graphs, rollback, statistics
   in unsigned arithmetic (the rolling average).
5. `Arena`: blocks tile the region and agree with the counters, as an invariant to be
   proved.
