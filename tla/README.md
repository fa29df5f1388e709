# Verification of BorgnixSDK-STM32

TLA+ models of the Borgnix SDK for STM32 boards and of the RT-Thread 1.2
kernel it runs on, the TLC runs that check them on small instances, and TLAPS
proofs for every instance: of the scheduler's invariants, of the safety of
semaphore, mutex, mailbox, message queue, event object and memory pool, of the
heap and the timers, which are shown to implement an allocator and a countdown,
and of the MQTT session with its device registry. Paths below are
relative to `src/rtt/`; `applications/` is `bsp/stm32f40x/applications/`.

## 1. The system

A board runs one image: the kernel (`src/*.c`), lwIP, drivers, and the SDK
(`applications/mqtt.c`, `applications/borgnix.c`). There is one processor.
Threads have fixed priorities (0 is the most urgent), share a priority in turns,
and are preempted by interrupts, above all by the clock tick. Kernel calls
protect themselves by disabling interrupts. Nearly every call consists of
SEVERAL interrupt-disabled sections, and what is hard about this code is what
may happen in the gaps between them.

| Part | State | Operations | Hard behaviour | What makes it correct |
|---|---|---|---|---|
| Scheduler (`scheduler.c`) | ready list per priority, priority bitmap, current thread, lock nesting | insert, remove, `rt_schedule`, lock, unlock | called from every other part and from interrupts | bitmap exact; first thread of the highest ready priority runs; the lock holds |
| Threads (`thread.c`) | `stat`, priority, mask, error, list node, timer | init/create, startup, exit, detach/delete, yield, sleep, suspend, resume, change priority, time-out | unprotected tests of `stat`; two-section resume and detach | the one list node is linked once, where `stat` says |
| Clock, timers (`clock.c`, `timer.c`) | `rt_tick`, ordered timer list, time slices | tick, start, stop, check | runs between any two sections | only suspended threads are timed; sleepers wake; turns are taken |
| Idle (`idle.c`) | defunct list | reclaim | threads die at any moment | each dead dynamic thread freed once, none that lives |
| IPC helpers (`ipc.c`) | wait list per object | suspend on, resume first, resume all | `resume_all` looks with interrupts enabled | lists exact whatever times out |
| Semaphore (`ipc.c`) | 16-bit value, waiters | take, release (also from interrupts), reset, detach | release against time-out | tokens conserved; nobody waits beside a token |
| Mutex (`ipc.c`) | owner, hold, original priority, waiters | take, release, detach | inheritance against time-outs and nesting | exclusion; no priority inversion; priority given back |
| Event set (`ipc.c`) | bits, waiters with their requests | send (also from interrupts), receive, reset, detach | a send clears bits while it walks the waiters | no waiter whose request holds; a cleared bit is received once |
| Mailbox (`ipc.c`) | ring buffer, two wait lists | send, receive, reset, detach | senders and receivers loop with the remaining time | a bounded FIFO; nobody waits beside a mail or a free place |
| Message queue (`ipc.c`) | cells on two linked lists | send, urgent, receive, reset, detach | a cell is on no list while it is copied | a bounded FIFO; no cell is lost or linked twice |
| Memory pool (`mempool.c`) | block list, count of free blocks, count of waiters | alloc, free (also from interrupts), detach | free trusts the counts, a woken waiter takes without a test | the counts are those of the lists; a block has one owner |
| Heap (`mem.c`) | chain of block headers, `lfree`, `used_mem` | malloc, free, realloc | realloc releases the lock twice; joining moves `lfree` | regions handed out never overlap; the chain tiles the heap |
| MQTT session (`mqtt.c`) | socket, read and ping threads, `lastPingTs` | connect, reconnect, disconnect, sub, unsub, ping, read | three threads, one socket, one time stamp; every socket call may fail | one reader; no leaked socket; silence is noticed; a healthy session is kept |
| Device registry (`borgnix.c`) | device array and count | init, create, destory, connect, disconnect, dispatch | the read thread dispatches | a message reaches its device, once, and no freed one |

Interaction: the SDK's threads use the kernel only through thread, delay and
socket calls; the IPC objects act on the scheduler through suspend, resume and
`rt_schedule`; the clock interrupt acts on all of them through the thread timer.
The remaining directories are vendored libraries (lwIP, Paho's packet codec,
cJSON, DFS, finsh), drivers and demonstrations. `PROJECT.json` lists all parts,
also the ones that are not modelled with the reason, and the hazards by source
line.

## 2. Modules

| Module | Models | Extends |
|---|---|---|
| `Kernel` | the kernel's shared state as one record `k`, its internal functions as operators on such records; no behaviour of its own | |
| `ThreadSched` | thread management as a state machine | `Kernel` |
| `KernelProofs`, `ThreadSchedProofs` | lemmas about the operators; the invariants of `ThreadSched` | `Kernel`, `ThreadSched` |
| `IpcProofs` | what a wait, a wake-up, a time-out, a detach and the clock preserve, whatever the object | `Ipc`, `KernelProofs` |
| `ObjectProofs` | the invariants of `Mailbox`, `Event` and `MemPool`; `Mailbox` implements `Fifo` | `Mailbox`, `Event`, `MemPool`, `IpcProofs` |
| `MsgQueueProofs` | the invariants of `MsgQueue`; it implements `Fifo` | `MsgQueue`, `IpcProofs` |
| `LockProofs` | the invariants of `Sem` and of `Mutex`, and of all objects in `MCIpc` | `MCIpc`, `ObjectProofs`, `MsgQueueProofs` |
| `ServicesProofs` | the invariants of `SmallMem` and `Timer`; they implement `Allocator` and `Countdown` | `MCServices` |
| `BorgnixProofs` | the invariants of session and registry | `Borgnix` |
| `Ipc` | threads that run, sleep and block; the clock; `rt_ipc_list_resume_all` | `Kernel` |
| `Sem`, `Mutex`, `Event`, `Mailbox`, `MsgQueue`, `MemPool` | one kernel object each | `Ipc` |
| `Fifo` | what mailbox and message queue promise: a bounded queue (abstract) | |
| `SmallMem` | the heap | |
| `Allocator` | what the heap promises: disjoint regions (abstract) | |
| `Timer` | application timers, `rt_timer_check`, `rt_tick` with its wrap | |
| `Countdown` | what the timers promise, in distances (abstract) | |
| `Mqtt` | the MQTT session, the network and the broker around it | |
| `Borgnix` | the device registry on the session | `Mqtt` |
| `MC*` | instances for TLC | |

How the code's atomicity is kept. An operator of `Kernel` is a C function that
runs with interrupts disabled. An action of `ThreadSched` or of an IPC object
is ONE such section of a call; `pc[t]` says between which sections thread `t`
stands. `rt_thread_resume` is therefore `CallResume` (the unprotected test),
`ResumeFirst` (unlink, stop the timer), `ResumeSecond` (insert), `CallSchedule`.
An action of a thread needs the processor (`k.cur = t`, no interrupt being
served). `Tick` may come at every such point; it serves the time slice and enters
`rt_timer_check`, which pops expired timers one by one (`TimerCheck`). The
code's context switch inside an interrupt is a change of `k.cur` that takes
effect when the interrupt ends.

Correspondence of `k` with the C variables is in the header of `Kernel`. Two
things are abstract: time-outs are distances to `rt_tick` (module `Timer`, which
has the tick counter and its wrap, implements such a countdown), and list nodes are sequences, a node being
"removed" from whichever sequence holds it, as `rt_list_remove` does.
`k.owed` is a history variable: a call changed a priority or made a thread
ready without calling `rt_schedule`. Pointers to no thread (an entry taken from
an empty list) are the value `Wild` or the flag `wild`, and properties say that
they never arise.

In `ThreadSched` the deletion of a thread is four steps (`DetachRemove`,
`DetachTimer`, `DetachClose`, and for a created thread `DetachBury`), since
`rt_thread_delete` stores `RT_THREAD_CLOSE` before it disables interrupts to insert
into the defunct list. The idle thread takes a thread off that list
(`IdleUnlink`) and frees it later, with interrupts enabled (`IdleFree`); meanwhile
the variable `dead` is its local pointer. One thread, the `Manager`, manages the others: only it creates,
starts, suspends, resumes, re-prioritises and detaches. All threads yield, lock
the scheduler, and, as the constants `Sleepers`, `Resumable` and `Exiters` say,
sleep, park themselves and return.

`MCIpc` composes the six kernel objects with the same threads: the variable
`kind`, chosen in the initial state, says which object the behaviour is about,
and the others rest. The threads, their priorities, waiting times and flags are
shared, so the properties of `Ipc` (`KernelExact`, `HighestRunsIfAsked`,
`FlushWakesWaiters`, `TimedWaitEnds`) are checked against every object.
`MCServices` does the same for heap and timers with `part`.

`Mailbox` keeps a call's mail in `mail[t]` and cuts the calls at each pass of
their loops. `MsgQueue` cuts a send into `MqSendPop`, `MqSendFill`, `MqSendLink`
and a receive likewise; `hand[t]` is the cell that is on no list meanwhile. A
call that hands a message to its thread ends in a state in which the thread uses
it (`MailUse`), so that what was received is visible to the properties.
`rt_event_send` applies `Visit` along the wait list, in its order. In
`MemPool` the waiters are linked last in, first out, as in the code; interrupt
handlers allocate and free too (`PoolAllocFromIsr`, `PoolFreeFromIsr`), for the
thread they exchange blocks with, and never wait.

In `SmallMem` each section under `heap_sem` is a step; offsets and sizes are in
words of 4 bytes with the real `SIZEOF_STRUCT_MEM` (4 words), `MIN_SIZE` (3) and
`RT_ALIGN_SIZE` (2). `rt_realloc` that moves its block is `Realloc`, `ReallocGet`
and `ReallocFree`, between which the other thread calls. In `Timer` each timer has
a thread that manages it; the tick interrupt comes between reading the clock and
linking the timer (`TimerStart`, `TimerLink`), between unlinking and clearing the
flag, and between reading and storing the flag byte (`ReadFlag`, `StoreFlag`).

In `Mqtt` a step is what a thread does between two calls that may block. Time
stamps are kept as `age` (`rt_tick - lastPingTs`) and `lag` (`rt_tick -
currentTs` while the ping's send blocks); the code's unsigned
`currentTs - lastPingTs` is `(age - lag) % TickMod`. Socket calls fail, packets
stay unanswered and the broker refuses when `MayFail`. The name look-up and the
allocation in `mqtt_connect` and `mqtt_reconnect` may fail as well: the code
dereferences their results without a test, so either the garbage address makes
`connect` fail, or the processor faults and no thread takes a step any more
(`LookupFaults`). Opening a socket while
another is open sets `leaked`.

Definitions whose comment begins with "Faulty" are small mutations of the code;
`PROJECT.json` pairs each property with one that TLC must catch. They are part of
no specification.

## 3. Runs

| Run | Result | Shows |
|---|---|---|
| `sched` | holds, 316,404 states | `ReadyGroupExact`, `LinkedOnce`, `HighestRuns`, `SleepersTimed`, `DefunctExact`, `LockHoldsProcessor` |
| `sched_live` | holds, 3,364 states | `RoundRobin`, `SleepEnds` |
| `ipc` | holds, 242,478 states | every object: `KernelExact`, `HighestRunsIfAsked`, `FlushWakesWaiters`, `TimedWaitEnds`; semaphore: `TokensConserved`, `NobodyWaitsForNothing`, `MostUrgentFirst`; mutex: `OwnerExact`, `NobodyWaitsForFree`, `NoPriorityReversion`, `PriorityRestored`; mailbox: `MailImplementsFifo`, `MailNobodyStuck`; message queue: `MqImplementsFifo`, `MqCellsExact`, `MqNobodyStuck`; event: `EventNobodyStuck`, `EventClearedOnce`; pool: `PoolExact`, `PoolNobodyStuck` |
| `services` | holds, 514,293 states | heap: `HeapExact`, `HeapImplementsAllocator`; timers: `TimersImplementCountdown`, `TimerFires` |
| `borgnix` | holds, 459,886 states | `SoleReader`, `NoSocketLeak`, `DispatchExact`, `SilenceDetected` |
| `thread_detach` | violated | a deleted sleeper can be left in the ready queue |
| `mutex_preempt` | violated | a release that lowers its caller's priority does not schedule |
| `mutex_nested` | violated | releasing an inner mutex drops the priority the outer one's waiter lent |
| `pool_count` | violated | a waiter of a pool that times out stays in `suspend_thread_count` |
| `heap_lowest_free` | violated | shrinking a block in place leaves a free block below `lfree`, which `rt_malloc` does not find |
| `ping_stopped` | violated | a healthy session is torn down, and reconnection stops the ping thread in an assertion |
| `device_destroy` | violated | destroying any device but the first drops the first one |

Each violated property is a sentence of the repository's own documentation or
comments; `findings` in `PROJECT.json` quotes it and gives the line.

Refinements. `MailImplementsFifo` and `MqImplementsFifo` map the ring buffer, and
the chain of cells, to the queue of `Fifo`; a message in a blocked or half-done
send is `offered`, one in a receive that has yet to return is `taken`. A step of
`Fifo` puts in the message of its caller and no other, at the tail, or at the head
if it is urgent (`Ends`; a mailbox has no urgent mails), and `Put` consumes the
offer. An offer is withdrawn only by a call that was turned down (it timed out, or
the object is reset or detached) or that finds the queue full. Only `Clear` throws
messages away, and both properties have a second conjunct that allows it to
a reset and an initialisation alone; that of the mailbox (`MailKept`) also says
that a call that begins to send either puts its mail in or offers it. A message
lost, doubled, reordered or torn in the gaps has therefore no abstract step. What a
receiver does with a message it has been handed is outside `Fifo`.
`HeapImplementsAllocator` maps the blocks the threads hold to regions; a block
that is split, joined or trimmed wrongly overlaps another one. The mapping of
`TimersImplementCountdown` computes from `rt_tick` and the expiry times how far
each timer is from firing (`due`) and reads from the list which of two timers due
at one tick comes first (`before`); the countdown has no clock at all. A timer
whose start was delayed beyond its time may pass others that are overdue, and
nothing else may change the order (`Arm`).

Bounds, and why they are enough for the cases that matter:

* `sched`: the idle thread, the manager, a dynamic worker at the manager's
  priority, and a more urgent static thread that sleeps and exits; three
  priorities; slices of two ticks; delays of 0 and 1 tick; lock depth 1. Two
  threads at one priority and a third above them are what preemption, turns and
  time-outs in every gap need; a created thread starts with an arbitrary
  `number_mask`, so that the mask written by `rt_thread_startup` matters.
* `ipc`: three priorities besides idle; two consumers (`mid`, `high`), one
  producer (`low`) and interrupts that produce as well; every wait is for ever or
  limited to 1 tick, and the clock is free, so that an expiry can precede, meet
  and follow the wake-up; counters modulo 3; two messages, cells, blocks and
  event bits, so that a full, an empty and a half-full object occur; requests
  that overlap in their bits, all and any, clearing and not. Two waiters are
  enough for order in the wait list.
* `services`: a heap of 26 words, which holds the three smallest blocks and the
  remainders of splits that are and are not too small for a block of their own;
  requests of 0, 1 and 12 words; two threads with up to two blocks each (three
  while a block is being moved). Two timers, times of 0 and 2 ticks, a start
  delayed by up to one tick, ticks modulo 11: the least modulus for which the
  longest time and the delay are less than half of it, as the code demands.
* `mutex_nested`: two mutexes, waits without limit.
* `borgnix`: the gate and one device, an array of two, inbox of two packets,
  threshold of two ticks, a send that blocks for up to one tick, tick counter
  modulo 5; connection at tick 0 and later than the threshold. `Max...`
  constants bound only what the environment does.

Restrictions that are assumptions about the application, not about the code:
`Discipline` in `ThreadSched` (section 4); threads do not block while they hold
the scheduler lock; `CarefulFlush` (an object is detached only while its waiters
have no time limit, and nobody calls it meanwhile: without this `FlushWakesWaiters`
fails at `ipc.c:175`; a mutex, moreover, is detached only when nobody owns it, or by
its owner without a lent priority, which `rt_mutex_detach` and `rt_mutex_delete` do
not test: section 5); `CarefulPool` (threads wait for pool blocks for ever or not at
all, and nobody, interrupt handlers included, allocates while a woken waiter has not
taken its block: without it `PoolExact` fails at `mempool.c:379` and
`mempool.c:386`); no periodic timer has time 0; one thread manages a timer, and its
function may stop but not start it; `DestroyAt = {1}` in `borgnix` (only the oldest
device is destroyed, the case the code gets right; `device_destroy` lifts it); an
application does not create more than `Capacity` devices and calls
`borg_dev_init` once.

Fairness. `sched_live` and `ipc`: the clock ticks and its interrupt ends
(hardware), and in `sched_live` a thread that has the processor again and again
completes the call it has begun and gives a scheduler lock back; no thread is
forced to begin anything. Strong fairness is used for the latter because each tick
takes the processor away for a moment. `services`: the clock goes on, and a thread
that has begun to start a timer finishes. `borgnix`: the clock ticks and the ping
thread, which no thread of the SDK can starve, takes its steps; nothing is assumed
of the network, the broker, the read thread or the application.

## 4. Proofs

Every theorem holds for every set of threads, every number of priorities and
mapping of priorities, every waiting time, and every size of the object; those
about the heap for every heap size, header size and alignment, and those about the
timers for every number of timers and every width of `rt_tick`. What a
theorem assumes of the application is in its ASSUME and in the last column.

| Component | Theorems (property) | Assumes |
|---|---|---|
| Scheduler, threads (`ThreadSchedProofs`) | `Invariance` (`IInv`), `TypeCorrect`, `BitmapExact` (`ReadyGroupExact`), `ListNodesExact` (`LinkedOnce`), `PriorityScheduling` (`HighestRuns`), `TimersMatchSleepers` (`SleepersTimed`), `ReclamationExact` (`DefunctExact`), `LockIsExclusive` (`LockHoldsProcessor`, an action property) | `Discipline` |
| Semaphore (`LockProofs`) | `SemTypeCorrect`, `SemKernelExact` (`KernelExact`), `SemHighestRuns` (`HighestRunsIfAsked`), `SemTokensConserved` (`TokensConserved`), `SemNobodyWaits` (`NobodyWaitsForNothing`) | |
| | `SemFlushSafe` (`FlushWakesWaiters`) | `CarefulFlush` |
| | `SemMostUrgentFirst` (`MostUrgentFirst`, an action property) | `Flag = "PRIO"` |
| Mutex (`LockProofs`) | `MutexTypeCorrect`, `MutexKernelExact`, `MutexHighestRuns`, `MutexExclusion` (`OwnerExact`), `MutexNobodyWaits` (`NobodyWaitsForFree`), `MutexFlushSafe` | `MutexScope` |
| | `OwnPriorityBack` (`PriorityRestored`), `MutexNoReversion` (`NoPriorityReversion`) | one mutex; for the latter also `Flag = "PRIO"` |
| Mailbox (`ObjectProofs`) | `MailTypeCorrect`, `MailKernelExact`, `MailHighestRuns`, `MailRefinesFifo` (`MailImplementsFifo`) | |
| | `MailFlushSafe`, `MailNobodyWaits` (`MailNobodyStuck`) | `CarefulFlush` |
| Message queue (`MsgQueueProofs`) | `MqKernelExact`, `MqHighestRuns` | |
| | `MqTypeCorrect`, `MqCellsCorrect` (`MqCellsExact`), `MqRefinesFifo` (`MqImplementsFifo`), `MqFlushSafe`, `MqNobodyWaits` (`MqNobodyStuck`) | `CarefulFlush` |
| Event object (`ObjectProofs`) | `EventTypeCorrect`, `EventKernelExact`, `EventHighestRuns`, `EventNobodyWaits` (`EventNobodyStuck`), `EventOnceCleared` (`EventClearedOnce`, an action property) | |
| | `EventFlushSafe` | `CarefulFlush` |
| Memory pool (`ObjectProofs`) | `PoolTypeCorrect`, `PoolKernelExact`, `PoolHighestRuns` | |
| | `PoolFlushSafe`, `PoolCountsExact` (`PoolExact`), `PoolNobodyWaits` (`PoolNobodyStuck`) | `CarefulFlush`, `CarefulPool` |
| All objects (`LockProofs`) | `ObjectsTypeCorrect` (`TypeOK` of `MCIpc`) | `MutexScope`, `CarefulFlush` |
| Heap (`ServicesProofs`) | `HeapIsExact` (`HeapExact`), `HeapRefinesAllocator` (`HeapImplementsAllocator`) | |
| Timers (`ServicesProofs`) | `TimersRefineCountdown` (`TimersImplementCountdown`) | |
| Heap and timers (`ServicesProofs`) | `ServicesTypeCorrect` (`TypeOK` of `MCServices`) | |
| MQTT session, registry (`BorgnixProofs`) | `TypeCorrect` (`TypeOK`), `ReaderAlone` (`SoleReader`), `SocketsClosed` (`NoSocketLeak`) | |
| | `DispatchCorrect` (`DispatchExact`) | `DestroyAt \subseteq {1}` |

The assumptions are necessary ones, and each has a run or an observation that
shows what happens without it. `Discipline` says what an application must respect
for the unprotected tests of `stat` to be harmless: nobody suspends or resumes a
thread whose timer may run or that may exit by itself, nobody detaches one whose
timer may run, and only a started thread is detached; `thread_detach` drops one
part of it and reaches a broken ready queue. `MutexScope` says that nobody
detaches a mutex, or that there is one mutex and it is detached carefully: the
model has one flag `alive`, so that a detach is about the only mutex, and a
careless one resumes a thread that has already timed out. `CarefulPool` and
`DestroyAt` are those of section 3; `pool_count` and `device_destroy` lift them.
`TimerAssumption` (a condition on the constants, not in the table) is the one
`rt_timer_start` asserts, `init_tick < RT_TICK_MAX / 2`, with the ticks by which a
start may be delayed counted in; the modular comparison is wrong without it.

Why the invariants are not inductive by themselves.

* Scheduler: that the bitmap is exact after a removal depends on the removed
  thread's `mask` naming its priority (`MasksExact`); that a time-out does not link a
  node twice depends on timers belonging to suspended threads (`TimersExact`), and,
  in the gaps of the Manager's calls, on the target not having a timer and still
  being in the state the test found (`CallValid`, `OnlySleepersTimed`).
  `rt_schedule` finds a thread because the idle thread is always ready
  (`RunnerReady`); that the right thread runs between ticks is `HighestRuns`
  extended to the points inside calls at which no `rt_schedule` is due
  (`Dispatched`). `IInv` is the conjunction of these.
* All objects: `IpcInv` of `IpcProofs` ties `pc`, `want`, the wait lists and the
  scheduler together: only a thread that sleeps or waits is suspended, one that is
  suspended in a waiting call is on the list it waits for, and the running thread is
  the one `rt_schedule` would choose unless it is about to call it. A thread
  that was resumed and has not run yet is `Granted`; what it has been promised is
  accounted to it in every invariant below. `FlushInv` is the part that a careful
  detach needs: one thread detaches, no waiter has a timer meanwhile, and somebody
  still waits when `rt_ipc_list_resume_all` has seen a list that is not empty.
* Semaphore: a token is in `value` or promised to a granted thread (`SemInv`), a value
  above 0 means that nobody waits, and a thread that waits has no error set, so that
  a time-out is not taken for a token. `MostUrgentFirst` needs the wait list to be
  sorted by priority at all times (`SemOrder`).
* Mutex: `MutexInv` says for each mutex which of free, owned and handed over holds
  and how `value`, `hold` and `owner` agree. Lent priorities (`PrioOK`, `RankOK`): a
  thread's current priority differs from its own only while it owns the
  mutex, and then it is at least that of every waiter.
* Mailbox: `MailBase` has the ring's arithmetic (`in` is `out` plus `entry`, modulo the
  size, and the places between them hold mails). `MailRefinesFifo` maps them to
  the queue read from `out` onwards and shows that each section is one abstract
  step or none. `MailCareful` counts granted receivers and senders against mails
  and places, and adds that nobody is granted once the mailbox is detached.
* Message queue: the two lists are singly linked through `next`, so the invariant
  speaks of paths: there are two sequences of cells, without repetition, that follow
  `next` from `head` and from `free` to null (`Path`), the first ends at `tail`
  and has `entry` cells, and together with the cells in hand they are a partition of
  the pool (`Lists`, `Sound`). `MqHands` says which steps of a call have a cell in
  hand, that no two have the same, and what has been written into it. One lemma per
  section says what it does to the two sequences; `Chain`, the operator that the
  properties use, is then shown to compute them. `MqBalanced` counts woken receivers
  against messages, and `MqDeserted` says that nobody has a cell in hand when the
  queue is gone. That is what `CarefulFlush` is needed for: initialising a queue
  again while a call is between its two sections would put that call's cell on the
  free list and later on a list once more.
* Event object: `rt_event_send` walks its list while it removes from it, so the
  proof has a loop invariant of its own (`Walked`): the waiters passed are resumed
  with bits that were set when they were visited, or still wait and the bits that
  are left do not satisfy them; bits only disappear on the way. `EventInv`
  adds that a waiter's request is not satisfied.
* Memory pool: `PoolBase` says that each block is on the list once or with one
  thread. `PoolCareful` adds the two counters: `waiting` counts the waiters, `free`
  is never less than the number of granted threads (`CountsOK`). It is what a woken
  thread relies on when it takes a block without a test.
* Heap: `HeapInv`. The headers tile the heap (`Tiles`: each block ends where the next
  one begins, and the next one points back), two free blocks are never neighbours
  (`Alone`), `lfree` is a free block or the end (`LowestOK`), and the used blocks are
  those the threads hold, each large enough (`Owned`). `plug_holes` starts in a heap
  with two or three free blocks in a row, so the proof has the weaker `AloneBut` for
  it: only the freed block may touch a free one. A thread between the sections of
  `rt_realloc` still holds the old block (`Moves`), which is why the freeing of it in
  the third section is right whatever was allocated in between. `used_mem` is the
  number of cells in used blocks, headers included, so that splitting, joining
  and trimming are statements about sets of cells. That regions are disjoint follows
  from `Tiles` and `Owned`.
* Timers: `TimerInv`. The code compares unsigned differences; the proof uses the signed
  distance of an expiry time from `rt_tick` (`Gap`, `Dist`). Every listed timer lies
  between `-(MaxLate + 1)` and the longest time (`Listed`), so two of them are less
  than half the range apart and the code's comparison is that of the distances
  (`GapCompare`); the list is sorted by distance and has no timer twice (`Ordered`).
  A tick lowers all distances by one, across the wrap as well (`GapTick`). A start
  that has read the clock is late by the ticks since then (`Timed`). `Marked`
  excludes a second link: a timer that is in the list or whose function runs is marked
  active, in the timer and in the flag byte that a call of `rt_timer_control` is about
  to store. For the refinement, each section is shown to be one action of
  `Countdown` on the mapped variables or to leave them alone.
* Session: `SessionInv` says for each program point of the application and of the
  ping thread which of socket and threads exist, and that only one of the two is
  redialling; `RegistryInv` that the first `borgDevCount` entries hold every living
  device once.

Layout. `KernelProofs` holds lemmas about sequences without repetition and one
lemma per operator of `Kernel` (what `InsertThread`, `RemoveThread`, `Schedule`,
`TimerStop`, `Timeout`, ... preserve of `KernelInv`). `IpcProofs` does the same for
the sections that all objects share (suspend on a list, resume the first, resume
one, resume all, time out, tick). A module about an object then has one lemma per
action, a lemma that combines them for `Next`, and the theorems. TLC evaluates the
assumptions on constants (`KernelAssumption`, `ThreadAssumption`, ...) in every run.
Three loops of the code are recursive functions on the positions of the list
(`ResumeAll`, the walk of `rt_event_send`, `ReleaseAll` of `rt_mq_control`), and so is
`Chain`; what they compute is proved by taking the least position at which the loop
invariant would fail. That the set of threads
and the set of blocks are finite, and that a mutex may be held at least once, are
assumptions the counting needs.

Only model-checked: liveness (`RoundRobin`, `SleepEnds`, `TimedWaitEnds`,
`TimerFires`, `SilenceDetected`), because the prover handles no fairness. Every
other property of the passing runs is stated by a theorem.

## 5. Observations outside the runs

* A thread woken by `rt_mp_free` takes a block without a test; an allocation that
  comes first leaves it a null pointer (`mempool.c:386`).
* Detaching a mutex wakes its waiters and leaves the owner with the priority they
  lent it (`ipc.c:533`).
* `rt_malloc` never uses an exact fit of the last block, since its loop ends
  before it (`mem.c`, `ptr < mem_size_aligned - size`); `rt_realloc` to a slightly
  smaller size moves the block, and fails when there is no second one.
* A periodic timer with time 0 keeps `rt_timer_check` in its loop for ever
  (`timer.c:520`). A timer that is started by its own function is started twice,
  and two threads that start one timer link it twice: `rt_timer_start` tests
  the flag before it disables interrupts.
* `rt_timer_control` may store back an `ACTIVATED` that the tick has just cleared
  (`timer.c:460`); `rt_timer_start` then refuses the timer until it is stopped.
* `mutex->hold` is 8 bits wide and `borgDevCount` is not compared with
  `BORG_DEV_MAX_NUM` (`ipc.c:670`, `borgnix.c:76`); the models stay below both.
* `mqtt_reconnect` sends a CONNECT without the user name, password and client
  identifier `mqtt_connect` used (`mqtt.c:149`); a broker may refuse it. The model
  has the refusal, not its cause.
* `mqtt_connect` copies its strings into buffers without room for the terminating
  zero (`mqtt.c:60`); memory contents are not modelled.
* The read thread spins when its socket is closed (`mqtt.c:424`); it has the same
  priority as the ping thread, which still gets its turns.

Hazards that the assumptions keep out. Where `PROJECT.json` lists a hazard without a
property, its note says why. For some the models have the steps, and an
assumption about the application keeps the bad interleaving out of the passing
runs, so no property there can catch it: the unprotected tests of `stat` in
`rt_thread_resume` and `rt_thread_suspend` (`Discipline`; `thread_detach` shows the
same kind of race for a delete), the second look that `rt_ipc_list_resume_all`
does not take (`CarefulFlush`), and the block that is gone when a woken waiter
comes for it (`CarefulPool`; the count of waiters after a time-out, which the same
constant keeps out, is what `pool_count` reaches). For the flag byte of a timer the
steps are there too, but the properties speak of the list of active timers, and a
deactivation that is lost does not change it.

## 6. Not modelled

Vendored libraries, drivers, context switching, the console and string services,
allocators that the board's `rtconfig.h` does not select, soft timers (not
selected) and the skip list's upper rows (`RT_TIMER_SKIP_LIST_LEVEL` is 1), hooks and
debug output. Of the repository's files nearly all are such libraries, board
packages and drivers; the models cover the kernel's and the SDK's own logic. The
object container and the device framework keep tables that no modelled component
decides anything by. Of the modelled parts: what memory blocks and messages
contain beyond one value, the heap's magic numbers and statistics, `rt_tick_set`
(no caller), the conversion of milliseconds, and `thread->cleanup`: its branches
(`thread.c:66`, `thread.c:264`, `idle.c:112`, which also send a static thread with
a cleanup to the defunct list) are dropped because `rt_thread_init` and
`rt_thread_create` leave it null and only `components/pthreads`, which this board
does not build, sets it. A failing `rt_malloc` is in the model where a connection is
dialled (`LookupFaults`), not in `mqtt_sub`, `mqtt_unsub` and `mqtt_disconnect`,
whose untested results would be dereferenced likewise. After such a fault the
clock of the `Mqtt` model goes on although no thread runs.

## 7. Plan

1. A walk of the device list in steps, concurrent with destroy; the heap and the
   session in one model, for a read thread detached while it holds `heap_sem`.
2. The remaining-length codec of MQTT packets as operators and their inverse.
