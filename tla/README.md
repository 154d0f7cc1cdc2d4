# A verification development for the muduo network library

TLA+ modules, TLC configurations and TLAPS proofs for the code under `src/`: a
C++ reactor library (`muduo/base`, `muduo/net`) with a small echo example.
`PROJECT.json` lists the components, the runs, the mutants, the map from
definitions to source lines, the hazards, the findings and the theorems.

## The system and its parts

One `EventLoop` per thread. `loop()` alternates between `poll()`, the callbacks
of the active `Channel`s and `doPendingFunctors()`. Everything else is built on
the rule that an object belongs to one loop, and that other threads reach it by
queueing a functor in that loop (`runInLoop`, `queueInLoop`), which writes an
eventfd to bring the loop out of `poll()`. `TcpServer` deals its connections to
the loops of an `EventLoopThreadPool`; `TcpClient` drives a `Connector`; both own
`TcpConnection`s, which write through a `Channel` and two `Buffer`s. The
protocols (HTTP, protobuf framing and RPC) sit on the connection's callbacks.
`muduo/base` has the blocking objects: mutex, condition, latch, queues, thread
pool and the logging back end.

| Part | Source | Modules | Checked by | Proved |
|---|---|---|---|---|
| EventLoop | `net/EventLoop.*` | `EventLoop`, `TaskQueue` | `event_loop` | `CoreProofs` |
| EventLoopThread | `net/EventLoopThread.*` | `EventLoopThread` | `event_loop`, `event_loop_thread_lost_quit` | `CoreProofs` |
| TimerQueue, Timer, TimerId | `net/TimerQueue.*`, `net/Timer*` | `TimerQueue` | `timer_queue`, two more | `TimerQueueProofs` |
| Channel and the pollers | `net/Channel.*`, `net/poller/*` | `Channel`, `PollPoller`, `EPollPoller` | `sequential_parts` | `ChannelProofs`, `QueueProofs` |
| Buffer, Endian | `net/Buffer.*`, `net/Endian.h` | `ByteQueue`, `Buffer`, `Endian` | `sequential_parts` | `QueueProofs` (Buffer) |
| TcpConnection | `net/TcpConnection.*` | `TcpConnection` | `tcp_connection`, one more | `TcpConnectionProofs` |
| Acceptor, EventLoopThreadPool, TcpServer | `net/Acceptor.*`, ... | `Acceptor`, `EventLoopThreadPool`, `TcpServer` | `tcp_server` | `TcpServerQueues`, `TcpServerProofs` |
| Connector, TcpClient | `net/Connector.*`, `net/TcpClient.*` | `Connector`, `TcpClient` | `tcp_client`, `tcp_client_reconnect` | `TcpClientProofs` |
| Mutex, Condition | `base/Mutex.h`, `base/Condition.*` | `MutexLock`, `Condition` | `base_synchronisation` | `CoreProofs` |
| BlockingQueue, BoundedBlockingQueue | `base/*` | `BlockingQueue`, `Condition` | `base_synchronisation` | `QueueProofs` |
| Thread, CountDownLatch, ThreadPool | `base/*` | `Thread`, `ThreadPool` | `base_synchronisation` | `QueueProofs` (Thread) |
| AsyncLogging | `base/AsyncLogging.*` | `AsyncLogging` | `base_synchronisation` | |
| LogFile, FileUtil, Logging, LogStream | `base/*` | the same names | `sequential_parts` | `CoreProofs` (not LogStream) |
| Date, TimeZone | `base/*` | `Date`, `TimeZone` | `sequential_parts` | |
| HTTP server, Inspector | `net/http`, `net/inspect` | `HttpServer`, `Inspector` | `sequential_parts` | `CoreProofs` (Inspector's removal) |
| Protobuf codec and RPC | `net/protobuf`, `net/protorpc` | `ProtobufCodecLite`, `RpcChannel` | `sequential_parts` | `ChannelProofs` (RpcChannel) |
| ZlibOutputStream | `net/ZlibStream.h` | `ZlibStream` | `sequential_parts` | `TimerQueueProofs` |

`MCEventLoop`, `MCBase` and `MCSequential` are the model-checking modules. Each
is a sum of components that do not interact: a variable (`owned`, `which`), fixed
in the initial state, says which one moves, and the others stay in theirs. So the
state space is the sum of the components', and one configuration checks them
all. The components that interact are composed by `EXTENDS` and by conjoining
their actions: `EventLoop` in `EventLoopThread`, `Acceptor` and
`EventLoopThreadPool` in `TcpServer`, `Connector` in `TcpClient`, `Thread` and
`Condition` in `ThreadPool`, `ByteQueue` in `Buffer` in `Endian`.

## The modules

### TaskQueue

The abstract promise of a loop: `Submit` appends a task, `Run` starts the oldest
one. `queue` holds what is not started, `done` what was, in order.

### EventLoop

| Model | Code |
|---|---|
| `loopPc` | where the loop thread is in `loop()`; `looping_`, `eventHandling_` and `callingPendingFunctors_` are defined from it, since only that thread reads and writes them |
| `quit_`, `pendingFunctors_` | the members |
| `activeChannels_` | the channels `poll()` returned and that are not handled yet |
| `wakeupFd_` | the counter of the eventfd |
| `functors`, `spent` | the local vector of `doPendingFunctors()`: the part still to run, and the part that has run and is destroyed with the vector |
| `ran` | history: functors started, in order |
| `call`, `calls` | per thread, the call on the loop it is inside, and how many it has made |

`queueInLoop()` and `quit()` take two steps each, the change of the shared state
and the write to the eventfd, so every other thread and the loop may move in
between. User code (channel callbacks, functors, destructors of what functors
hold) is represented by the calls it makes. `poll()` returns any set of I/O
channels, and the wakeup channel exactly when the eventfd is readable.

A functor is *silent* when `queueInLoop()` writes no wakeup for it and no
`doPendingFunctors()` of the same iteration follows: the loop thread queued it
outside `loop()`, or from a destructor that runs when `doPendingFunctors()` drops
its vector after clearing `callingPendingFunctors_`. Such a functor waits for
other traffic or for the 10 s poll timeout; the properties about wakeups exclude
it, and `TimeoutPicksUpAll` says what is left for it.

### EventLoopThread

Extends `EventLoop` with the owner thread (`ownerPc`), `threadFunc()`
(`threadPc`) and the pointer `loop_`. The unlocked read of `loop_` in the
destructor, `quit()`, its wakeup and the join are separate steps. `userQuit`
records that user code has called `quit()` on the loop itself.

### TimerQueue

| Model | Code |
|---|---|
| `heap` | the Timer objects at a few addresses, so that addresses are reused; a free one has sequence 0 |
| `timers_`, `activeTimers_`, `cancelingTimers_`, `callingExpiredTimers_` | the members, as sets of pairs |
| `expired`, `toRun`, `readTime` | locals of `handleRead()` |
| `armed`, `readable`, `active` | the timerfd: when it fires, whether an expiration is unread, whether `poll()` has returned its channel |
| `tasks` | `addTimerInLoop` and `cancelInLoop` queued by other threads, in FIFO order (what `TaskQueue` promises) |
| `adding` | a thread inside `addTimer()`, between `runInLoop()` and `timer->sequence()` |
| `ids`, `cancelled` | the TimerIds users hold; history of cancels |

Time is a counter. `EarlyBy` lets the timerfd, which runs on CLOCK_MONOTONIC,
fire before the wall clock reaches the expiration. Time 0 is
`Timestamp::invalid()`. The read of `timer->sequence()` from a deleted Timer
yields the old value or the one of the Timer now at that address.

### Channel, PollPoller, EPollPoller

`Channel` is what both pollers are used for. `stage` says whether a Channel object
exists and is registered (`addedToLoop_`), `events_` and `index_` are its members,
`activeChannels_`, `toHandle` and `currentActiveChannel_` the loop over active
channels. Its actions are the calls that owners make from handlers and functors,
and each poller adds what it does in the same call. Two assertions of the code are
guards, because they state duties of the caller: `EventLoop::removeChannel` (a
handler removes its own channel or one that is not active) and `~Channel` (not
while it is handled). A removed Channel is not updated again. All other assertions
of the pollers are consequences of the checked invariants.

`PollPoller` has `pollfds_` as a sequence, with the descriptor of an ignored entry
encoded as `-fd-1`; places count from 1, `index_` from 0. `EPollPoller` has the
kernel's entry of each descriptor: a pointer and the events. `poll` reports any set
of entries, since errors and hangups need no registered event. A fresh channel may
be updated without events, as `~Acceptor` does when it never listened. PollPoller
then adds it with its descriptor as it is, and a removal fails the assertion at
`PollPoller.cc:122`; the history variable `emptyFirst` holds the channels in that
condition, and `RemovedIsIgnored` says that the assertion holds for exactly the
others.

### Buffer, ByteQueue, Endian

`ByteQueue` is the promise: a queue of bytes. `Buffer` has the vector, the two
indices and, in `q`, the abstract queue beside them; every action takes both
steps, and `BufferIsQueue` says that they agree. `makeSpace`, `grown`, `slid` and
`copied` follow the code's index arithmetic, `readFd` fills the writable bytes
first and appends what went to `extrabuf`. `Endian` stores two's complement
integers in network order on a little-endian host; `Radix` stands for 256.

### TcpConnection

`state_`, `reading_`, the channel's interest and its registration, the output
buffer, the functors queued in the loop and the stages of
`Channel::handleEventWithGuard` still to run (a set, worked off in the order
`stages`) are variables; a byte is the message it belongs to, which is the thread
and the number of the call (`[by, n]`). The kernel takes any part of a write,
refuses it, or fails; the peer sends messages, FIN or RST. User code calls the
public functions from callbacks and from another thread. `state_` is a plain
variable: another thread's `send()`, `shutdown()`, `forceClose()` and
`forceCloseWithDelay()` test it (`test`) and then queue or set (`send`, `set`), and
may be overtaken in between. A functor holds a pointer that keeps the connection
(`Shared`) or a bare `this`. Nothing makes a thread keep its own pointer until its
functors have run: `dropRef` may come at any time, `bareThis` records that it came
too early (`orphaned`), and a functor that then runs without an object is undefined
behaviour (`dangles`), where the model stops.

The properties hold up to three *lapses*, recorded in a history variable the
moment they happen: another thread's `setState` overwrites `kDisconnected`
(`overwritten`); `startRead()` or `stopRead()`, queued before a close, registers
the channel of a closed connection again (`rearmed`); the owner removes a
connection that is `kDisconnecting` (`abandoned`, the finding below). What is
still promised after one of them is stated without the exemption:
`MessagesWhole`, `NoneOvertaken`, and the part of `DestroyedClean` about bare
pointers.

### Acceptor, EventLoopThreadPool, TcpServer

Every loop has a queue, a batch being run and a place in its iteration. After
`start` the I/O loops exist but have not begun (`starting`): `beginLoop` clears
`quit_`, also when `~EventLoopThread` has already set it. `told` holds the loops
that were told to quit, and a join that waits for a loop whose `quit_` was erased
(`told # quit_`) never ends, as in `event_loop_thread_lost_quit`;
`ServerDestructorEnds` names that case. A
connection is `kConnecting`, `kConnected`, `kDisconnected`, `destroyed`, or `lost`
when its loop quit with `connectDestroyed` still queued. The removal of a
connection crosses from its loop to the base loop and back. `~TcpServer` runs in
the base loop's thread and quits and joins the others; it goes through the map in
one order (`mapOrder`; the names that sort it are left out, and the properties do
not depend on it). `removeConnectionInLoop`,
queued with a raw `this`, may run after it (`server = "dangling"`). In
`Acceptor` the four system calls around an EMFILE are four steps, and another
thread may take the freed descriptor between them (`stolen`).

### Connector, TcpClient

One loop thread and one other thread that calls `connect()`, `disconnect()`,
`stop()` and the destructor, each in the steps in which it touches shared state.
Retry timers are counted, and a `poll` may report one at any later time: the growth
of the delay is left out. Four lapses are recorded:

* `hasty`: `connect()` queues `startInLoop` while an attempt is waiting, under way
  or successful, or the connector is not back at `kDisconnected`; functors that are
  still queued are no lapse. After `stop()` and `connect()` during an attempt there
  is a retry timer beside the new `startInLoop`.
* `overridden`: a connection that closes restarts the connector after another
  thread's `stop()`; the queued `stopInLoop` then adds a retry timer to the new
  attempt.
* `early`: a destructor with a connection while the connector is not at rest.
* `dangling`: code of a destroyed client or connector is entered. This is undefined
  behaviour, and the model stops there.

`OneAttempt`, `SocketsOwned` and `KeepsTrying` exempt the first two only
(`Orderly`); `ClosedIsDestroyed` exempts `dangling` only.

### muduo/base

`MutexLock` keeps the pthread mutex and `holder_` apart, as the code does, and
gives the mutex back inside a wait under the `UnassignGuard`. `Condition` is
`notify`, `notifyAll` and wake-ups on a set of waiters; pthread is external.
`BlockingQueue` is both queues: capacity 0 is the unbounded one. `Thread` has
the latch of `start()` and the pointers the new thread writes through;
`ThreadPool` has `run()` from clients and from tasks. `AsyncLogging` counts
lines into buffers of `kLargeBuffer` lines and has the two spare buffers on each
side, the drop of a flood, and `stop()`, whose notify may come before the wait.

### Parts without a thread of their own

* `ProtobufCodecLite`: frames of length, tag, payload and checksum, one byte each,
  over a stream that comes in any pieces and may damage a byte.
* `RpcChannel`: both ends; threads that call, a service that answers in any order,
  and the connection going down.
* `HttpServer`: lines by their kind, in halves; the context, pipelining,
  keep-alive and close. `failed` records that the assertion of `setMethod` failed;
  the model goes on, as a build with NDEBUG does.
* `Inspector`: the command table under its mutex, with commands whose callback is
  null (`empty`); `split` character by character, since the code itself doubts it
  ("Looks buggy").
* `ZlibStream`: bytes counted through the caller's Buffer, zlib (external) and the
  output. `next_in` becomes `stale` when the Buffer it points into may have moved
  its bytes; a `finish()` that follows it there is undefined behaviour, where the
  model stops.
* `FileUtil`, `LogFile`, `Logging`, `LogStream`: short reads and the terminating
  NUL; rolling and flushing; the cached second and its time zone; the fixed buffer,
  conversions and the bands of `formatSI` and `formatIEC`. A count is `x` times the
  `j`-th power of the base, or one less, so that large ones keep within TLC's
  integers; `cast` rounds one less away above 2^53.
* `Date`, `TimeZone`: the Julian day formulas against a counted calendar; the
  reader of zone files (versions 1 to 3, all six counts, files cut short) and both
  conversions against the offsets of the zone. Times are small numbers, and a day has 10 seconds (`kSecondsPerDay`).

## The runs

| Run | Shows |
|---|---|
| `event_loop` | no lost wakeup (`NoLostWakeup`); each functor starts once and in order (`ImplementsTaskQueue`); announced functors run (`QueuedFunctorRuns`), silent ones when poll times out (`TimeoutPicksUpAll`), and `quit()` ends the loop (`QuitStopsLoop`), without any timeout; in an EventLoopThread the loop, the thread and the owner nest (`LifetimesNest`) and the owner never hangs but in the known case (`OwnerNeverHangs`) |
| `event_loop_thread_lost_quit` | **violated**: `DestructorEnds`. A quit between `startLoop()` and `loop()` is erased by `quit_ = false` and the join hangs |
| `timer_queue` | `SetsAgree`, `NoDanglingTimer`, `CancelledIsGone`; `TimerLeaves`: due timers run or are cancelled, so the timerfd is always armed early enough |
| `timer_queue_add_race` | **violated**: `AddTimerReadsItsTimer`. `addTimer()` reads the Timer after handing it to the loop, which may have deleted it |
| `timer_queue_lost_cancel` | **violated**: `CancelIsFinal`. A cancel in the loop thread overtakes the queued insertion of a timer created by another thread |
| `base_synchronisation` | `HolderIsInside`; `QueueDelivers` (FIFO, no lost notify); `StartHandsOver`; `PoolDrains` (with the one deadlock the pool has: all workers in `run()`); `BuffersConserved`, `BackEndKeepsUp` |
| `sequential_parts` | fourteen parts, one property each, listed below |
| `tcp_connection` | `OutputIntact` (each message once, whole and not overtaken; write events exactly when needed), `DestroyedClean`, `ClosesInOrder` (FIN last, end reported once), `ClosesInTheEnd` |
| `tcp_connection_destroyed_disconnecting` | **violated**: `RemovedIdle`. `connectDestroyed()` removes the channel of a `kDisconnecting` connection without disabling it |
| `tcp_server` | `EachRemovedOnce`, `BacklogServed`, `ServerLetsGo` |
| `tcp_client` | `OneAttemptOwned` (with orderly calls never two attempts, one as long as one is wanted, no socket leaked), `ClientLetsGo` |
| `tcp_client_reconnect` | **violated**: `StartFindsDisconnected`. With retry off a connection ends and the connector stays `kConnected`; the next `connect()` fails the assertion of `startInLoop` |

The properties of `sequential_parts`:

| Property | What it says |
|---|---|
| `PollSetAgrees` | `pollfds_`, `channels_` and the channels agree after any updates and removals that swap the last entry into the hole; entries without events are ignored but for a first update without any; only existing channels are handled |
| `EpollAgrees` | the kernel's list, `channels_` and the marks agree, and no `epoll_ctl` fails |
| `BufferIsQueue` | the indices stay in order, and what is read is what was written |
| `NetworkOrder` | integers are stored in network order and read back, negative ones included |
| `FramingExact` | no message is handed over early, changed or out of order, and none waits once its last byte is in |
| `OneResponsePerCall` | a call is in one place until its closure runs, and its one response finds it there |
| `RequestsAnswered` | requests are parsed whole from any pieces and answered in turn until the close; the assertion of `setMethod` fails only for bytes that follow a malformed line |
| `RequestsDispatched` | a request runs the command its path names, never a removed one |
| `StreamConserves` | no byte is lost or compressed twice between Buffer, zlib and output, and stale input is read only by a `finish()` after a `write(Buffer*)` that left some |
| `FilesReadWhole` | a file is read up to the limit over short reads, and the NUL lies in the buffer |
| `RolledInTime` | rolling and flushing are noticed within `checkEveryN_` lines |
| `StampIsCurrent` | a line's cached time text is that of its own second, in the zone of its suffix |
| `LineReadsBack` | conversions read back, counts have three digits but for the one case below, and the line keeps room for its end |
| `TimesInvert` | days and local times convert and convert back |

A property that combines several statements about one component is a conjunction
of named definitions, each with its own comment in the module.

Deadlock checking is off because the system may stop: nobody is obliged to call
`loop()` again, owners and clients may be gone, and bounded clocks and call
counts run out. Where stopping would be wrong, a liveness property says so.

### Bounds

* `event_loop`: two threads beside the loop, two calls each and three together: a
  functor can queue a functor, two threads can race with the loop, and a quit can
  meet a queueing. One I/O channel stands for any handler.
* `timer_queue`: two addresses, two timers, one queued task: an address is reused
  while an old TimerId is held, and a task waits while a batch runs. Times 0
  (invalid), past, present and future; one-shot and repeating.
* `base_synchronisation`: three lockers; two putters and two takers on queues of
  no limit, one and two places, so that both sides wait at once; two threads and a
  client on a pool with one queue place; eight lines in buffers that take two lines
  each, enough for a flood (`MaxQueued`) and for all spare buffers to be under way.
* `sequential_parts`: three channels and the descriptors 0, 1, 2, so that the hole
  of a removal can be first or in the middle, the moved entry ignored, and a
  descriptor reused while its old Channel exists; a Buffer of up to six bytes with
  a prepend area of two, where growing, sliding and both parts of `readv` occur;
  two frames with all kinds of payload; three calls from two threads; six HTTP
  lines; all paths of up to five characters; integers of 8 bits at their edges;
  three years around four turns of a century, the leap ones included; all zones of
  up to four transitions. Channels are symmetric.
* `tcp_connection`: one other thread and two calls beside the callbacks' own, two
  bytes per message: a message is written in part, a second follows, and a close
  crosses both. `tcp_server`: three clients and two spare descriptors, so that two
  connections live at once and the third client meets EMFILE; no or two threads.
  `tcp_client`: four calls, so that a connection can be made, stopped, made again
  and the client destroyed.

The bounds are named constants (`MaxCalls`, `MaxTotal`, `MaxTimers`, `MaxQueue`,
`MaxTime`, `MaxPuts`, `MaxTasks`, `MaxLines`, `MaxSize`, `MaxInput`,
`MaxClients`, ...) used in guards only.

### Fairness

* `LoopSpec`: the loop thread takes its steps (handlers and functors return), a
  call that was begun is finished, `epoll_wait` returns when the eventfd is
  readable; the owner and `threadFunc` are scheduled. No other channel need become
  ready, and nobody need call. `TimeoutPicksUpAll` names the return of `epoll_wait`
  after `kPollTimeMs` as its own hypothesis; `FairThread` has it for the violation.
* `TimerQueue`: time passes, the kernel fires an armed timerfd, and each loop
  iteration polls, calls every active channel and runs the pending functors, hence
  separate weak fairness for `handleRead` and for the tasks.
* `base`: a ready thread is scheduled and a task returns; nobody need call `stop()`,
  `run()` or `append()`. The back end's wait has a timeout in the code.
* `tcp_connection`: the loop runs and, strongly fair, a socket that is asked for
  write events becomes writable again and again, because the peer reads or the
  connection breaks. A removal that was begun is finished. `tcp_server` and
  `tcp_client`: each loop runs, and calls and destructors that were begun go on. A
  retry timer that is set is reported by a poll in the end (strongly fair, since it
  stays set while polls report other things).

## The proofs

All proofs hold for every value of the constants, from the named assumptions of
the modules, which TLC evaluates in the runs. Every safety invariant has the form
`Spec => []Inv` and an inductive invariant of its own; the proof that a step keeps
it has one lemma or one step per action. The proofs are grouped in modules of
moderate size, because everything in scope weighs on every step. For the same
reason the few facts about sequences are lemmas of each module, and facts about
the sizes of finite sets are named by a predicate (`CountFacts`, `SetFacts`,
`NumberFacts`) that the lemmas assume and that the last section of the module,
which is the only one to use `FiniteSetTheorems`, proves.

### CoreProofs

**EventLoop** (`ThreadsAssumption`, `ChannelsAssumption`, `MaxCallsAssumption`):

* `TypeCorrect`: `Spec => []TypeOK`.
* `LoopInvariant`: `Spec => []LoopInv`. `NoLostWakeup` is not inductive: it speaks
  of the loop in `poll()` only. `WakeupCovers` says for every place of the loop
  what covers a pending functor that is not silent: the eventfd is readable, its
  thread is about to write it, or the swap of this iteration is still ahead.
  `HandleReadFindsData` keeps `handleRead()` from erasing a wakeup that no swap
  follows, `Scopes` says where the locals are empty, and `LoopThreadCalls` that
  the loop thread does not move inside a call.
* `NoWakeupIsLost`, `QuitIsNotMissed`, `HandleReadAlwaysFindsData`: corollaries.
* `LoopIsATaskQueue`: `Spec => Abstract!Spec` with the concatenation of the two
  vectors as the abstract queue. The swap and everything else but `queueInLoop`
  and `functor` is a stuttering step.

**EventLoopThread**: `LifetimesAlwaysNest`. The inductive invariant ties `loop_` to
the places of `threadFunc` (`PointerIsLoop`) and says that until the destructor's
own `quit()` nobody has set `quit_`, so that a loop once entered is not left
(`NotQuitYet`). A `quit()` of user code takes that away, and with it the guarantee:
the destructor reads `loop_` without `mutex_`.

**MutexLock** (`NobodyAssumption`): `HolderAlwaysInside`: `holder_` is the thread
inside the critical section, through condition waits, for any number of threads.

**FileUtil, LogFile, Logging, Inspector** (`ReadAssumption`, `FileAssumption`,
`LogAssumption`): `FilesReadWholeTheorem`, `RolledInTimeTheorem`,
`StampIsCurrentTheorem`, `RemovedIsSilentTheorem`, for any sizes, periods, threads
and commands. `RolledInTime` needs that the line counter bounds how long something
has been overdue, and that the period on record is the one of the last roll;
`StampIsCurrent` needs that a thread's cached text is of `t_lastSecond` and in the
zone of now unless the zone was set in that second or later; `RemovedIsSilent` that
a callback runs with the mutex held.

### QueueProofs

**EPollPoller** (`ChannelAssumption`): `EpollAlwaysAgrees`: the kernel's list, `channels_` and the marks `kNew`, `kAdded`,
`kDeleted` agree. `MCSequential` checks the same formula of an instance.

**Buffer** (`BufferAssumption`): `BufferAlwaysQueue`. `Holds(b, r, w, c)` says that
the vector with its indices is in order and reads as `c`; one lemma for each
primitive (`copied`, `makeSpace`, the retrievals, `prepend`) shows what it does to
`c`, and each operation composes them. `Endian`'s integers are appends and
retrievals of particular bytes; their values are checked only.

**BlockingQueue** (`QueueAssumption`): `QueueAlwaysDelivers`, for any finite sets of
putters and takers and any capacity. The inductive invariant adds to
`QueueDelivers` that only takers inside `take` wait on `notEmpty_` and only putters
inside `put` on `notFull_`. The argument is a count: a put adds an element and its
notify an awake taker, if one is blocked; a take removes an element and one awake
taker; a thread that blocks does so when there is nothing to count.

**Thread**: `NewThreadFindsObjectTheorem` and `StartSeesTidTheorem`, the safety
half of `StartHandsOver`. The invariant ties the places of owner and new thread to
the count of the latch: while it is 1 the owner cannot leave `start()`, and it
reaches 0 only after the id is stored.

### ChannelProofs

**PollPoller** (`ChannelAssumption`): `IndexesAlwaysAgree`,
`ActiveChannelsAlwaysExist`, `RemovedAlwaysIgnored` and `PollSetAlwaysAgrees`. The inductive invariant `IInv` adds that live channels
do not share a descriptor and `channels_` holds registered channels only
(`FdsDistinct`), that every entry decodes to a descriptor (`Decodes`), and that
the current channel is not one still to be handled (`CurrentTaken`). The removal
is the hard step: a registered channel finds the same entry as before, at its old
place or, if it was last, in the hole.

**RpcChannel** (`RpcAssumption`): `OneResponsePerCallTheorem`, for any callers and
number of calls. `RpcInv` says that an id is held by one thread, one message or the
service at a time and occurs there once (`OnceEach`, `OnePlace`), that none is
forgotten while both ends live (`SomePlace`), and that a call is in `outstandings_`
from before its request is sent until its closure is taken out (`Registered`).

### TimerQueueProofs

**TimerQueue** (`TimerConstants`): `SetsAlwaysAgree`, `NoTimerDangles` and
`CancelledStaysGone`, for any addresses, threads, intervals and bounds. The
inductive invariant adds to `SetsAgree` that sequence numbers are given out once
(`Seqs`), that expired timers exist only in `handleRead()` (`Stages`) and are in no
set (`InCall`), that a Timer whose insertion is queued exists and is nowhere else
(`AddTasks`) and is queued once (`NoTwice`), and that a cancelled timer is deleted
or marked in `cancelingTimers_` and still in the batch (`Gone`), so that `reset()`
deletes it.

**ZlibStream** (`ZlibAssumption`): `StreamConservesTheorem`, for any sizes and any
progress zlib makes. `BytesPlaced` counts the bytes at every place of a call.

### TcpConnectionProofs

`ConnAssumption`. `OutputIntactTheorem`, `DestroyedCleanTheorem` and
`ClosesInOrderTheorem` (an action property), for any threads, message size and
number of calls. `ConnInv` has three parts:

* `Core`, which holds whatever happens: wire and output buffer together are whole
  messages, each once and not before an earlier one (`Whole`), a queued message is
  later than those and queued once, in order (`Fresh`), a functor with a bare `this`
  comes from a thread that still holds a pointer or has dropped it too early
  (`Bare`), and `connectEstablished` is first (`First`). That a partial
  write moves bytes from the buffer to the wire without changing their
  concatenation is `MovedSame`.
* `NotYet`: before `connectEstablished` nothing else has touched the connection.
* `Agreed`, while there was no lapse: `state_`, the channel's registration, the
  interest in writing, the number of reports and the owner agree.

### TcpServerQueues and TcpServerProofs

`ServerAssumption`. `EachRemovedOnceTheorem`, for any number of clients, descriptors
and loops, and `ReserveKeptTheorem`, the safety half of `BacklogServed`.
`ServerInv` says where the loops and the acceptor are (`Phases`), that the reserve
is open or a descriptor is free for it (`Reserve`), that connections are numbered
without a gap and dealt in rounds (`Dealt`), that every functor waits once, in the
loop it is meant for (`Placed`), and, connection by connection, what its state, the
functors that wait for it, the map and the server allow of each other (`Agrees`).
`TcpServerQueues` shows for each way the queues change (a functor put or taken, a
batch dropped with its loop, the destructor's `connectDestroyed` poured into all
loops) that `Placed` and `Agreed` are kept; `TcpServerProofs` has the actions.

### TcpClientProofs

`OneAttemptOwnedTheorem`, for any number of calls (no assumption is needed).
`ClientInv` counts: `Attempts`, the ways in which an attempt can be under way, is at
most 1 unless a `connect()` or a restart came out of turn (`Orderly`). `Matched`
ties the connector's state, channel and functors, `Halted` says what a `stop()`
leaves, `Cleared` that what has ended is cleared away in this batch, before `poll`
can report anything about its successor, `CloseOrder` that the destructor's two
functors are run together, and `Released` what remains when the client is gone and
nothing holds the connector. `Ordered` is needed because `connect()` may come while
functors of the last attempt still wait: `resetChannel` and `stopInLoop` are before
`startInLoop` in the queue, so that they do not meet the new attempt. It rests on
the other parts (`BaseInv`) and is shown after them.

### Only model-checked

* Everything under fairness: the prover has no ENABLED.
* `RequestsAnswered` and `FramingExact`: the parsers of `HttpServer` and
  `ProtobufCodecLite` are recursive.
* `NetworkOrder`, `LineReadsBack`, `TimesInvert`, the half of `RequestsDispatched`
  about `split`, and `BuffersConserved`: what a conversion, a search, a folded or
  filtered sequence computes for every input needs induction over data.
* `ThreadPool`: its property is one of progress.

## What the models show about the code beyond the findings

These are limits of what the code promises; the properties exempt them by name.

* A functor queued by the loop thread from a destructor at the end of
  `doPendingFunctors()` waits for the next event or 10 s.
* `send()` from another thread is queued, but the `shutdown()` that follows it sets
  `kDisconnecting` at once. If `handleWrite()` empties the output buffer in between
  (`TcpConnection.cc:386`), the FIN goes out before the queued message, which then
  fails to be written. `FinAfterOutput` speaks of `outputBuffer_` only.
* An `Acceptor` that is destroyed before `listen()` fails the assertion at
  `PollPoller.cc:122`: its channel's first update is `disableAll()`.
* Another thread's `send()` or `shutdown()` is queued with a bare `this`
  (`TcpConnection.cc:105`, `127`, `201`); if that thread drops its pointer first, the
  functor can run without an object.
* `~TcpServer` right after `start()` can hang in the join of a loop that has not
  begun, for the same reason as `~EventLoopThread` (`EventLoop.cc:108`). A removal
  queued with a raw `this` may run after `~TcpServer`, and connections whose loop
  has ended are not destroyed by `connectDestroyed`.
* `TcpClient::connect()` does not check the state ("FIXME", `TcpClient.cc:106`):
  during an attempt, or after a `stop()` during one, it leads to two attempts and to
  the assertions at `Connector.cc:49` and `131`. So does a connection that closes
  after another thread's `stop()` and restarts the connector.
* `~TcpClient` in another thread can be overtaken by the close of its connection,
  which then calls the freed client (`TcpClient.cc:87`, "not 100% safe"), and the
  functors of the connector can outlive it.
* A `ThreadPool` without threads executes a task given to `run()` after `stop()`
  (`ThreadPool.cc:74-77`), although `ThreadPool.h:46` says that `run()` returns at
  once when `stop()` was called before.
* `AsyncLogging::stop()` loses lines appended after the last swap, and its return
  depends on the wait's timeout.
* `LogFile` starts no second file within a second, so a file may exceed its size
  for that long. The bytes of a failed `fwrite` are not counted.
* A log line made in the second in which the time zone is set may carry the old
  zone's text, or text and suffix of different zones.
* HTTP: one request is answered per `onMessage`; a pipelined one waits for the next
  read. A malformed line stays in the buffer. A header line without a colon ends
  the headers. After a 400 for a line with a known method, more bytes make
  `setMethod` fail its assertion (`HttpRequest.h:61`).
* `formatSI` compares the integer and prints the double: just below 99.95P it gives
  `100.0P`, six characters where `LogStream.h:192` promises at most five.
* The codec keeps a bad frame in the buffer, and `fillEmptyBuffer` does not check
  `kMaxMessageLen`: a longer message is refused by the receiver only.
* RPC: calls outstanding when the connection ends never get their closure run, and
  a service that answers after that uses a destroyed channel.
* `TimeZone`: skipped and repeated hours of the first and the last transition get
  one answer (the FIXMEs of `findLocalTime`). A version 3 file is read by its first
  block, as only version 2 is tested for (`TimeZone.cc:258`).
* `ZlibOutputStream`: `write(StringPiece)` after `write(Buffer*)` fails its
  assertion; `finish()` after a `write(Buffer*)` that left input, and an append that
  moved the Buffer's bytes, reads stale memory.

## Not modelled

* Sockets, `InetAddress`, `SocketsOps`: wrappers around system calls without state;
  their outcomes are inputs of the models that use them.
* Destructors of timer callbacks that call back into the TimerQueue, and
  `~TimerQueue`.
* `CountDownLatch` with a count other than the 1 of `Thread::start`; `EventLoop`'s
  late `wakeup()` on a destroyed loop, which comments in the code accept.
* Singletons, thread locals, `WeakCallback`, `Atomic`, `StringPiece`, casts: language
  helpers with nothing to interleave beyond the primitives they wrap.
* `ProcessInfo` and the commands of the Inspector: they read `/proc` and format.
* `Timestamp`, `GzipFile`, `BufferStream`, HTTP responses: arithmetic on one
  integer, and text.
* The services that protobuf generates, its serialisation, zlib's algorithm,
  pthread and the kernel: external, modelled only by what the code relies on.
* The echo example: a `TcpServer` whose message callback sends back what it got.
