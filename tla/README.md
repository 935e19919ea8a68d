# A TLA+ verification project for nets

nets is a small C++17 network library in the reactor style: event loops over
epoll, channels for TCP and UDP sockets, handlers and pipelines for user code, a
thread pool, timers and an asynchronous logger.  This directory models its
concurrent and stateful core in TLA+, checks the models with TLC on small
instances, and proves with TLAPS, for all instances, the safety properties and
refinements that the runs check.  The machine-readable description, with the source lines behind
every definition, is `PROJECT.json`.

The library is built with `-O2 -DNDEBUG` by default (see the top-level
`CMakeLists.txt`), so `assert` is compiled out.  The models follow the release
build; the conditions of the assertions are candidates for properties.

## 1. The system

| Component | State it keeps | Operations | Talks to |
|---|---|---|---|
| `EventLoop` (+ `NotifyChannel`) | `running_`, `runningPendingTasks_`, `pendingTasks_` under a mutex, `channels_`, the eventfd counter | `run`, `runPendingTasks`, `addTask`/`execute`/`submit`, `shutdown`, `registerChannel`, `modifyChannel`, `deregisterChannel` | poller, timer manager, channels; other threads through `addTask` and the eventfd |
| `EpollPoller`, `Channel` | `isRegistered_`, `events_`, `readyEvents_` | `poll`, `prepareChannelReadyEvents`, `registerChannel`, `modifyChannel`, `deregisterChannel`, `handleEvent` | kernel, channels |
| `TimerManager`, `Timer` | a multimap from expiration time to timer; time, interval and count of each timer | `addTimer`, `removeTimer`, `update`, `nearestTimerRemainingExpiredTime` | event loop, callbacks |
| `ThreadPool`, `BoundedBlockingQueue` | `ctl_` (state and thread count), `threadPool_`, the queue, its mutex and condition variables | `execute`/`submit`, `addThreadTask`, `runThread`, `releaseThread`, `shutdown`; `tryPush`, `take`, `tryPop`, `notifyBlockingThread` | clients, workers |
| `SocketChannel` | `state_`, `events_`, `writeBuffer_`, `writeCompleteCallbacks_` | `channelActive`, `write`, `shutdown*`, `handleReadEvent`, `handleWriteEvent`, `handleErrorEvent`, `channelInActive` | event loop (tasks), kernel socket, pipeline |
| `ServerSocketChannel`, `ConnectorChannel` | listening or connecting descriptor, connect state, retry interval | `bind`, `accept`, `connect`, `handleWriteEvent`, `reconnect` | two event loops, timers, new socket channels |
| `DatagramChannel` | descriptor, options | `bind`, `write`, `handleReadEvent` | event loop |
| `EventLoopGroup`, `Bootstrap`, `ServerBootstrap` | the loops, their threads, an index | `loopEach`, `next`, `shutdown`; `bind`, `connect`, `sync` | thread pool, event loops |
| `ChannelHandlerPipeline` | an intrusive list of handlers | `addFirst`/`addLast`, `fire*` | user code |
| `ByteBuffer` | array, capacity, reader and writer index | reads, writes, growth and compaction, copy, move, swap | socket and datagram channels |
| `StackBuffer`, `LogBufferStream` | array, writer index | `writeBytes`, `writeInteger`, `writePointer`, copy, move, swap | the logger |
| `FileLogAppender`, `LogFile`, `Logger` | the current and a backup buffer, a list of full ones, the file | `append`, `sync`, rolling | every thread that logs |

How they interact: what a channel does is meant to happen on the thread of its
loop.  Other threads reach it by handing the loop a task; the eventfd makes the
poll return.  (The exception is the activation of accepted connections, see
`Server`.)  A channel ends by posting a `deregister()` task for itself, because
epoll has handed out raw pointers for the current round.

What is hard in it: the wake-up protocol of the loop; the races between
`execute()`, idle timeouts and `shutdown()` in the pool; the iterators of
`TimerManager::update()` while callbacks change the map; partial writes, half
close and the order of deregistration in `SocketChannel`; the hand-over of new
connections between two loops and the shared descriptor table; start-up and
shutdown across threads; the double buffering of the logger.  `PROJECT.json`
lists each hazard at its line with the properties aimed at it.

## 2. Modules

### `EventLoop`, refining `TaskMailbox`

The thread of the loop goes through `loopPc`: `constructed`, `timers` (the top of
the `while`, timer callbacks run here), `tasks` (`runPendingTasks`), `poll`,
`dispatch` (`handleEvent` of the active channels), then the loop condition;
`stopped` and `dead` (an exception left `run()`) are the ends.  Other threads
write the shared state in one step (`AddTask`, `Shutdown`) and call `notify()` in
another (`Notify`), which is where all the races are.  `eventFd` is the eventfd
counter; a write at the limit fails and is only logged, as in
`NotifyChannel::notify`.  `epoll_wait` reports at most `eventsSize` (`events_.size()`)
channels, any of the ready ones, and a full `events_` grows by half (`PollReady`).
Callbacks (`InCallback`) may add tasks, shut the loop
down and register or deregister channels; deregistration of another channel from
a handler is done by a task, as the channels in this library do it.  Tasks in
`Submitted` stand for `submit()`, which catches the exceptions of the task; others
may throw.

`TaskMailbox` is the abstract promise: a FIFO of tasks that are delivered once
and in order while the mailbox is open.  `MailboxSpec` is the refinement with
`queue <- tmpTasks \o pendingTasks`.

### `ThreadPool`

Clients, workers and stoppers are separate processes with program counters.  Each
access to `ctl_` is a step.  The queue's mutex is explicit (`qlock`), since
`tryPush()` uses `try_to_lock` and `notifyBlockingThread()` takes no lock at all;
the wait of `take()` is split into evaluating the predicate (`PredicateFalse`) and
beginning to wait (`Block`).  The pool's own mutex protects single steps.

### `TimerManager`

`timers` maps the id of a timer to its entry: the key it is stored under, its own
expiration time, interval, count and insertion stamp (`std::multimap` keeps equal
keys in insertion order).  `update()` is a scan with the iterator `it`, in which
each callback is a pair of steps, so that callbacks can schedule and cancel timers
while the scan is under way and time passes.  Times are in ticks, `Millis` ticks
to a millisecond, because the poll timeout is rounded down to milliseconds.

### `SocketChannel`

Bytes are numbered in the order of the `write()` calls and a message is known by
its last byte, so "the peer gets what was written" is `wire = 1, 2, 3, ...`.  A
block of `writeBuffer_` carries its bytes and its free space, which decides
whether the next message is appended to it (`ByteBuffer::calculateNewCapacity`).
`writev()` is one step per system call (`WritevChunk`), each of which may take any
part of the data.  The loop appears as phases `poll`, `handle`, `tasks`.  User code
may write or shut down between any two steps.  `kernel` is the TCP socket.

### `ConnectorChannel`

Several connectors on the one main loop share a small set of descriptors, which
the kernel hands out again as soon as they are closed.  The loop appears as its
phases (timers, tasks, poll, events); `channels` and `epoll` are the two tables that
must agree.  Objects live by reference counting: a connector is alive while
`channels_`, a timer or a task refers to it, and the step that drops the last
reference contains the destructor (a task's reference is dropped only with the
whole list `tmpTasks`, in `EndPendingTasks`).  `connect()` has every kind of result:
at once, in progress, an error that is retried, any other error, no descriptor left
(which in a timer ends the loop's thread).  `sock` is the kernel's socket; reading
its error clears it (`refused` becomes `failed`).

### `FileLogAppender`

A message is its number and a length, a buffer a sequence of messages.  `append()`
and the swap of `sync()` hold the mutex and are one step each; writing is one step
per buffer, in which `LogFile::write` may fail part of the way and
`renameByNowTime` may replace a file of the same second.  `bytes` is `bytes_`, which
starts with the size of the file found (one of `FoundSizes`, or 0 for a new file) and
misses what a failing write has written.  `appended`, `written` and `lost` are
history.  `Trail` is the way of the messages: what was written, the buffers in the hands
of `sync()`, the full buffers, `cacheBuffer_`; `LogAccounted` compares it with what was
appended.  `Renamed` is the effect of `renameByNowTime()` on the directory.

### `Server`

The composition of `ServerBootstrap`, its two `EventLoopGroup`s and the
`ServerSocketChannel`.  The threads are the user's (`bind()`, then `sync()`), one for
each loop, one that calls `shutdown()` (a signal handler does), and the rest of the
process, which opens and closes files: the descriptor table is shared, finite, and
gives out the lowest free number.  `mpc` is where the main loop's thread is, in
`doBind()`, in `handleReadEvent()` or in `dealwithEMFILE()`, each system call and each
access to another loop's state being a step.  A loop is `submitted`, `pushed` (in
`eventLoops_`), `running`, `ended`, or `dead` after an exception; what happens inside a
round is in `EventLoop` and `SocketChannel`.  A `SocketChannel` lives while `channels_`, a
task or the accepting thread refers to it, and the step that drops the last reference
closes the descriptor.  `registerChannel()` on the main loop's thread and
`deregisterChannel()` on the child's are split at `channels_`.  `next()` and the
`push_back` of `loopEach()` are not ordered by the code; what `next()` then finds is the
list before or after the `push_back`, which is what the interleavings of the two actions
give.  Undefined behaviour
(`next()` on an empty group; two threads in one `channels_`) ends the behaviour with
`undefined` saying which.

### `BoundedBlockingQueue`

`ThreadPool` contains the queue operations the pool uses; this module is the queue
with every kind of call: blocking or not, with a time limit, with a predicate.  A
function is a record of these choices, since the ten functions differ in nothing
else.  A call is split where the mutex is released and between evaluating the
predicate and sleeping.  All predicates read one flag, which `Close` sets before
`notifyBlockingThread()`, as the pool does.

### `ByteBuffer`, refining `ByteFifo`

A buffer is the array and its two indices.  The bytes that callers write are numbered
1, 2, 3, ..., so that the abstract queue says which bytes a read must return; 0 is
memory outside the readable part.  Integers go through the byte order of the host
(`ToMemory`, `FromMemory`) and `htobe`/`betoh`; the queue knows only big endian order.
`FifoSpec` maps a buffer to what is between its indices (`readable`).
`writeByteBuffer()` is in the model as it is in the code, with the wrong reader index,
and the FIFO promises only the number of bytes for it.

### `StackBuffer`

The array of a log line, with the loops of `writeInteger` and `writePointer` against
numerals defined by place value, with `Power` for the powers of the base.  A write that does not fit leaves the buffer alone.

### `ChannelHandlerPipeline`, refining `HandlerList`

The handlers and their `next_` pointers; an event is with one handler (`current`), which
may change the pipeline before it forwards the event along its own pointer.  The
abstract list forwards to whoever stands behind the handler at that moment, and a
remove function takes out the first of the places it looks for (`Named`, `Place`).

### `DatagramChannel`

`Bootstrap::bind()` for UDP with every step that may throw, then read events of one
datagram each and writes.  When FD_CLOEXEC cannot be set, `createUdpSocket()` throws
and its descriptor stays open (`leaked`).  A datagram is its number and length; `kRecvPacketSize` cuts
it.

`MCLibrary` puts the parts that share no state (timers, byte buffers, queue, log line
buffers, pipelines, datagram channels) into one instance: the first state chooses the
part that moves, the others rest.

Every module has, next to a definition, one or more variants of it that make a
plausible mistake (`AddTaskSilent`, `removeTimerExact`, ...).  They are not used by
any specification; replacing the definition by the variant shows that a property
is able to fail.

## 3. Runs

Passing:

| Run | Instance | What it shows |
|---|---|---|
| `event_loop` | 2 threads and 3 tasks with 1 channel, 1 thread and 1 task with 3 channels; eventfd limit 2, an event buffer of 2 | no lost wake-up, for tasks and for stops (`NoTaskSleeps`, `NoStopSleeps`); no dangling channel in a round; the loop is a FIFO mailbox (`MailboxSpec`); tasks run and stops are obeyed (`TaskEventuallyRuns`, `StopEventually`); every ready channel is handled in the end although the buffer is too small at first (`EventEventuallyHandled`), and the buffer never becomes empty (`TypeOK`) |
| `thread_pool` | core 1, maximum 2, queue 1, 2 clients, 2 stoppers, 3 tasks | the count in `ctl_` is exact and no thread appears after a finished `shutdown()` (`CountIsExact`), a task runs at most once and only if accepted, and accepted tasks run |
| `socket_channel` | two uses: messages of 1 and 3 bytes, 5 bytes in all, 3 blocks per `writev()`; and messages of 1 and 2 bytes, 3 in all, 2 blocks per `writev()`, two shutdown calls of any kind, writes from other threads, spurious readiness | no byte lost, no completion before all bytes up to the end of the message are sent, and none repeated, a half-closed connection is flushed to the last byte, one Disconnect and one deregistration, an ended channel is always reclaimed, messages complete |
| `connector_channel` | 3 connectors, 2 descriptors | no leaked and no doubly owned descriptor (`OneOwner`), `channels_` and epoll agree (`ChannelsMatchEpoll`), no failed socket becomes a SocketChannel, one attempt at a time, every attempt ends |
| `file_log_appender` | 4 messages of length 1 and 2, buffers of 3, at most 2 buffers, 3 kinds of files, a new file or one of size 3, 2 seconds | no message lost, repeated or reordered by the swaps, the oldest are kept when buffers are dropped, daily files are never overwritten, messages reach the file |
| `library_parts` | timers: 2, delays 0 and 1 ms, interval 1, 2 ticks per ms, 4 ticks | cancellation finds every timer, the map stays in order of expiry, the poll timeout never oversleeps, what is due triggers |
| | byte buffers: 2, capacity up to 4, 4 bytes, integers of 2 bytes | a buffer is a FIFO of bytes (`FifoSpec`) |
| | blocking queue: size 2, 3 elements, two takers and a producer or the reverse | order, bound, and no sleeper left without a signal on its way (`QueueKeepsElements`, `QueueSignalled`) |
| | log lines: 2 buffers of 7 characters, numbers of 3 | whole pieces, right numerals, a NUL at the end (`TextIsWhole`) |
| | pipelines: 4 handlers, two of one name | the linked handlers are a list to every user (`ListSpec`) |
| | UDP: 3 datagrams of length 0, 2 and 4 (cut to 3), options that are accepted and refused | `bind()` fails without a leak (except where FD_CLOEXEC is refused), or datagrams are delivered once and in order |
| `server` | one child loop and 2 clients, two child loops and 1 client; 3 descriptors, one file opened by others | every open descriptor has one owner (`DescriptorsOwned`), the backlog drains also at EMFILE (`BacklogDrains`), `shutdown()` of a running server lets `sync()` return (`ShutdownStops`) |

Disagreements with a comment or an assertion of the code (`findings`):

| Run | Property | What happens |
|---|---|---|
| `thread_pool_lost_wakeup` | `ShutdownTerminates` | `notifyBlockingThread()` has its lock commented out and can fall between a worker's predicate and its wait; the core thread and `shutdown()` then wait for ever |
| `thread_pool_late_push` | `QueueEmptyAfterDrain` | an `execute()` that read `ctl_` before `shutdown()` pushes after the queue was drained |
| `socket_channel_gap` | `StreamIntact` | a third `writev()` in one event follows a short second one, because the expected length is computed with the wrong bound; the peer gets a stream with a gap |
| `socket_channel_shutdown_write` | `WriteEventHasData` | `shutdownWrite()` empties the buffer but leaves EPOLLOUT set; `handleWriteEvent()` then completes messages that were dropped |
| `server_channels` | `ChannelsExclusive` | the main loop's thread inserts an accepted connection in `channels_` of a child's loop while the child's thread erases another, without a lock |

Bounds.  Two foreign threads are the least that can both be between a push and
its `notify()`; three tasks let one be pending, one in the batch and one running;
the eventfd limit of 2 is reached.  Three channels and the notifier are twice as many
as an event buffer of 2 holds; it grows to 3 and to 4 (`MCEventLoop` bounds what callbacks
and other threads may do, never a step of the loop, so fairness is as in `FairSpec`).  With one core thread, one other thread and a
queue of one, every branch of `execute()` is taken while the other client holds
any of its positions; two stoppers race for `ctl_`.  Two timers suffice for one to
be passed over while another is moved.  Messages of one byte and of more than one
byte make blocks with and without free space, and sends that end inside a block.
In the passing socket run a write event needs at most two `writev()` calls, the
last of which may be short without harm; the gap run needs three.  Three
connectors for two descriptors make every descriptor change hands and `socket()`
fail.  Four messages fill three buffers, one more than may be kept; a day of one
second lets a daily file be rolled, both one found there and a new one.  A byte buffer
of capacity 4 is filled, compacted, grown from nothing and refused; two of them differ
in their reader indices.  In a queue of two with three elements a producer finds it
full and a taker finds it empty again after a wake-up, and of two threads on one side
one may leave by its time limit while the other sleeps.  Seven characters hold one
number with its reserve of three but not two.  Four handlers give a list with an
inside, and two of one name a choice.  With three descriptors the listening socket and
the idle descriptor leave one: a second connection, or a file opened by others, meets
EMFILE; with two child loops `next()` wraps around.

Deadlock is checked for the event loop and the socket channel.  The thread pool
may stop when all tasks were given out or it was shut down, the timer model stops
when its clock reaches the bound and a queue when its threads wait for each other or
its elements are used up, a connector's main loop is left with nothing but an exception, a
destroyed log appender ends its thread, and a server ends with `shutdown()` or with
undefined behaviour; these runs say `CHECK_DEADLOCK FALSE`.

Fairness.  `EventLoop!FairSpec`: weak fairness of the loop's own steps (its thread
is scheduled and callbacks return) and of a pending `notify()`.  Nothing is assumed
of the poll timeout: tasks and outside stops must not depend on it.
`StopEventually` takes the timeout as a hypothesis, since `run()` never passes more
than 3000 ms to `epoll_wait`.  `EventEventuallyHandled` takes strong fairness of
`PollReady` as a hypothesis: the kernel does not let `epoll_wait` time out over a ready
channel; which of them it reports when the buffer is full is left open.  `ThreadPool!FairSpec`: each thread is scheduled;
nobody has to call `execute()` or `shutdown()`, and no idle timeout has to pass.
`TimerManager!FairSpec`: the loop calls `update()` again and callbacks return; time
need not pass.  `SocketChannel!FairSpec`: the loop turns, and (strong fairness) a
socket that keeps being asked becomes writable and takes some bytes, which is a
peer that keeps reading.  `ConnectorChannel!FairSpec`: the loop turns and the kernel
decides every attempt (TCP gives up after a while); no timer has to fire.
`FileLogAppender!FairSpec`: the sync thread is scheduled, and its `wait_for` returns
after the flush interval at the latest.  `MCLibrary!LibrarySpec`: that of the timers,
and a loop that keeps turning for the datagram channel; the other parts are checked
for safety only.  `Server!FairSpec`: every thread is scheduled; strong fairness of
`EndRun`, because `run()` tests `running_` once in every round and cannot pass it by for
ever although the test is disabled while a handler runs.  Clients, other users of the
descriptor table, the caller of `shutdown()` and the end of connections are not fair.

## 4. Proofs

Eight modules hold theorems, about the modules they extend, for every value of
the constants that the named assumption of that module allows (any number of threads,
tasks, descriptors, messages; any sizes).  No further assumption is made, except where
a theorem says so.  Every proof has the same shape: an inductive invariant (`IInv`,
`QueueIInv`, `PipelineIInv`, `BufferIInv`, `StackIInv`), a lemma per action with a step per
conjunct
that the action can disturb, `Invariance: Spec => []IInv`, and the properties of the
runs as consequences of it.

### `EventLoop_proofs`

From `EventLoopAssumption`: `TypeCorrect`, `TasksWakeTheLoop`, `ShutdownWakesTheLoop`,
`NoDanglingChannel`, which are the invariants of the run `event_loop`;
`TasksAccountedFor` (`NothingLost`), which says of the concrete queues what the mailbox
says in the abstract: tasks are lost only with an exception; and `ImplementsMailbox`: `Spec => MailboxSpec`.

`NoTaskSleeps` speaks about the loop inside `epoll_wait` and is not inductive: the
loop gets there from `tasks`, where a task may be pending that was pushed after the
swap.  `IInv` therefore contains `TaskWakeup`, which says the same from the moment of
the swap on, and `StopWakeup`, which says it of a stop from the top of the loop on,
the point after which the next poll cannot be avoided.  `Control` ties the flag
`runningPendingTasks`, the batch, the active channels and the handler to the control
point; it is needed because `addTask` on the loop's thread notifies only when the
flag is set.  The conjunct on wake-ups rests on lemmas about `notify()` (the counter is
positive afterwards, also when it was at its limit).  The refinement maps every step to
`Post`, `Deliver`, `Stop`, `Crash` or a stutter, from `IInv`.

### `ThreadPool_proofs`

`CountCorrect` (`CountIsExact`) and `TasksRunOnce` (`RunOnceIfAccepted`), for any core
and maximum size, queue size, clients, stoppers and tasks.  The count is inductive
together with `ShutdownSet` (who is past the first step of `shutdown()` has set the
bit).  That a task runs once needs `Apart`: a task is in one place, with one client, in
one slot of the queue or with one worker, and has not run while it is there; a refused
task is in none.  The proof follows a task from hand to hand.

### `ConnectorChannel_proofs`

`DescriptorsHaveOneOwner` (`OneOwner`), `PointersAreValid` (`ChannelsMatchEpoll`),
`OnlyEstablishedIsHandedOver` (`HandedOverEstablished`), `OneAttemptAtATime`
(`OneAttempt`).  `Located` says of each of a connector's positions (at rest,
connecting, waiting for its timer, deregistered) which of `channels_`, epoll, the
tasks, the timers and the round of events know it; with it the pointers are valid and
there is one attempt.  Ownership is `HeldApart` and `FdsApart` (no two holders of one
descriptor, no holder of two) with `OpenIsOwned`.

### `Server_proofs`

`DescriptorsHaveOneOwner` (`DescriptorsOwned`): for any number of loops, connections and
descriptors, every open descriptor has one owner and a closed one none.  A
`SocketChannel` owns its descriptor while something refers to it.  `MainHolds` says at
every control point of the main loop's thread what it has in hand, `ConnectsOnce` that
one connect task is under way for a new connection, `Kept` that it is referred to
meanwhile; `OwnedOnce` is the property itself, for the holders.

### `SocketChannel_proofs`

`CallbacksTellTheTruth` (`CompletionTruth`), `CleanEnds` (`CleanEndSendsAll`), `OneEnd`
(`EndsOnce`), `TasksFindTheChannel` (`NoUseAfterFree`), `BytesKeptInOrder` (`NoByteLost`),
`WriteEventsFindData` (`WriteEventHasData`).  `Ends` divides the life of the channel: up,
going down with one deregister task in the tasks or the batch, down.  `Rounds` ties the
`writev()` calls of a write event to the buffer, `CallbacksInOrder` orders the posted
and waiting callbacks by the bytes they wait for, `Counted` compares bytes accepted,
buffered and sent by number only.  That bytes stay in order is a separate invariant
`InOrder`: buffer and stream, put together, are the bytes of the messages.  Once the
connection is down it no longer speaks of the buffer; `InStream` says of the stream alone
that its i-th byte is byte i, and `StreamKept` shows that it stays so, because the steps
in which a connection goes down send nothing.  With the numbers of `Counted` that gives
the bytes in `CallbacksTellTheTruth` and `CleanEnds`.

Four theorems have a hypothesis.  `BytesKeptInOrder`, `CallbacksTellTheTruth` and
`CleanEnds` assume `[]FewBlocks`: at most twice as many blocks in the buffer as one
`::writev()` takes, which the instances of the passing run keep.  With more, a third
call may follow a short second one (`socket_channel_gap`); the stream then has a gap, and
the number of bytes sent no longer says which they are.  `WriteEventsFindData` assumes
that the user calls no shutdown function; `shutdownWrite()` empties the buffer and
leaves EPOLLOUT set (`socket_channel_shutdown_write`).

### `Library_proofs`

The parts of the library that the run `library_parts` checks, one section each.

Timers.  `TimersStayInPlace` (`TimersInPlace`), `CancelledStaysQuiet` (`CancelledNeverFires`) and
`PollsInTime` (`NoOversleep`), for any timers, delays, intervals and clock.  The map is
`Ordered`, and stays so between the steps of `update()` while callbacks add and cancel
timers; `IteratorValid` says what the iterator that `update()` holds may point to then,
`CancelledIsMarked` that a cancelled timer which is still in the map, because its callback
runs, is not put back, `CallbackIsDue` that the timer in hand has expired.

Blocking queue.  `ElementsKept` (`QueueKeepsElements`) and `SignalsArrive` (`QueueSignalled`), for any
finite set of threads and any programs.  `Exclusive` is mutual exclusion under the
mutex; `PredicateHolds` says that a thread which has left its wait loop still finds
what it waited for; `Numbered` that the queue holds the next elements in order.
`SignalsArrive` is a statement about one moment; what is inductive is
`SignalsSuffice`: while somebody sleeps, there is for every free place, or element, a
thread that brings a signal to that side or is awake on it.  Its proof counts, with the cardinality
theorems of the library.

Pipeline.  `PipelineIsList`: `PipelineSpec => ListSpec`, for any finite set of handlers and
any names.  The list that the mapping shows is found by walking along `next_`;
`Represents` says that `headChannelHandler_` and the pointers stand for a list without
repetition, and that a handler outside points nowhere, which is what `unlinkHead()` and
`unlinkChannelHandler()` have to see to.  A list without repetition is no longer than
there are handlers, so the walk ends (`FromHead`).  Given the list, the loops `findLast`
and `findChannelHandlerPrev` stop at the place that the list operation means, and each
function changes head and pointers so that they represent the list after it.  An event
that is with a handler which was taken out meanwhile ends there, as its `next_` was reset.

Byte buffer.  `BufferIsFifo`: `BufferSpec => FifoSpec`, for any capacities, data and sizes
of integers.  `BufferIInv` is 0 <= `readerIndex_` <= `writerIndex_` <= `capacity_`.  The
argument has three parts: `calculateNewCapacity()` returns at least what is asked for
(doubling passes every number), so that after `ensureWritable()` there is room;
`adjustCapacity()` and storing behind the writer index keep the readable bytes and append
to them; what `WriteInt` stores is the number in big endian order, and reading gives the
number back, whichever order the host has (`FromMemory` after `ToMemory`, with `htobe` and
`betoh` as reversals).

Log lines.  `TextStaysWhole` (`TextIsWhole`), from `StackBufferAssumption`: numbers have at
most `kMaximumNumberLimit` digits (20 in the code, enough for 64 bits), pointers two fewer
for their "0x".  `StackIInv` says that a buffer is `Held` of its text, a function of the
text alone, so that swaps, moves and copies are equations between such buffers.  The loop
of `writeInteger` and `writePointer` yields the digits `v \div base^i % base` (`LastFirstIs`),
as many as the least power above `v` has places (`IsPlaces`); turned round they are the
numeral (`NumeralIs`).

### `FileLogAppender_proofs`

`MessagesAccounted` (`LogAccounted`), `ArchiveKept` (`NoArchiveLost`), `OldestKept`
(`OldestIsKept`), for messages of any number and length, any sizes of buffers and files and
any clock.  `Accounts` says of `Trail` that it rises and holds every message that is not
`lost`; every step of the two threads either leaves `Trail` as it is (a swap, a buffer put
among the full ones, a whole buffer written), puts one message at its end (`append()`), or
takes a piece out of its middle and adds that piece to `lost` (dropped buffers, a failing
write).  `Rounds` says what `sync()` has in hand at each of its steps: the spare buffer is
there when it waits, and the warning, which is no message, is only among the buffers on
their way to the file.  `Archived` says that the names of rolled files are not later than
the last roll, and that this is not later than the clock `sync()` read: a daily file is
rolled in a second that no file has yet, so nothing is replaced.

### `SequenceLemmas`

The provers cannot instantiate the library's induction theorems, which have an operator
as parameter.  This module proves induction about a set of numbers (`Induction`), from the
fact that a set of natural numbers has a least one (`WFMin`); the property to be proved is
then the definition of a set.  With it, it derives what the other modules need of the
concatenation of blocks and buffers (`FlattenSeq`).  `Library_proofs` uses the same way to
show what recursive functions compute (`AddsUnique`, `PowersAre`, `LastFirstIs`): a
function that satisfies the equation is given, and two that satisfy it agree everywhere.

### Only model-checked

All liveness (the prover has no support for fairness and `ENABLED`), which includes the
one property of `DatagramChannel`; the counterexamples of section 3, which are runs by
nature.  Every invariant, every action property and every refinement of the passing runs
is a theorem; `BytesKeptInOrder`, `CallbacksTellTheTruth` and `CleanEnds` have the
hypothesis given above.

## 5. Not modelled

* Addresses, the system calls behind socket options, strings, time formatting,
  exceptions, signals: value conversions and wrappers of system calls; what a call
  may return is a choice in the modules that use it.  Which options are refused is
  part of `DatagramChannel`.
* The limit of INT32_MAX entries of epoll's event buffer; joining and leaving multicast groups (single
  calls on the kernel's state); the configuration calls of the bootstraps before a
  start.
* The layout of log lines (`LogFormatter`, `Logger`), `StdoutLogAppender`, and
  `flush()` from a thread that logs a fatal message, which races the closing and
  reopening of the file.  `rename()` and `fopen()` of the log file succeed.
* Exceptions of the initialization callback in `ConnectorChannel` (they are in `Server`
  and `DatagramChannel`).
* `ByteBuffer::setWriterIndex()`, which has no caller; a buffer appended to itself.
* A handler added to a pipeline while it is in one.
* A task that destroys or stops the pool it runs on: it waits for itself.
* A repeating timer of interval 0 (excluded by `TimerAssumption`): `update()` would
  not return.
* Use of a channel after its destruction is not followed further than the fact:
  `NoUseAfterFree` is checked for completion callbacks and a user who does not call
  the shutdown functions; writes from other threads capture the raw pointer and can
  really outlive the channel.

Known from reading and contained in the models, without a run of their own:
`handleConnectError()` calls `reconnect()` for refused connections also when `retry_`
is false, although `Bootstrap.h` presents it as a choice; messages still in memory
when a `FileLogAppender` is destroyed are not written; two rolls by size in one
second leave one file; the assertion after a failed registration in
`EventLoop::registerChannel` (`channels_` contains the channel) cannot hold for a new
channel, so in a debug build a refused `epoll_ctl` aborts where the callers expect
`false`.  A client that connects between `bind()` and `sync()` makes `next()` index the
empty list of child loops.  A `shutdown()` that comes before a loop has set `running_`
passes it by, and `sync()` then does not return; one that ends the main loop while
`bind()` waits for its task leaves `bind()` waiting.  Fatal errors of `accept()` (ENFILE,
ENOMEM, ...) are exceptions that end the main loop.  Others may take the descriptor that
`dealwithEMFILE()` frees for a moment, and the server then has no idle one any more.  `createUdpSocket()` loses the descriptor
when `FD_CLOEXEC` cannot be set.  An accepted connection may be read from, and may even
end, before Connect is fired for it.
`ByteBuffer::writeByteBuffer()` uses its own reader index for the other buffer.
`writeInteger()` indexes in front of its table for negative values and stops after one
digit.  A sleeper of `BoundedBlockingQueue` whose predicate has become true swallows a
signal meant for another thread.

Known from reading and outside the models: the assignment operators of `StackBuffer`
return nothing; a `childHandler` given to the bootstrap is linked into the pipeline of
every connection, so that all connections share its `next_`, and with two such handlers
the second connection closes a cycle; `createTcpSocket()` loses the descriptor when
`FD_CLOEXEC` cannot be set.

## 6. What is left

The parts of the system with state of their own are modelled, and their safety is proved.
What would add to it:

1. Liveness with a prover that supports fairness.
2. `flush()` from a thread that logs a fatal message, against the closing and reopening of
   the file by `sync()`.
3. A `SocketChannel` in the composition `Server`, in place of the descriptors it owns.
