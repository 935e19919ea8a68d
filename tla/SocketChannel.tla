--------------------------- MODULE SocketChannel ---------------------------
(***************************************************************************)
(* nets::SocketChannel, one TCP connection, on the thread of its loop.     *)
(*                                                                         *)
(* The bytes given to write() are numbered in the order of the calls, so   *)
(* the wire is right when it carries 1, 2, 3, ...  A message is known by   *)
(* its last byte and has a completion callback.  A block of writeBuffer_   *)
(* is a ByteBuffer: its readable bytes and its writableBytes().            *)
(*                                                                         *)
(* The loop is reduced to what the channel sees of it: a poll, a round of  *)
(* ready events in the order error, read, write, and a batch of tasks.     *)
(* User code (handlers, callbacks) may call the channel between any two    *)
(* steps of the loop; calls made inside a handler come right after it.     *)
(***************************************************************************)
EXTENDS Integers, Sequences, SequencesExt

CONSTANT Uses   \* the ways in which the channel is used and built

(* A use: the lengths of messages, the iovec limit, the shutdown calls the *)
(* user makes, whether other threads call write() as well, whether epoll   *)
(* may report input where read() then finds EAGAIN, and three bounds.      *)
ASSUME SocketChannelAssumption ==
    \A u \in Uses :
        /\ u.lengths \subseteq Nat \ {0}
        /\ u.kMaxCountOfWriteVOnce \in Nat \ {0}
        /\ u.userOps \subseteq {"shutdown", "shutdownRead", "shutdownWrite"}
        /\ u.remoteWrites \in BOOLEAN /\ u.spuriousRead \in BOOLEAN
        /\ u.maxBytes \in Nat /\ u.maxInbound \in Nat /\ u.maxUserOps \in Nat

VARIABLES use,          \* the use under way; it does not change
          state,        \* state_
          events,       \* events_
          isRegistered, \* isRegistered_: known to epoll
          owned,        \* in channels_ of the loop
          life,         \* "new", "alive", "destroyed"
          writeBuffer, writeCompleteCallbacks,
          written,      \* progress of writev(), or Idle
          readyEvents,  \* what handleEvent() has not handled yet
          phase,        \* of the loop: "tasks", "poll", "handle"
          tasks, batch, \* pendingTasks_ and tmpTasks of the loop
          kernel,       \* the socket
          wire,         \* history: bytes given to the kernel
          accepted,     \* history: bytes taken by write()
          completed,    \* history: messages whose callback was posted
          disconnects,  \* history: Disconnect events fired
          userOps       \* history: shutdown calls of the user

vars == <<use, state, events, isRegistered, owned, life, writeBuffer, writeCompleteCallbacks,
          written, readyEvents, phase, tasks, batch, kernel, wire, accepted, completed,
          disconnects, userOps>>
epollVars == <<events, isRegistered>>
bufferVars == <<writeBuffer, writeCompleteCallbacks>>
loopVars == <<owned, life, phase, batch>>
userVars == <<use, accepted, userOps>>

Idle == [active |-> FALSE, blocks |-> 0, bytes |-> 0, error |-> FALSE]

Init == /\ use \in Uses
        /\ state = "INACTIVE"
        /\ events = {}
        /\ isRegistered = FALSE
        /\ owned = FALSE
        /\ life = "new"
        /\ writeBuffer = << >>
        /\ writeCompleteCallbacks = << >>
        /\ written = Idle
        /\ readyEvents = {}
        /\ phase = "poll"
        /\ tasks = << >>
        /\ batch = << >>
        /\ kernel = [inbound |-> 0, eof |-> FALSE, rdShut |-> FALSE, wrShut |-> FALSE,
                     broken |-> FALSE]
        /\ wire = << >>
        /\ accepted = 0
        /\ completed = << >>
        /\ disconnects = 0
        /\ userOps = 0

(* No method of the channel is on the stack.                               *)
Quiet == ~ written.active

Complete(message) == [kind |-> "complete", message |-> message]
Deregister == [kind |-> "deregister", message |-> 0]
WriteTask(length) == [kind |-> "write", message |-> length]

DeregisterPending == Contains(tasks \o batch, Deregister)

(* modify(): epoll adds a channel that it does not know.                   *)
modify(newEvents) == events' = newEvents /\ isRegistered' = TRUE

(* A plausible mistake: nobody deregisters the channel.                    *)
channelInActiveSilent(before) == /\ state' = "INACTIVE"
                                 /\ disconnects' = disconnects + 1
                                 /\ tasks' = tasks \o before

(* channelInActive(), after the tasks `before' that the caller posted.     *)
channelInActive(before) == /\ state' = "INACTIVE"
                           /\ disconnects' = disconnects + 1
                           /\ tasks' = tasks \o before \o <<Deregister>>

-----------------------------------------------------------------------------
(* channelActive(): register for reading and fire Connect; if epoll        *)
(* refuses, the channel has no owner and goes.                             *)
channelActive ==
    /\ life = "new"
    /\ events' = {"read"}
    /\ \/ /\ isRegistered' = TRUE
          /\ owned' = TRUE
          /\ state' = "ACTIVE"
          /\ life' = "alive"
       \/ /\ life' = "destroyed"
          /\ UNCHANGED <<isRegistered, owned, state>>
    /\ UNCHANGED <<bufferVars, written, readyEvents, phase, tasks, batch, kernel, wire,
                   completed, disconnects, userVars>>

-----------------------------------------------------------------------------
(* write()                                                                 *)

Bytes(from, length) == [i \in 1 .. length |-> from + i - 1]
BytesIn(blocks) == FlattenSeq([i \in 1 .. Len(blocks) |-> blocks[i].data])

(* The smallest power of 2 that holds a message.                           *)
calculateNewCapacity(target) ==
    LET enough == {2 ^ k : k \in 0 .. target} \ (0 .. target - 1)
    IN CHOOSE c \in enough : \A d \in enough : c <= d

writeBufferLastCanAppend(length) ==
    writeBuffer # << >> /\ Last(writeBuffer).free >= length

WithAppended(data) ==
    IF writeBufferLastCanAppend(Len(data))
      THEN [writeBuffer EXCEPT ![Len(writeBuffer)] =
                [data |-> @.data \o data, free |-> @.free - Len(data)]]
      ELSE Append(writeBuffer, [data |-> data,
                                free |-> calculateNewCapacity(Len(data)) - Len(data)])

(* A plausible mistake: bytes are buffered, epoll is not told.             *)
appendBufferQuietly(data) ==
    /\ writeBuffer' = WithAppended(data)
    /\ UNCHANGED epollVars

appendBuffer(data) ==
    /\ writeBuffer' = WithAppended(data)
    /\ IF "write" \in events THEN UNCHANGED epollVars ELSE modify(events \cup {"write"})

CanSend == ~ kernel.wrShut /\ ~ kernel.broken

handleWriteError == channelInActive(<< >>)

(* A plausible mistake: the callback is called although bytes are left.    *)
doWriteDirectlyEager(length) ==
    /\ CanSend
    /\ \E sent \in 0 .. length :
           LET data == Bytes(accepted + 1, length)
           IN /\ wire' = wire \o SubSeq(data, 1, sent)
              /\ IF sent = length THEN UNCHANGED <<epollVars, writeBuffer>>
                                  ELSE appendBuffer(SubSeq(data, sent + 1, length))
    /\ completed' = Append(completed, accepted + length)
    /\ tasks' = Append(tasks, Complete(accepted + length))
    /\ UNCHANGED <<state, writeCompleteCallbacks, disconnects>>

(* doWriteDirectly(): the kernel takes any part, none for EAGAIN.  After   *)
(* an error the method goes on as if -1 byte had been taken, and buffers   *)
(* the message with the byte (0) that lies in front of it.                 *)
doWriteDirectly(length) ==
    LET message == accepted + length
        data == Bytes(accepted + 1, length)
    IN \/ /\ CanSend
          /\ wire' = wire \o data
          /\ completed' = Append(completed, message)
          /\ tasks' = Append(tasks, Complete(message))
          /\ UNCHANGED <<state, epollVars, bufferVars, disconnects>>
       \/ /\ CanSend
          /\ \E sent \in 0 .. length - 1 :
                 /\ wire' = wire \o SubSeq(data, 1, sent)
                 /\ appendBuffer(SubSeq(data, sent + 1, length))
          /\ writeCompleteCallbacks' = Append(writeCompleteCallbacks, message)
          /\ UNCHANGED <<state, tasks, completed, disconnects>>
       \/ /\ ~ CanSend
          /\ handleWriteError
          /\ appendBuffer(<<0>> \o data)
          /\ writeCompleteCallbacks' = Append(writeCompleteCallbacks, message)
          /\ UNCHANGED <<wire, completed>>

doWrite(length) ==
    \/ /\ state = "INACTIVE"
       /\ UNCHANGED <<state, epollVars, bufferVars, tasks, wire, accepted, completed,
                      disconnects>>
    \/ /\ state # "INACTIVE"
       /\ accepted' = accepted + length
       /\ \/ /\ writeBuffer # << >>
             /\ appendBuffer(Bytes(accepted + 1, length))
             /\ writeCompleteCallbacks' = Append(writeCompleteCallbacks, accepted + length)
             /\ UNCHANGED <<state, tasks, wire, completed, disconnects>>
          \/ /\ writeBuffer = << >>
             /\ doWriteDirectly(length)

(* The task of write() on another thread, of which there is at most one.   *)
RemotePending == SelectSeq(tasks \o batch, LAMBDA task : task.kind = "write")
Room(length) ==
    accepted + length + (IF RemotePending = << >> THEN 0 ELSE RemotePending[1].message)
        <= use.maxBytes

(* The user writes on the loop's thread ...                                *)
Write(length) == /\ life = "alive"
                 /\ Quiet
                 /\ Room(length)
                 /\ doWrite(length)
                 /\ UNCHANGED <<use, loopVars, written, readyEvents, kernel, userOps>>

(* ... or on another: a task that holds only the raw pointer.              *)
RemoteWrite(length) ==
    /\ use.remoteWrites
    /\ life = "alive"
    /\ Room(length) /\ RemotePending = << >>
    /\ tasks' = Append(tasks, WriteTask(length))
    /\ UNCHANGED <<state, epollVars, loopVars, bufferVars, written, readyEvents, kernel, wire,
                   completed, disconnects, userVars>>

-----------------------------------------------------------------------------
(* shutdown(), shutdownRead() and shutdownWrite() look at no state; handle-*)
(* ReadEvent() calls the first two itself.                                 *)

shutdown == /\ writeBuffer' = << >>
            /\ kernel' = [kernel EXCEPT !.rdShut = TRUE, !.wrShut = TRUE]
            /\ channelInActive(<< >>)

shutdownRead == /\ kernel' = [kernel EXCEPT !.rdShut = TRUE]
                /\ state' = "HALF_CLOSE"
                /\ UNCHANGED <<writeBuffer, tasks, disconnects>>

shutdownWrite == /\ writeBuffer' = << >>
                 /\ kernel' = [kernel EXCEPT !.wrShut = TRUE]
                 /\ state' = "HALF_CLOSE"
                 /\ UNCHANGED <<tasks, disconnects>>

UserShutdown(op) ==
    /\ life = "alive"
    /\ Quiet
    /\ userOps < use.maxUserOps
    /\ userOps' = userOps + 1
    /\ \/ op = "shutdown" /\ shutdown
       \/ op = "shutdownRead" /\ shutdownRead
       \/ op = "shutdownWrite" /\ shutdownWrite
    /\ UNCHANGED <<use, epollVars, loopVars, writeCompleteCallbacks, written, readyEvents, wire,
                   completed, accepted>>

-----------------------------------------------------------------------------
(* The loop polls.                                                         *)

(* EPOLLIN and EPOLLHUP or EPOLLERR of a TCP socket.                       *)
Readable == kernel.inbound > 0 \/ kernel.eof \/ kernel.rdShut \/ kernel.broken
HungUp == kernel.broken \/ (kernel.wrShut /\ (kernel.eof \/ kernel.rdShut))

(* prepareChannelReadyEvents(): an error counts only together with EPOLLIN.*)
Poll ==
    /\ phase = "poll"
    /\ phase' = "handle"
    /\ \E readable \in {Readable, Readable \/ use.spuriousRead}, writable \in {~ CanSend, TRUE} :
           readyEvents' =
               IF isRegistered /\ life = "alive"
                 THEN {e \in {"error", "read"} : "read" \in events /\ readable
                                                     /\ (e = "error" => HungUp)}
                          \cup {e \in {"write"} : "write" \in events /\ writable}
                 ELSE {}
    /\ UNCHANGED <<state, epollVars, owned, life, batch, bufferVars, written, tasks, kernel,
                   wire, completed, disconnects, userVars>>

-----------------------------------------------------------------------------
(* handleEvent()                                                           *)

Handled(event) == readyEvents' = readyEvents \ {event}

handleErrorEvent ==
    /\ Quiet
    /\ "error" \in readyEvents
    /\ Handled("error")
    /\ IF state = "INACTIVE" THEN UNCHANGED <<state, tasks, disconnects>>
                             ELSE channelInActive(<< >>)
    /\ UNCHANGED <<epollVars, loopVars, bufferVars, written, kernel, wire, completed, userVars>>

(* A plausible mistake: the peer's FIN closes both directions at once.     *)
NothingReadDrops == shutdown /\ UNCHANGED epollVars

(* What handleReadEvent() does when doRead() returned 0.                   *)
NothingRead ==
    \/ /\ writeBuffer = << >>
       /\ shutdown
       /\ UNCHANGED epollVars
    \/ /\ writeBuffer # << >>
       /\ shutdownRead
       /\ modify({"write"})

(* A plausible mistake: the state is not looked at.                        *)
handleReadEventAlways ==
    /\ Quiet
    /\ "read" \in readyEvents /\ "error" \notin readyEvents
    /\ Handled("read")
    /\ \/ /\ kernel.inbound > 0
          /\ kernel' = [kernel EXCEPT !.inbound = 0]
          /\ UNCHANGED <<state, epollVars, writeBuffer, tasks, disconnects>>
       \/ kernel.inbound = 0 /\ NothingRead
    /\ UNCHANGED <<loopVars, writeCompleteCallbacks, written, wire, completed, userVars>>

(* What doRead() returns: it reads until EAGAIN or EOF, and what was read  *)
(* before an error is dropped.  EAGAIN before any byte is 0 like EOF.      *)
doRead == IF kernel.broken THEN -1 ELSE kernel.inbound

handleReadError == channelInActive(<< >>)

handleReadEvent ==
    /\ Quiet
    /\ "read" \in readyEvents /\ "error" \notin readyEvents
    /\ Handled("read")
    /\ \/ /\ state = "INACTIVE"
          /\ UNCHANGED <<state, epollVars, writeBuffer, tasks, kernel, disconnects>>
       \/ /\ state # "INACTIVE" /\ doRead > 0
          /\ kernel' = [kernel EXCEPT !.inbound = 0]
          /\ UNCHANGED <<state, epollVars, writeBuffer, tasks, disconnects>>
       \/ /\ state # "INACTIVE" /\ doRead = 0
          /\ NothingRead
       \/ /\ state # "INACTIVE" /\ doRead < 0
          /\ handleReadError
          /\ kernel' = [kernel EXCEPT !.inbound = 0]
          /\ UNCHANGED <<epollVars, writeBuffer>>
    /\ UNCHANGED <<loopVars, writeCompleteCallbacks, written, wire, completed, userVars>>

(* handleWriteEvent() up to writev().                                      *)
StartWrite ==
    /\ Quiet
    /\ readyEvents = {"write"}
    /\ Handled("write")
    /\ written' = [Idle EXCEPT !.active = (state # "INACTIVE")]
    /\ UNCHANGED <<state, epollVars, loopVars, bufferVars, tasks, kernel, wire, completed,
                   disconnects, userVars>>

Iov(from, to) == BytesIn(SubSeq(writeBuffer, from, to))

LeftBlocks == Len(writeBuffer) - written.blocks
ChunkBlocks == IF LeftBlocks < use.kMaxCountOfWriteVOnce
               THEN LeftBlocks ELSE use.kMaxCountOfWriteVOnce

(* How many bytes writev() expects a call to take: its loops begin at      *)
(* writtenBlocks and end at leftBlocks or kMaxCountOfWriteVOnce.           *)
ExpectedWriteLen == Len(Iov(written.blocks + 1, ChunkBlocks))

(* One ::writev() of the loop in writev().                                 *)
WritevChunk ==
    LET data == Iov(written.blocks + 1, written.blocks + ChunkBlocks)
    IN /\ written.active /\ ~ written.error
       /\ LeftBlocks > 0
       /\ \/ /\ CanSend
             /\ \E sent \in 0 .. Len(data) :
                    /\ wire' = wire \o SubSeq(data, 1, sent)
                    /\ written' =
                         [written EXCEPT
                            !.bytes = @ + sent,
                            !.blocks = IF sent = 0 \/ sent < ExpectedWriteLen
                                         THEN Len(writeBuffer) ELSE @ + ChunkBlocks]
          \/ /\ ~ CanSend
             /\ written' = [written EXCEPT !.error = TRUE]
             /\ UNCHANGED wire
       /\ UNCHANGED <<state, epollVars, loopVars, bufferVars, readyEvents, tasks, kernel,
                      completed, disconnects, userVars>>

(* A plausible mistake: a block that was sent in part is dropped.          *)
removeSentBufferBlocks(n) == IF n = 0 THEN writeBuffer ELSE Tail(writeBuffer)

(* writeBuffer_ after removeSentBuffer(), when not all bytes were sent:    *)
(* whole blocks are erased and the first one left moves its readerIndex_.  *)
removeSentBuffer(n) ==
    LET first == Min({i \in 1 .. Len(writeBuffer) : Len(Iov(1, i)) > n})
        left == SubSeq(writeBuffer, first, Len(writeBuffer))
    IN [left EXCEPT ![1].data = SubSeq(@, n - Len(Iov(1, first - 1)) + 1, Len(@))]

(* Everything was sent: post the callbacks, and close what is half closed. *)
AllSent ==
    LET posted == [i \in 1 .. Len(writeCompleteCallbacks) |-> Complete(writeCompleteCallbacks[i])]
    IN /\ writeBuffer' = << >>
       /\ writeCompleteCallbacks' = << >>
       /\ completed' = completed \o writeCompleteCallbacks
       /\ \/ /\ state = "HALF_CLOSE"
             /\ channelInActive(posted)
             /\ UNCHANGED epollVars
          \/ /\ state # "HALF_CLOSE"
             /\ tasks' = tasks \o posted
             /\ modify({"read"})
             /\ UNCHANGED <<state, disconnects>>

(* handleWriteEvent() after writev().                                      *)
FinishWrite ==
    /\ written.active
    /\ written.error \/ LeftBlocks = 0
    /\ written' = Idle
    /\ \/ /\ written.error
          /\ handleWriteError
          /\ UNCHANGED <<epollVars, bufferVars, completed>>
       \/ /\ ~ written.error
          /\ written.bytes = Len(BytesIn(writeBuffer))
          /\ AllSent
       \/ /\ ~ written.error
          /\ written.bytes # Len(BytesIn(writeBuffer))
          /\ writeBuffer' = removeSentBuffer(written.bytes)
          /\ UNCHANGED <<writeCompleteCallbacks, tasks, completed, state, disconnects, epollVars>>
    /\ UNCHANGED <<loopVars, readyEvents, kernel, wire, userVars>>

-----------------------------------------------------------------------------
(* runPendingTasks()                                                       *)

SwapTasks == /\ phase = "handle" /\ Quiet /\ readyEvents = {}
             /\ phase' = "tasks"
             /\ batch' = tasks
             /\ tasks' = << >>
             /\ UNCHANGED <<state, epollVars, owned, life, bufferVars, written, readyEvents,
                            kernel, wire, completed, disconnects, userVars>>

RunDeregister ==
    /\ phase = "tasks" /\ batch # << >> /\ Head(batch) = Deregister
    /\ batch' = Tail(batch)
    /\ owned' = FALSE
    /\ isRegistered' = FALSE
    /\ UNCHANGED <<state, events, life, phase, bufferVars, written, readyEvents, tasks, kernel,
                   wire, completed, disconnects, userVars>>

(* A completion callback, called through the raw `this' of the channel.    *)
RunComplete ==
    /\ phase = "tasks" /\ batch # << >> /\ Head(batch).kind = "complete"
    /\ batch' = Tail(batch)
    /\ UNCHANGED <<state, epollVars, owned, life, phase, bufferVars, written, readyEvents,
                   tasks, kernel, wire, completed, disconnects, userVars>>

(* The write of another thread.  On a channel that is gone it is undefined *)
(* behaviour, of which nothing more is said.                               *)
RunWrite ==
    /\ phase = "tasks" /\ batch # << >> /\ Head(batch).kind = "write"
    /\ batch' = Tail(batch)
    /\ IF life = "destroyed"
         THEN UNCHANGED <<state, epollVars, bufferVars, tasks, wire, accepted, completed,
                          disconnects>>
         ELSE doWrite(Head(batch).message)
    /\ UNCHANGED <<use, owned, life, phase, written, readyEvents, kernel, userOps>>

(* A plausible mistake: the loop lets go of inactive channels itself,      *)
(* although tasks still refer to them.                                     *)
EndTasksDropsInactive ==
    /\ phase = "tasks" /\ batch = << >>
    /\ phase' = "poll"
    /\ life' = IF life = "alive" /\ state = "INACTIVE" THEN "destroyed" ELSE life
    /\ UNCHANGED <<state, epollVars, owned, batch, bufferVars, written, readyEvents, tasks,
                   kernel, wire, completed, disconnects, userVars>>

(* The tasks of the batch are destroyed together at its end, and with the  *)
(* last owner the channel: closing the descriptor takes it out of epoll.   *)
EndTasks ==
    /\ phase = "tasks" /\ batch = << >>
    /\ phase' = "poll"
    /\ LET gone == life = "alive" /\ ~ owned /\ ~ DeregisterPending
       IN /\ life' = IF gone THEN "destroyed" ELSE life
          /\ isRegistered' = (isRegistered /\ ~ gone)
    /\ UNCHANGED <<state, events, owned, batch, bufferVars, written, readyEvents, tasks, kernel,
                   wire, completed, disconnects, userVars>>

-----------------------------------------------------------------------------
(* The peer and the network.                                               *)
Peer == /\ life = "alive"
        /\ \/ /\ kernel.inbound < use.maxInbound /\ ~ kernel.eof /\ ~ kernel.rdShut
              /\ kernel' = [kernel EXCEPT !.inbound = @ + 1]
           \/ /\ ~ kernel.eof
              /\ kernel' = [kernel EXCEPT !.eof = TRUE]
           \/ /\ ~ kernel.broken
              /\ kernel' = [kernel EXCEPT !.broken = TRUE]
        /\ UNCHANGED <<state, epollVars, loopVars, bufferVars, written, readyEvents, tasks, wire,
                       completed, disconnects, userVars>>

LoopStep == \/ Poll
            \/ handleErrorEvent \/ handleReadEvent
            \/ StartWrite \/ WritevChunk \/ FinishWrite
            \/ SwapTasks \/ RunDeregister \/ RunComplete \/ RunWrite \/ EndTasks

Next == \/ channelActive
        \/ LoopStep
        \/ \E length \in use.lengths : Write(length) \/ RemoteWrite(length)
        \/ \E op \in use.userOps : UserShutdown(op)
        \/ Peer

Spec == Init /\ [][Next]_vars

(* The loop keeps turning.  A peer that keeps reading makes the socket     *)
(* writable and the kernel take bytes again and again.                     *)
FairSpec == /\ Spec
            /\ WF_vars(LoopStep)
            /\ SF_vars(Poll /\ "write" \in readyEvents')
            /\ SF_vars(WritevChunk /\ wire' # wire)

-----------------------------------------------------------------------------
(* "clear the data that has been sent and send it next time": however the  *)
(* kernel cuts a write() or writev() short, the bytes the peer gets are    *)
(* those given to write(), in order, without a gap or a repetition.        *)
StreamIntact == \A i \in 1 .. Len(wire) : wire[i] = i

(* While the connection is up, every byte taken by write() has been sent   *)
(* or is buffered, in order: partial sends, appended blocks and a FIN of   *)
(* the peer lose nothing, unless the user shuts the channel down.          *)
NoByteLost ==
    state # "INACTIVE" /\ Quiet /\ userOps = 0 => wire \o BytesIn(writeBuffer) = Bytes(1, accepted)

(* The completion callback of a message is posted once, in order, and not  *)
(* before the kernel has taken every byte up to the last of the message,   *)
(* each once and in its place.                                             *)
CompletionTruth ==
    /\ userOps = 0 => \A i \in 1 .. Len(completed) : IsPrefix(Bytes(1, completed[i]), wire)
    /\ \A i \in 1 .. Len(completed) - 1 : completed[i] < completed[i + 1]

(* "if the local still has data waiting to be sent, just shutdown read":   *)
(* a connection that was not broken ends only when the bytes that write()  *)
(* took, and no others, have been sent in order, although the peer may     *)
(* have closed its side long before (for users that do not call shutdown() *)
(* themselves).                                                            *)
CleanEndSendsAll ==
    state = "INACTIVE" /\ ~ kernel.broken /\ userOps = 0 => wire = Bytes(1, accepted)

(* Whatever combination of error, EOF and failed write ends a connection,  *)
(* the user hears of it once, the one deregister() task finds the channel  *)
(* in the loop (as deregisterChannel() asserts), and the channel is        *)
(* INACTIVE when it is destroyed (as its destructor asserts).              *)
EndsOnce ==
    [][userOps' = 0 =>
       /\ disconnects' <= 1
       /\ batch # << >> /\ batch' = Tail(batch) /\ Head(batch) = Deregister => owned
       /\ life = "alive" /\ life' = "destroyed" => state = "INACTIVE"]_vars

(* Completion callbacks, which hold the raw `this' of the channel, and     *)
(* deregister() run while it exists.  (For a write of another thread, or   *)
(* after a shutdown call of the user, the channel may be gone.)            *)
NoUseAfterFree ==
    [][batch # << >> /\ batch' = Tail(batch) /\ Head(batch).kind # "write" /\ userOps' = 0
         => life = "alive"]_vars

(* The assertion of handleWriteEvent(): a write event is handled only when *)
(* there is something to write.                                            *)
WriteEventHasData == [][Quiet /\ ~ Quiet' => writeBuffer # << >>]_vars

(* A channel that went INACTIVE is destroyed and its descriptor closed.    *)
InactiveReclaimed == (life = "alive" /\ state = "INACTIVE") ~> (life = "destroyed")

(* While messages wait for their callbacks, the last one taken by write()  *)
(* will be completed (and with it, see CompletionTruth, all), or the       *)
(* connection ends, however often the kernel takes only a part and whether *)
(* or not the peer has closed its side meanwhile.                          *)
MessageEventuallyCompletes ==
    (writeCompleteCallbacks # << >>)
        ~> (\/ completed # << >> /\ Last(completed) = accepted
            \/ state = "INACTIVE" \/ life = "destroyed")
=============================================================================
