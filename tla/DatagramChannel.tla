-------------------------- MODULE DatagramChannel --------------------------
(***************************************************************************)
(* nets::DatagramChannel and Bootstrap::bind() for UDP: the channel is     *)
(* made, configured and registered by a task of the loop, whose exceptions *)
(* end in a future that bind() only waits for; every read event takes one  *)
(* datagram.  A datagram is a number and the length it was sent with.      *)
(***************************************************************************)
EXTENDS Integers, Sequences, SequencesExt

CONSTANTS DatagramOptions,    \* sets of options given to the Bootstrap
          PacketLengths,
          kRecvPacketSize,
          MaxDatagrams        \* bound on datagrams, each way

VARIABLES channelOptions,  \* channelOptions_ of the channel
          bindStage,       \* how far bind() is
          openSockets,     \* descriptors of UDP sockets that are open
          sockFd,          \* sockFd_ of the channel: a set of one or none
          receiveQueue,    \* the kernel's queue of the socket
          loopAlive,       \* no exception has left the loop
          arrived,         \* history: datagrams taken in by the kernel
          delivered,       \* history: datagrams given to the handlers
          outbox           \* history: datagrams given to the kernel

datagramVars == <<channelOptions, bindStage, openSockets, sockFd, receiveQueue, loopAlive,
                  arrived, delivered, outbox>>
trafficVars == <<receiveQueue, loopAlive, arrived, delivered, outbox>>

(* Options that setChannelOption() refuses: a value of the wrong type, and *)
(* the backlog of a channel that does not listen.  Those that setsockopt() *)
(* refuses are logged.                                                     *)
Refused == {"BACKLOG", "wrongType"}
DefaultOptions == {"REUSE_ADDR", "REUSE_PORT"}

DatagramInit == /\ \E options \in DatagramOptions : channelOptions = DefaultOptions \cup options
                /\ bindStage = "make"
                /\ openSockets = {}
                /\ sockFd = {}
                /\ receiveQueue = << >>
                /\ loopAlive = TRUE
                /\ arrived = << >>
                /\ delivered = << >>
                /\ outbox = << >>

-----------------------------------------------------------------------------
(* Bootstrap::doBind() and initDatagramChannel(): the user's callback may  *)
(* throw.  An exception releases the channel, which closes what sockFd_    *)
(* holds.                                                                  *)

Throw == /\ bindStage' = "failed"
         /\ openSockets' = openSockets \ sockFd
         /\ sockFd' = {}

initDatagramChannel ==
    /\ bindStage = "make"
    /\ \/ bindStage' = "create" /\ UNCHANGED <<openSockets, sockFd>>
       \/ Throw
    /\ UNCHANGED <<channelOptions, trafficVars>>

(* If setSockCloExec() throws, the new descriptor is in no channel yet.    *)
createUdpSocket ==
    /\ bindStage = "create"
    /\ \/ /\ bindStage' = "configure"
          /\ openSockets' = {"fd"}
          /\ sockFd' = {"fd"}
       \/ Throw
       \/ /\ bindStage' = "leaked"
          /\ openSockets' = {"fd"}
          /\ UNCHANGED sockFd
    /\ UNCHANGED <<channelOptions, trafficVars>>

(* One option after the other, then the list is cleared.                   *)
setChannelOption ==
    /\ bindStage = "configure"
    /\ \/ /\ channelOptions = {}
          /\ bindStage' = "bind"
          /\ UNCHANGED <<channelOptions, openSockets, sockFd>>
       \/ \E option \in channelOptions :
             IF option \in Refused
             THEN Throw /\ UNCHANGED channelOptions
             ELSE /\ channelOptions' = channelOptions \ {option}
                  /\ UNCHANGED <<bindStage, openSockets, sockFd>>
    /\ UNCHANGED trafficVars

(* ::bind(), which is left out for an address without a family.            *)
bind == /\ bindStage = "bind"
        /\ \/ bindStage' = "register" /\ UNCHANGED <<openSockets, sockFd>>
           \/ Throw
        /\ UNCHANGED <<channelOptions, trafficVars>>

(* registerTo() and fireDatagramChannelActive().                           *)
registerTo == /\ bindStage = "register"
              /\ \/ bindStage' = "active" /\ UNCHANGED <<openSockets, sockFd>>
                 \/ Throw
              /\ UNCHANGED <<channelOptions, trafficVars>>

-----------------------------------------------------------------------------
(* A datagram reaches the socket, which has an address from bind() on.     *)
Arrive(length) ==
    /\ bindStage \in {"register", "active"}
    /\ Len(arrived) < MaxDatagrams
    /\ LET packet == <<Len(arrived) + 1, length>>
       IN /\ arrived' = Append(arrived, packet)
          /\ receiveQueue' = Append(receiveQueue, packet)
    /\ UNCHANGED <<channelOptions, bindStage, openSockets, sockFd, loopAlive, delivered, outbox>>

(* What recvfrom() leaves of a datagram in a buffer of kRecvPacketSize.    *)
Truncated(packet) ==
    <<packet[1], IF packet[2] > kRecvPacketSize THEN kRecvPacketSize ELSE packet[2]>>

(* A plausible mistake: read until nothing is left, but hand over one.     *)
handleReadEventLast ==
    /\ bindStage = "active" /\ loopAlive
    /\ receiveQueue # << >>
    /\ receiveQueue' = << >>
    /\ delivered' = Append(delivered, Truncated(Last(receiveQueue)))
    /\ UNCHANGED <<channelOptions, bindStage, openSockets, sockFd, loopAlive, arrived, outbox>>

(* handleReadEvent(): one datagram; an empty one is dropped.  Failures of  *)
(* recvfrom() are logged and change nothing.  An exception of a handler    *)
(* leaves run().                                                           *)
handleReadEvent ==
    /\ bindStage = "active" /\ loopAlive
    /\ receiveQueue # << >>
    /\ receiveQueue' = Tail(receiveQueue)
    /\ LET packet == Truncated(Head(receiveQueue))
       IN IF packet[2] > 0
          THEN delivered' = Append(delivered, packet) /\ loopAlive' \in BOOLEAN
          ELSE UNCHANGED <<delivered, loopAlive>>
    /\ UNCHANGED <<channelOptions, bindStage, openSockets, sockFd, arrived, outbox>>

(* write(), on any thread: nothing for an empty message or an address      *)
(* without a family; the kernel takes the whole message or refuses it.     *)
doWrite(length) ==
    /\ bindStage = "active"
    /\ length > 0
    /\ Len(outbox) < MaxDatagrams
    /\ outbox' = Append(outbox, length)
    /\ UNCHANGED <<channelOptions, bindStage, openSockets, sockFd, receiveQueue, loopAlive,
                   arrived, delivered>>

DatagramLoop == \/ initDatagramChannel \/ createUdpSocket \/ setChannelOption \/ bind
                \/ registerTo \/ handleReadEvent

DatagramNext == \/ DatagramLoop
                \/ \E length \in PacketLengths : Arrive(length) \/ doWrite(length)

-----------------------------------------------------------------------------
(* A bind() that was begun comes to an end although nobody sees its        *)
(* exceptions: either it failed and no descriptor is left open (but for    *)
(* one that setSockCloExec() refused, which is lost), or every datagram    *)
(* that is not empty gets to the handlers, once, in order and cut to the   *)
(* size of the buffer, although a read event takes only one and empty ones *)
(* are in between; as long as no handler throws.                           *)
DatagramsDelivered ==
    (bindStage # "make")
        ~> (\/ bindStage = "failed" /\ openSockets = {}
            \/ bindStage = "leaked"
            \/ bindStage = "active"
               /\ delivered = SelectSeq([i \in 1 .. Len(arrived) |-> Truncated(arrived[i])],
                                        LAMBDA packet : packet[2] > 0)
            \/ ~ loopAlive)
=============================================================================
