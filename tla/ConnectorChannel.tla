-------------------------- MODULE ConnectorChannel --------------------------
(***************************************************************************)
(* nets::ConnectorChannel: TCP clients of Bootstrap::connect() that try to *)
(* connect, retry by timer and hand a connected descriptor over to a       *)
(* SocketChannel.  All of it happens on the one thread of the main loop,   *)
(* but spread over timers, pending tasks and write events, while the       *)
(* kernel decides on each attempt and gives closed descriptors away again. *)
(*                                                                         *)
(* A connector lives as long as channels_, a timer or a task refers to it; *)
(* its destructor is part of the step that lets go of it.                  *)
(***************************************************************************)
EXTENDS Naturals, Sequences, FiniteSets

CONSTANTS Connectors, Fds,
          kInvalidFd,
          NoChannel, SocketChannel     \* in channels_ and in epoll

ASSUME ConnectorAssumption ==
    /\ kInvalidFd \notin Fds
    /\ NoChannel # SocketChannel
    /\ {NoChannel, SocketChannel} \cap Connectors = {}

VARIABLES life,            \* of the ConnectorChannel object
          state,           \* state_
          retry,           \* retry_
          sockFd,          \* sockFd_
          isRegistered,    \* isRegistered_
          sock,            \* the kernel's socket behind a descriptor
          channels,        \* channels_ of the loop, by descriptor
          epoll,           \* the pointer epoll keeps for a descriptor
          timers,          \* number of scheduled reconnects of a connector
          tasks, batch,    \* pendingTasks_ and tmpTasks
          held,            \* connectors that the tasks of tmpTasks refer to
          ready,           \* connectors in activeChannels_ to be handled
          phase            \* of EventLoop::run()

vars == <<life, state, retry, sockFd, isRegistered, sock, channels, epoll, timers, tasks, batch,
          held, ready, phase>>
objectVars == <<life, state, retry, sockFd, isRegistered, timers>>
tableVars == <<channels, epoll>>
loopVars == <<tasks, batch, held, ready, phase>>

Init == /\ life = [c \in Connectors |-> "new"]
        /\ state = [c \in Connectors |-> "DISCONNECTED"]
        /\ retry \in [Connectors -> BOOLEAN]
        /\ sockFd = [c \in Connectors |-> kInvalidFd]
        /\ isRegistered = [c \in Connectors |-> FALSE]
        /\ sock = [f \in Fds |-> "closed"]
        /\ channels = [f \in Fds |-> NoChannel]
        /\ epoll = [f \in Fds |-> NoChannel]
        /\ timers = [c \in Connectors |-> 0]
        /\ tasks = << >>
        /\ batch = << >>
        /\ held = {}
        /\ ready = {}
        /\ phase = "timers"

Set(function, argument, value) == [function EXCEPT ![argument] = value]

-----------------------------------------------------------------------------
(* connect(), with `left' the timers that remain.  Its caller, a task of   *)
(* doConnect() or a timer, then lets go of the connector.                  *)

(* SocketChannel::channelActive() for descriptor f.  epoll may refuse it;  *)
(* the SocketChannel is then destroyed and closes the descriptor.          *)
channelActive(f) ==
    \E registered \in BOOLEAN :
        /\ sock' = Set(sock, f, IF registered THEN "established" ELSE "closed")
        /\ channels' = Set(channels, f, IF registered THEN SocketChannel ELSE NoChannel)
        /\ epoll' = Set(epoll, f, IF registered THEN SocketChannel ELSE NoChannel)

(* connect() returns 0: newSocketChannel() of a connector that was never   *)
(* registered, whose destructor leaves the descriptor alone.               *)
ConnectedAtOnce(c, f) ==
    /\ state' = Set(state, c, "CONNECTED")
    /\ channelActive(f)
    /\ life' = Set(life, c, "destroyed")
    /\ UNCHANGED <<sockFd, isRegistered>>

(* The timer refers to the connector.                                      *)
Schedule(c, left) ==
    /\ state' = Set(state, c, "DISCONNECTED")
    /\ sockFd' = Set(sockFd, c, kInvalidFd)
    /\ timers' = [left EXCEPT ![c] = @ + 1]
    /\ life' = Set(life, c, "alive")

(* A plausible mistake: the descriptor of the failed attempt stays open.   *)
reconnectLeaks(c, f, left) == Schedule(c, left) /\ sock' = Set(sock, f, "refused")

(* reconnect() of a connector that is not registered, with descriptor f.   *)
reconnect(c, f, left) == Schedule(c, left) /\ sock' = Set(sock, f, "closed")

(* The connector is destroyed, and closes f if it is not CONNECTED.        *)
GiveUp(c, f, left) ==
    /\ sock' = Set(sock, f, "closed")
    /\ sockFd' = Set(sockFd, c, kInvalidFd)
    /\ timers' = left
    /\ life' = Set(life, c, "destroyed")
    /\ UNCHANGED state

(* channels_ refers to the connector, epoll to `pointer'.                  *)
Enter(c, f, pointer) ==
    /\ sock' = Set(sock, f, "connecting")
    /\ sockFd' = Set(sockFd, c, f)
    /\ isRegistered' = Set(isRegistered, c, TRUE)
    /\ channels' = Set(channels, f, c)
    /\ epoll' = Set(epoll, f, pointer)
    /\ state' = Set(state, c, "CONNECTING")
    /\ life' = Set(life, c, "alive")

(* A plausible mistake: the interest in write events is forgotten.         *)
RegisteredSilently(c, f) == Enter(c, f, NoChannel)

(* registerTo() succeeds.                                                  *)
Registered(c, f) == Enter(c, f, c)

(* registerTo() fails: the attempt is over.                                *)
NotRegistered(c, f, left) ==
    /\ IF retry[c] THEN reconnect(c, f, left) ELSE GiveUp(c, f, left)
    /\ UNCHANGED <<isRegistered, tableVars>>

(* A connector that is still flagged as registered is only modified, which *)
(* epoll refuses for a descriptor it does not know.                        *)
waitConnect(c, f, left) ==
    \/ /\ ~ isRegistered[c]
       /\ Registered(c, f)
       /\ timers' = left
    \/ NotRegistered(c, f, left)

connect(c, left) ==
    \E f \in Fds :
        /\ sock[f] = "closed"
        /\ \/ ConnectedAtOnce(c, f) /\ timers' = left
           \/ waitConnect(c, f, left)                 \* EINTR, EISCONN, EINPROGRESS
           \/ /\ reconnect(c, f, left)                \* ECONNREFUSED and the like
              /\ UNCHANGED <<isRegistered, tableVars>>
           \/ /\ GiveUp(c, f, left)                   \* any other error
              /\ UNCHANGED <<isRegistered, tableVars>>

(* createTcpSocket() throws.                                               *)
NoDescriptor(c, left) ==
    /\ \A f \in Fds : sock[f] # "closed"
    /\ timers' = left
    /\ life' = Set(life, c, "destroyed")
    /\ UNCHANGED <<state, sockFd, isRegistered, sock, tableVars>>

-----------------------------------------------------------------------------
(* EventLoop::run()                                                        *)

(* Bootstrap::connect() on a user's thread, which then waits for the task. *)
BootstrapConnect(c) ==
    /\ life[c] = "new"
    /\ \A d \in Connectors : life[d] # "submitted"
    /\ life' = Set(life, c, "submitted")
    /\ tasks' = Append(tasks, [task |-> "doConnect", channel |-> c])
    /\ UNCHANGED <<state, retry, sockFd, isRegistered, timers, sock, tableVars, batch, held,
                   ready, phase>>

(* timerManager_.update(): a reconnect falls due.  What connect() throws   *)
(* here ends the loop's thread.                                            *)
ReconnectTimer(c) ==
    /\ phase = "timers"
    /\ timers[c] > 0
    /\ LET left == [timers EXCEPT ![c] = @ - 1]
       IN \/ connect(c, left) /\ UNCHANGED phase
          \/ NoDescriptor(c, left) /\ phase' = "crashed"
    /\ UNCHANGED <<retry, tasks, batch, held, ready>>

SwapPendingTasks ==
    /\ phase = "timers"
    /\ phase' = "tasks"
    /\ batch' = tasks
    /\ tasks' = << >>
    /\ UNCHANGED <<objectVars, sock, tableVars, held, ready>>

NextTask(task, c) == /\ phase = "tasks"
                     /\ batch # << >>
                     /\ Head(batch) = [task |-> task, channel |-> c]
                     /\ batch' = Tail(batch)

(* doConnect(); submit() hands an exception over to the waiting thread.    *)
doConnect(c) ==
    /\ NextTask("doConnect", c)
    /\ connect(c, timers) \/ NoDescriptor(c, timers)
    /\ UNCHANGED <<retry, tasks, held, ready, phase>>

(* EventLoop::deregisterChannel(), which erases by descriptor.             *)
deregister(c) ==
    /\ isRegistered' = Set(isRegistered, c, FALSE)
    /\ epoll' = Set(epoll, sockFd[c], NoChannel)
    /\ channels' = Set(channels, sockFd[c], NoChannel)

(* The task of handleErrorEvent() without retry.  The connector is         *)
(* destroyed with the list of tasks.                                       *)
DeregisterTask(c) ==
    /\ NextTask("deregister", c)
    /\ deregister(c)
    /\ held' = held \cup {c}
    /\ UNCHANGED <<life, state, retry, sockFd, sock, timers, tasks, ready, phase>>

(* A plausible mistake: the task reconnects without deregister().  (epoll  *)
(* forgets a descriptor that is closed.)                                   *)
ReconnectTaskRegistered(c) ==
    /\ NextTask("reconnect", c)
    /\ isRegistered' = Set(isRegistered, c, FALSE)
    /\ epoll' = Set(epoll, sockFd[c], NoChannel)
    /\ reconnect(c, sockFd[c], timers)
    /\ held' = held \cup {c}
    /\ UNCHANGED <<channels, retry, tasks, ready, phase>>

(* The task of handleErrorEvent() with retry.                              *)
ReconnectTask(c) ==
    /\ NextTask("reconnect", c)
    /\ deregister(c)
    /\ reconnect(c, sockFd[c], timers)
    /\ held' = held \cup {c}
    /\ UNCHANGED <<retry, tasks, ready, phase>>

(* A SocketChannel that has become inactive deregisters and is destroyed;  *)
(* SocketChannel.tla has the details.                                      *)
SocketChannelEnds(f) ==
    /\ phase = "tasks"
    /\ batch = << >>
    /\ channels[f] = SocketChannel
    /\ channels' = Set(channels, f, NoChannel)
    /\ epoll' = Set(epoll, f, NoChannel)
    /\ sock' = Set(sock, f, "closed")
    /\ UNCHANGED <<objectVars, loopVars>>

(* tmpTasks goes, and with it the last reference to some connectors.       *)
EndPendingTasks ==
    /\ phase = "tasks"
    /\ batch = << >>
    /\ LET gone == {c \in held : timers[c] = 0 /\ \A f \in Fds : channels[f] # c}
           closed == {sockFd[c] : c \in {d \in gone : state[d] # "CONNECTED"}}
       IN /\ life' = [c \in Connectors |-> IF c \in gone THEN "destroyed" ELSE life[c]]
          /\ sockFd' = [c \in Connectors |-> IF c \in gone THEN kInvalidFd ELSE sockFd[c]]
          /\ sock' = [f \in Fds |-> IF f \in closed THEN "closed" ELSE sock[f]]
    /\ held' = {}
    /\ phase' = "poll"
    /\ UNCHANGED <<state, retry, isRegistered, timers, tableVars, tasks, batch, ready>>

(* epoll_wait().  A connector asks for EPOLLOUT only, which a socket whose *)
(* attempt is over reports, be it with success or not.                     *)
Poll ==
    /\ phase = "poll"
    /\ phase' = "events"
    /\ ready' = {c \in Connectors :
                     \E f \in Fds : epoll[f] = c /\ sock[f] \notin {"closed", "connecting"}}
    /\ UNCHANGED <<objectVars, sock, tableVars, tasks, batch, held>>

Handled(c) == /\ phase = "events"
              /\ c \in ready
              /\ ready' = ready \ {c}
              /\ UNCHANGED <<retry, batch, held, phase>>

(* handleWriteEvent() is told of an error.                                 *)
SeesError(c) == /\ Handled(c)
                /\ state[c] = "CONNECTING"
                /\ sock[sockFd[c]] = "refused"

ErrorTask(c, channel) ==
    [task |-> IF retry[c] THEN "reconnect" ELSE "deregister", channel |-> channel]

(* getSockError() clears the error.                                        *)
Clear(c) == /\ sock' = Set(sock, sockFd[c], "failed")
            /\ UNCHANGED <<life, state, sockFd, isRegistered, tableVars, timers>>

(* Plausible mistakes: the connector reconnects while it is registered;    *)
(* there is only a task to reconnect.                                      *)
ConnectFailsReconnects(c) == /\ SeesError(c)
                             /\ reconnect(c, sockFd[c], timers)
                             /\ UNCHANGED <<isRegistered, tableVars, tasks>>
ConnectFailsForgets(c) == /\ SeesError(c)
                          /\ Clear(c)
                          /\ tasks' = IF retry[c] THEN Append(tasks, ErrorTask(c, c)) ELSE tasks

(* handleErrorEvent(): the next round of tasks deals with it, because the  *)
(* channel may have other events.                                          *)
ConnectFails(c) == /\ SeesError(c)
                   /\ Clear(c)
                   /\ tasks' = Append(tasks, ErrorTask(c, c))

(* No error: newSocketChannel().  deregister() takes the connector out of  *)
(* channels_, the only reference to it; the SocketChannel then takes over  *)
(* its place, or fails to and closes the descriptor.                       *)
newSocketChannel(c) ==
    /\ Handled(c)
    /\ state[c] = "CONNECTING"
    /\ sock[sockFd[c]] # "refused"
    /\ state' = Set(state, c, "CONNECTED")
    /\ isRegistered' = Set(isRegistered, c, FALSE)
    /\ \E registered \in BOOLEAN :
           /\ sock' = IF registered THEN sock ELSE Set(sock, sockFd[c], "closed")
           /\ channels' = Set(channels, sockFd[c],
                              IF registered THEN SocketChannel ELSE NoChannel)
           /\ epoll' = Set(epoll, sockFd[c], IF registered THEN SocketChannel ELSE NoChannel)
    /\ life' = Set(life, c, "destroyed")
    /\ sockFd' = Set(sockFd, c, kInvalidFd)
    /\ UNCHANGED <<timers, tasks>>

EndEvents ==
    /\ phase = "events"
    /\ ready = {}
    /\ phase' = "timers"
    /\ UNCHANGED <<objectVars, sock, tableVars, tasks, batch, held, ready>>

LoopStep == \/ SwapPendingTasks \/ EndPendingTasks \/ Poll \/ EndEvents
            \/ \E c \in Connectors :
                   \/ doConnect(c) \/ DeregisterTask(c) \/ ReconnectTask(c)
                   \/ ConnectFails(c) \/ newSocketChannel(c)

-----------------------------------------------------------------------------
(* The kernel ends an attempt; a connection may also break again before    *)
(* the connector has seen it.                                              *)
Decide(f) == /\ sock[f] = "connecting"
             /\ \E result \in {"established", "refused"} : sock' = Set(sock, f, result)
             /\ UNCHANGED <<objectVars, tableVars, loopVars>>

Break(f) == /\ sock[f] = "established"
            /\ channels[f] \in Connectors
            /\ sock' = Set(sock, f, "refused")
            /\ UNCHANGED <<objectVars, tableVars, loopVars>>

Next == \/ \E c \in Connectors : BootstrapConnect(c) \/ ReconnectTimer(c)
        \/ LoopStep
        \/ \E f \in Fds : SocketChannelEnds(f) \/ Decide(f) \/ Break(f)

Spec == Init /\ [][Next]_vars

(* The loop's thread is scheduled, and the kernel times an attempt out.    *)
FairSpec == /\ Spec
            /\ WF_vars(LoopStep)
            /\ \A f \in Fds : WF_vars(Decide(f))

-----------------------------------------------------------------------------
OwnsFd(c, f) == life[c] = "alive" /\ state[c] # "CONNECTED" /\ sockFd[c] = f

(* A descriptor is open exactly as long as one object is there to close    *)
(* it, a connector that still tries or a SocketChannel, and never two:     *)
(* retries, failed registrations and the hand-over leak and double-close   *)
(* none although closed descriptors come back at once.                     *)
OneOwner ==
    \A f \in Fds :
        /\ Cardinality({c \in Connectors : OwnsFd(c, f)}) <= 1
        /\ channels[f] = SocketChannel => \A c \in Connectors : ~ OwnsFd(c, f)
        /\ sock[f] # "closed"
               <=> channels[f] = SocketChannel \/ \E c \in Connectors : OwnsFd(c, f)

(* channels_ keeps alive exactly the channels that epoll has a pointer to; *)
(* neither epoll nor a round of events has one to a connector that is gone *)
(* or has another descriptor, and the early return of handleWriteEvent()   *)
(* for a connector that does not connect is never taken.                   *)
ChannelsMatchEpoll ==
    /\ \A f \in Fds :
           /\ channels[f] = epoll[f]
           /\ \A c \in Connectors : epoll[f] = c => life[c] = "alive" /\ sockFd[c] = f
           /\ epoll[f] # NoChannel => sock[f] # "closed"
    /\ \A c \in ready : life[c] = "alive" /\ state[c] = "CONNECTING"

(* A SocketChannel is only made of a connection that was established: the  *)
(* error of a failed attempt is reported once, and nobody asks again.      *)
HandedOverEstablished ==
    \A f \in Fds : channels[f] = SocketChannel => sock[f] = "established"

Pending == tasks \o batch

(* What the assertions of the tasks of handleErrorEvent() and of connect() *)
(* rely on: the connector of a task is registered and has one task only,   *)
(* no timer runs next to it; one that waits for its timer has let go of    *)
(* everything else.                                                        *)
OneAttempt ==
    /\ \A i \in 1 .. Len(Pending) :
           LET c == Pending[i].channel
           IN Pending[i].task # "doConnect" =>
                  /\ isRegistered[c] /\ state[c] = "CONNECTING"
                  /\ channels[sockFd[c]] = c
                  /\ timers[c] = 0
                  /\ \A j \in 1 .. Len(Pending) : Pending[j].channel = c => j = i
    /\ \A c \in Connectors :
           timers[c] > 0 => /\ timers[c] = 1
                            /\ state[c] = "DISCONNECTED"
                            /\ ~ isRegistered[c]
                            /\ sockFd[c] = kInvalidFd

(* An attempt comes to its end: connected, given up or set aside for the   *)
(* timer.  The user's thread in connect() gets its answer.                 *)
AttemptEnds ==
    \A c \in Connectors :
        life[c] = "submitted" \/ state[c] = "CONNECTING"
            ~> \/ life[c] = "destroyed"
               \/ life[c] = "alive" /\ sockFd[c] = kInvalidFd
               \/ phase = "crashed"
=============================================================================
