------------------------------- MODULE Server -------------------------------
(***************************************************************************)
(* A TCP server: ServerBootstrap with its two EventLoopGroups, the         *)
(* ServerSocketChannel on the main loop, and the SocketChannels it makes   *)
(* for the loops of the child group.  The threads are the user's (bind(),  *)
(* then sync()), one for each loop, one that calls shutdown(), and the     *)
(* rest of the process, which opens and closes files of its own: the       *)
(* descriptor table is shared and small.                                   *)
(*                                                                         *)
(* What happens inside a loop and inside an active SocketChannel is in     *)
(* EventLoop and SocketChannel; here a loop runs, ends or is left by an    *)
(* exception, and an active connection may end at any time.                *)
(*                                                                         *)
(* Two things the threads can do to each other are undefined: next() on a  *)
(* group without loops, and two threads changing channels_ of one loop.    *)
(* Then the model stops.                                                   *)
(***************************************************************************)
EXTENDS Integers, Sequences, FiniteSets

CONSTANTS Main,         \* the loop of mainLoopGroup_
          Children,     \* loops for childLoopGroup_
          Connections,  \* connections that clients open
          Fds,          \* the descriptor table, without what the loops use
          Setups        \* servers and their surroundings, see setup

ASSUME ServerAssumption == /\ Main \notin Children
                           /\ IsFiniteSet(Children)
                           /\ Fds \subseteq Nat /\ IsFiniteSet(Fds)
                           /\ \A s \in Setups : /\ s.children \subseteq Children
                                                 /\ s.children # {}
                                                 /\ s.clients \subseteq Connections
                                                 /\ s.maxOpens \in Nat

kInvalidFd == -1
Loops == Children \cup {Main}

VARIABLES
    setup,        \* the loops of the child group (numOfEventLoops_), the
                  \* connections that clients open, and a bound on what the
                  \* rest of the process opens; does not change
    thread,       \* of a loop: what its thread of the pool does
    running,      \* of a loop: running_
    eventLoops,   \* eventLoops_ of the child group
    nextLoop,     \* nextLoop_ of the child group
    erasing,      \* of a child: the connection it is erasing from channels_
    user,         \* where bind() and sync() are
    stopper,      \* where shutdown() is
    open,         \* the descriptors in use
    otherFds, opens,          \* of the rest of the process
    sockFd, idleFd,           \* of the ServerSocketChannel
    mpc,          \* what the main loop's thread does
    cur, connFd,  \* the connection it has in hand and its descriptor
    backlog,      \* connections to be accepted
    arrived,      \* history: connections that clients have opened
    chan,         \* the SocketChannels
    undefined     \* "no", or what has happened

loopVars == <<thread, running, eventLoops, nextLoop, erasing>>
fdVars == <<open, otherFds, opens>>
mainVars == <<sockFd, idleFd, mpc, cur, connFd>>
clientVars == <<backlog, arrived>>
vars == <<setup, loopVars, user, stopper, fdVars, mainVars, clientVars, chan, undefined>>

(* No object: what a SocketChannel is before and after its life.           *)
NoChannel == [fd |-> kInvalidFd, loop |-> Main, registered |-> FALSE, inChannels |-> FALSE,
              active |-> FALSE, task |-> FALSE]

Init == /\ setup \in Setups
        /\ thread = [l \in Loops |-> "none"]
        /\ running = [l \in Loops |-> FALSE]
        /\ eventLoops = << >> /\ nextLoop = 1
        /\ erasing = [l \in Children |-> {}]
        /\ user = "begin" /\ stopper = "idle"
        /\ open = {} /\ otherFds = {} /\ opens = 0
        /\ sockFd = kInvalidFd /\ idleFd = kInvalidFd
        /\ mpc = "idle" /\ cur = {} /\ connFd = kInvalidFd
        /\ backlog = << >> /\ arrived = {}
        /\ chan = [c \in Connections |-> NoChannel]
        /\ undefined = "no"

(* The kernel gives out the lowest free descriptor.                        *)
Full == open = Fds
FreeFd == CHOOSE f \in Fds \ open : \A g \in Fds \ open : f <= g

-----------------------------------------------------------------------------
(* The user's thread: bind() and sync()                                    *)

Over(l) == thread[l] \in {"ended", "dead"}

(* loopEach() gives the pool one task for each loop and waits for the      *)
(* loops to be in eventLoops_.                                             *)
Submit(group) == thread' = [l \in Loops |-> IF l \in group THEN "submitted" ELSE thread[l]]
Pushed(group) == \A l \in group : thread[l] \notin {"none", "submitted"}

User(from, to) == user = from /\ user' = to
Wait(from, to, condition) ==
    /\ User(from, to) /\ condition
    /\ UNCHANGED <<loopVars, stopper, fdVars, mainVars, clientVars, chan, undefined>>

bind == /\ User("begin", "loopMain")
        /\ Submit({Main})
        /\ UNCHANGED <<running, eventLoops, nextLoop, erasing, stopper, fdVars, mainVars,
                       clientVars, chan, undefined>>

(* mainLoopGroup_.submit(doBind): the task waits for the loop's thread.    *)
SubmitDoBind == /\ User("loopMain", "waitBind")
                /\ Pushed({Main})
                /\ mpc' = "doBind"
                /\ UNCHANGED <<loopVars, stopper, fdVars, sockFd, idleFd, cur, connFd,
                               clientVars, chan, undefined>>

(* future.wait() does not tell how doBind() ended.                         *)
Bound == Wait("waitBind", "bound", mpc \notin {"doBind", "bindSocket", "bindListen"})

sync == /\ User("bound", "loopChildren")
        /\ Submit(setup.children)
        /\ UNCHANGED <<running, eventLoops, nextLoop, erasing, stopper, fdVars, mainVars,
                       clientVars, chan, undefined>>
LoopEachReturns == Wait("loopChildren", "syncMain", Pushed(setup.children))
SyncMain == Wait("syncMain", "syncChildren", Over(Main))
SyncChildren == Wait("syncChildren", "returned", \A l \in setup.children : Over(l))

UserStep == \/ bind \/ SubmitDoBind \/ Bound \/ sync
            \/ LoopEachReturns \/ SyncMain \/ SyncChildren

-----------------------------------------------------------------------------
(* The threads of the loops                                                *)

Thread(l, from, to) == thread[l] = from /\ thread' = [thread EXCEPT ![l] = to]

(* new EventLoop and push_back(), under the group's mutex_.                *)
PushBack(l) ==
    /\ Thread(l, "submitted", "pushed")
    /\ eventLoops' = IF l = Main THEN eventLoops ELSE Append(eventLoops, l)
    /\ UNCHANGED <<running, nextLoop, erasing, user, stopper, fdVars, mainVars, clientVars, chan,
                   undefined>>

(* run() sets running_ whatever it was.                                    *)
Run(l) == /\ Thread(l, "pushed", "running")
          /\ running' = [running EXCEPT ![l] = TRUE]
          /\ UNCHANGED <<eventLoops, nextLoop, erasing, user, stopper, fdVars, mainVars,
                         clientVars, chan, undefined>>

(* The round is over and run() looks at running_.                          *)
EndRun(l) == /\ Thread(l, "running", "ended")
             /\ ~ running[l]
             /\ IF l = Main THEN mpc \in {"idle", "doBind"} ELSE erasing[l] = {}
             /\ UNCHANGED <<running, eventLoops, nextLoop, erasing, user, stopper, fdVars,
                            mainVars, clientVars, chan, undefined>>

Serves(l, c) == thread[l] = "running" /\ chan[c].loop = l /\ chan[c].registered

(* channelInActive(), because the peer closed or reset the connection:     *)
(* Disconnect is fired and a task is to deregister.  An exception of the   *)
(* handler leaves run(), running_ stays, and there is no task.             *)
channelInActive(l, c) ==
    /\ Serves(l, c) /\ erasing[l] = {}
    /\ chan[c].active
    /\ \/ /\ chan' = [chan EXCEPT ![c].active = FALSE, ![c].task = TRUE]
          /\ UNCHANGED thread
       \/ /\ chan' = [chan EXCEPT ![c].active = FALSE]
          /\ Thread(l, "running", "dead")
    /\ UNCHANGED <<running, eventLoops, nextLoop, erasing, user, stopper, fdVars, mainVars,
                   clientVars, undefined>>

(* The thread of the main loop is inside channels_ of a child.             *)
Inserting(l) == mpc = "insert" /\ \A c \in cur : chan[c].loop = l

(* deregisterChannel(): epoll, then channels_.                             *)
StartErase(l, c) ==
    /\ Serves(l, c) /\ erasing[l] = {}
    /\ chan[c].task
    /\ chan' = [chan EXCEPT ![c].registered = FALSE]
    /\ erasing' = [erasing EXCEPT ![l] = {c}]
    /\ undefined' = IF Inserting(l) THEN "channels" ELSE "no"
    /\ UNCHANGED <<thread, running, eventLoops, nextLoop, user, stopper, fdVars, mainVars,
                   clientVars>>

(* A shared_ptr to the channel goes: the last one closes the descriptor.   *)
Release(c, after) ==
    IF after.inChannels \/ after.task \/ c \in cur'
    THEN /\ chan' = [chan EXCEPT ![c] = after]
         /\ UNCHANGED open
    ELSE /\ chan' = [chan EXCEPT ![c] = NoChannel]
         /\ open' = open \ {chan[c].fd}

EndErase(l, c) ==
    /\ thread[l] = "running" /\ c \in erasing[l]
    /\ erasing' = [erasing EXCEPT ![l] = {}]
    /\ UNCHANGED mainVars
    /\ Release(c, [chan[c] EXCEPT !.inChannels = FALSE, !.task = FALSE])
    /\ UNCHANGED <<thread, running, eventLoops, nextLoop, user, stopper, otherFds, opens,
                   clientVars, undefined>>

ChildStep(l) == \E c \in Connections :
                    channelInActive(l, c) \/ StartErase(l, c) \/ EndErase(l, c)

-----------------------------------------------------------------------------
(* The main loop: doBind()                                                 *)

MainAt(pc) == thread[Main] = "running" /\ mpc = pc
MainRest == UNCHANGED <<running, eventLoops, nextLoop, erasing, user, stopper, otherFds, opens,
                        undefined>>

(* The constructor keeps a descriptor back.                                *)
createIdleFd(success, failure) ==
    IF Full THEN idleFd' = kInvalidFd /\ mpc' = failure /\ UNCHANGED open
    ELSE idleFd' = FreeFd /\ open' = open \cup {FreeFd} /\ mpc' = success

doBind == /\ MainAt("doBind")
          /\ createIdleFd("bindSocket", "idle")
          /\ UNCHANGED <<thread, sockFd, cur, connFd, clientVars, chan>> /\ MainRest

(* An exception in bind(): the channel is destroyed.                       *)
BindFails == /\ open' = open \ {idleFd, sockFd}
             /\ idleFd' = kInvalidFd /\ sockFd' = kInvalidFd
             /\ mpc' = "idle"

BindSocket == /\ MainAt("bindSocket")
              /\ IF Full THEN BindFails
                 ELSE /\ sockFd' = FreeFd /\ open' = open \cup {FreeFd}
                      /\ mpc' = "bindListen" /\ UNCHANGED idleFd
              /\ UNCHANGED <<thread, cur, connFd, clientVars, chan>> /\ MainRest

(* Options, bind(), listen() and the registration, each of which may fail. *)
BindListen == /\ MainAt("bindListen")
              /\ \/ BindFails
                 \/ mpc' = "idle" /\ UNCHANGED <<open, idleFd, sockFd>>
              /\ UNCHANGED <<thread, cur, connFd, clientVars, chan>> /\ MainRest

-----------------------------------------------------------------------------
(* The main loop: handleReadEvent()                                        *)

Listening == sockFd # kInvalidFd /\ mpc \notin {"bindSocket", "bindListen"}

(* accept() and the kinds of errors it reports; EAGAIN and EINTR change    *)
(* nothing.                                                                *)
accept ==
    /\ MainAt("idle") /\ Listening
    /\ backlog # << >>
    /\ \/ /\ ~ Full
          /\ connFd' = FreeFd /\ open' = open \cup {FreeFd}
          /\ cur' = {Head(backlog)} /\ backlog' = Tail(backlog)
          /\ mpc' = "next" /\ UNCHANGED thread
       \/ /\ Full
          /\ mpc' = "closeIdle"
          /\ UNCHANGED <<connFd, open, cur, backlog, thread>>
       \/ /\ backlog' = Tail(backlog)              \* ECONNABORTED
          /\ UNCHANGED <<connFd, open, cur, mpc, thread>>
       \/ /\ Thread(Main, "running", "dead")       \* ENFILE, ENOBUFS, ...
          /\ UNCHANGED <<connFd, open, cur, backlog, mpc>>
    /\ UNCHANGED <<sockFd, idleFd, arrived, chan>> /\ MainRest

(* next() of the child group, and a SocketChannel for that loop.  next()   *)
(* does not take the mutex_ of PushBack and may run inside a push_back().  *)
(* The array of eventLoops_ is reserve()d and never moves, and next()      *)
(* reads an element below the old size and then the old size or the new    *)
(* one: what it does when the race is lost is what it does before or after *)
(* PushBack.  Only with no element before, there is none of those to read. *)
next == /\ MainAt("next")
        /\ IF eventLoops = << >>
           THEN /\ undefined' = "next"
                /\ UNCHANGED <<chan, nextLoop, mpc, connFd>>
           ELSE /\ chan' = [c \in Connections |->
                              IF c \in cur
                              THEN [NoChannel EXCEPT !.fd = connFd, !.loop = eventLoops[nextLoop]]
                              ELSE chan[c]]
                /\ nextLoop' = IF nextLoop >= Len(eventLoops) THEN 1 ELSE nextLoop + 1
                /\ mpc' = "register" /\ connFd' = kInvalidFd
                /\ UNCHANGED undefined
        /\ UNCHANGED <<thread, running, eventLoops, erasing, user, stopper, fdVars, sockFd,
                       idleFd, cur, clientVars>>

(* initSocketChannel(), whose callback may throw, and the registration     *)
(* with the child's epoll, which may fail and is then only logged.         *)
RegisterChannel ==
    /\ MainAt("register")
    /\ \E c \in cur :
          \/ /\ chan' = [chan EXCEPT ![c].registered = TRUE]
             /\ mpc' = "insert"
             /\ undefined' = IF erasing[chan[c].loop] # {} THEN "channels" ELSE "no"
             /\ UNCHANGED <<thread, cur, open>>
          \/ /\ cur' = {} /\ mpc' = "idle"
             /\ thread' \in {thread, [thread EXCEPT ![Main] = "dead"]}
             /\ Release(c, chan[c])
             /\ UNCHANGED undefined
    /\ UNCHANGED <<running, eventLoops, nextLoop, erasing, user, stopper, otherFds, opens,
                   sockFd, idleFd, connFd, clientVars>>

(* The channel is in channels_, and then its state is ACTIVE.              *)
Insert == /\ MainAt("insert")
          /\ chan' = [c \in Connections |->
                        IF c \in cur THEN [chan[c] EXCEPT !.inChannels = TRUE] ELSE chan[c]]
          /\ mpc' = "active"
          /\ UNCHANGED <<thread, open, sockFd, idleFd, cur, connFd, clientVars>> /\ MainRest

Activate == /\ MainAt("active")
            /\ chan' = [c \in Connections |->
                          IF c \in cur THEN [chan[c] EXCEPT !.active = TRUE] ELSE chan[c]]
            /\ mpc' = "connect"
            /\ UNCHANGED <<thread, open, sockFd, idleFd, cur, connFd, clientVars>> /\ MainRest

(* Connect is fired, on this thread; the child may have ended the channel. *)
FireConnect == /\ MainAt("connect")
               /\ cur' = {} /\ mpc' = "idle"
               /\ \E c \in cur : Release(c, chan[c])
               /\ thread' \in {thread, [thread EXCEPT ![Main] = "dead"]}
               /\ UNCHANGED <<sockFd, idleFd, connFd, clientVars>> /\ MainRest

-----------------------------------------------------------------------------
(* dealwithEMFILE()                                                        *)

CloseIdle == /\ MainAt("closeIdle")
             /\ open' = open \ {idleFd}
             /\ mpc' = "acceptAgain"
             /\ UNCHANGED <<thread, sockFd, idleFd, cur, connFd, clientVars, chan>> /\ MainRest

(* A plausible mistake: the idle descriptor is opened again at once, and   *)
(* accept() fails as before.                                               *)
AcceptAgainLate ==
    /\ MainAt("acceptAgain")
    /\ createIdleFd("idle", "idle")
    /\ UNCHANGED <<thread, sockFd, cur, connFd, clientVars, chan>> /\ MainRest

(* The descriptor that was closed may be another's by now.                 *)
AcceptAgain ==
    /\ MainAt("acceptAgain")
    /\ mpc' = "closeConn"
    /\ IF Full \/ backlog = << >> THEN UNCHANGED <<connFd, open, backlog>>
       ELSE /\ backlog' = Tail(backlog)
            /\ \/ connFd' = FreeFd /\ open' = open \cup {FreeFd}
               \/ UNCHANGED <<connFd, open>>       \* ECONNABORTED
    /\ UNCHANGED <<thread, sockFd, idleFd, cur, arrived, chan>> /\ MainRest

(* A plausible mistake: only the idle descriptor is thought of.            *)
CloseConnForgets == /\ MainAt("closeConn")
                    /\ connFd' = kInvalidFd
                    /\ mpc' = "openIdle"
                    /\ UNCHANGED <<thread, open, sockFd, idleFd, cur, clientVars, chan>> /\ MainRest

CloseConn == /\ MainAt("closeConn")
             /\ open' = open \ {connFd}
             /\ connFd' = kInvalidFd
             /\ mpc' = "openIdle"
             /\ UNCHANGED <<thread, sockFd, idleFd, cur, clientVars, chan>> /\ MainRest

OpenIdle == /\ MainAt("openIdle")
            /\ createIdleFd("idle", "idle")
            /\ UNCHANGED <<thread, sockFd, cur, connFd, clientVars, chan>> /\ MainRest

dealwithEMFILE == CloseIdle \/ AcceptAgain \/ CloseConn \/ OpenIdle

MainStep == \/ doBind \/ BindSocket \/ BindListen \/ accept \/ next \/ RegisterChannel
            \/ Insert \/ Activate \/ FireConnect \/ dealwithEMFILE

-----------------------------------------------------------------------------
(* shutdown(), for instance in a signal handler                            *)

(* EventLoopGroup::shutdown() skips the loops that do not run (yet).       *)
Stop(group) == running' = [l \in Loops |-> running[l] /\ l \notin group]

Stopper(from, to) ==
    /\ stopper = from /\ stopper' = to
    /\ UNCHANGED <<thread, eventLoops, nextLoop, erasing, user, fdVars, mainVars, clientVars,
                   chan, undefined>>

ShutdownCalled == Stopper("idle", "main") /\ UNCHANGED running
ShutdownMain == Stopper("main", "children") /\ Stop({Main})

(* A plausible mistake: the shutdown() of AbstractBootstrap is inherited.  *)
ShutdownChildrenNot == Stopper("children", "done") /\ UNCHANGED running

ShutdownChildren == Stopper("children", "done") /\ Stop(Children)

-----------------------------------------------------------------------------
(* Clients and the rest of the process                                     *)
Connect(c) == /\ Listening /\ c \in setup.clients \ arrived
              /\ arrived' = arrived \cup {c}
              /\ backlog' = Append(backlog, c)
              /\ UNCHANGED <<loopVars, user, stopper, fdVars, mainVars, chan, undefined>>

OtherOpens == /\ ~ Full /\ opens < setup.maxOpens
              /\ open' = open \cup {FreeFd} /\ otherFds' = otherFds \cup {FreeFd}
              /\ opens' = opens + 1
              /\ UNCHANGED <<loopVars, user, stopper, mainVars, clientVars, chan, undefined>>

OtherCloses == \E f \in otherFds :
                  /\ open' = open \ {f} /\ otherFds' = otherFds \ {f}
                  /\ UNCHANGED <<opens, loopVars, user, stopper, mainVars, clientVars, chan,
                                 undefined>>

-----------------------------------------------------------------------------
(* A step of a program whose behaviour is still defined.                   *)
Defined == undefined = "no" /\ UNCHANGED setup

Next == /\ Defined
        /\ \/ UserStep
           \/ \E l \in Loops : PushBack(l) \/ Run(l) \/ EndRun(l)
           \/ \E l \in Children : ChildStep(l)
           \/ MainStep
           \/ ShutdownCalled \/ ShutdownMain \/ ShutdownChildren
           \/ \E c \in Connections : Connect(c)
           \/ OtherOpens \/ OtherCloses

Spec == Init /\ [][Next]_vars

(* All threads are scheduled.  A loop looks at running_ once in a round,   *)
(* so it cannot pass it by for ever (SF).                                  *)
FairSpec == /\ Spec
            /\ WF_vars(Defined /\ UserStep)
            /\ WF_vars(Defined /\ MainStep)
            /\ WF_vars(Defined /\ (ShutdownMain \/ ShutdownChildren))
            /\ \A l \in Loops : /\ WF_vars(Defined /\ (PushBack(l) \/ Run(l)))
                                /\ SF_vars(Defined /\ EndRun(l))
            /\ \A l \in Children : WF_vars(Defined /\ \E c \in Connections : EndErase(l, c))

-----------------------------------------------------------------------------
(* Who has to close a descriptor: the ServerSocketChannel for two of them, *)
(* a SocketChannel that somebody still points to, handleReadEvent() or     *)
(* dealwithEMFILE() for the one in hand, and the rest of the process.      *)
IdleClosed == mpc \in {"acceptAgain", "closeConn", "openIdle"}

Referenced(c) == c \in cur \/ chan[c].inChannels \/ chan[c].task

Owners(f) == {"sockFd" : x \in {g \in {sockFd} : g = f}}
                \cup {"idleFd" : x \in {g \in {idleFd} : g = f /\ ~ IdleClosed}}
                \cup {"connFd" : x \in {g \in {connFd} : g = f}}
                \cup {"other" : x \in {g \in otherFds : g = f}}
                \cup {c \in Connections : chan[c].fd = f /\ Referenced(c)}

(* Every open descriptor has one owner, and nobody holds one that has been *)
(* closed and may be in use again: through failed binds, exceptions,       *)
(* failed registrations, the exchange of the idle descriptor, and the race *)
(* of two threads to let go of a channel last.                             *)
DescriptorsOwned ==
    undefined = "no" =>
        \A f \in Fds : Cardinality(Owners(f)) = IF f \in open THEN 1 ELSE 0

(* A connection in the backlog is accepted or refused, also when there are *)
(* no descriptors left, as long as the main loop runs and others have not  *)
(* taken the idle descriptor while it was closed.                          *)
BacklogDrains ==
    \A c \in Connections :
        (\E i \in 1 .. Len(backlog) : backlog[i] = c)
            ~> \/ \A i \in 1 .. Len(backlog) : backlog[i] # c
               \/ thread[Main] # "running" \/ ~ running[Main]
               \/ idleFd = kInvalidFd
               \/ undefined # "no"

(* shutdown(), called when all loops have begun to run, ends them all and  *)
(* lets sync() return, whatever connections are there and whichever loops  *)
(* were left by an exception.                                              *)
ShutdownStops ==
    (stopper = "main" /\ user = "syncMain" /\ \A l \in Loops : thread[l] # "pushed")
        ~> (user = "returned" \/ undefined # "no")

(* No thread changes channels_ of a loop while another does: an EventLoop  *)
(* manages the channels of its own thread.                                 *)
ChannelsExclusive == undefined # "channels"
=============================================================================
