---------------------- MODULE ConnectorChannel_proofs -----------------------
(***************************************************************************)
(* Proofs about ConnectorChannel, for any number of connectors and of      *)
(* descriptors: every open descriptor has one owner, channels_ and epoll   *)
(* agree, only established connections are handed over, and a connector    *)
(* makes one attempt at a time.                                            *)
(***************************************************************************)
EXTENDS ConnectorChannel, FiniteSetTheorems, SequenceTheorems, TLAPS

-----------------------------------------------------------------------------
(* The inductive invariant.                                                *)

Tasks == [task : {"doConnect", "reconnect", "deregister"}, channel : Connectors]

TypeOK == /\ life \in [Connectors -> {"new", "submitted", "alive", "destroyed"}]
          /\ state \in [Connectors -> {"DISCONNECTED", "CONNECTING", "CONNECTED"}]
          /\ sockFd \in [Connectors -> Fds \cup {kInvalidFd}]
          /\ isRegistered \in [Connectors -> BOOLEAN]
          /\ sock \in [Fds -> {"closed", "connecting", "established", "refused", "failed"}]
          /\ channels \in [Fds -> Connectors \cup {NoChannel, SocketChannel}]
          /\ epoll \in [Fds -> Connectors \cup {NoChannel, SocketChannel}]
          /\ timers \in [Connectors -> Nat]
          /\ tasks \in Seq(Tasks)
          /\ batch \in Seq(Tasks)
          /\ held \subseteq Connectors
          /\ ready \subseteq Connectors

(* The connectors that a sequence of tasks is for; each is there once.     *)
Queued(s) == {s[i].channel : i \in 1 .. Len(s)}
Distinct(s) == \A i, j \in 1 .. Len(s) : s[i].channel = s[j].channel => i = j

(* A task is the first one of its connector or deals with an error.        *)
RightKind(s, l) ==
    \A i \in 1 .. Len(s) : s[i].task = "doConnect" <=> l[s[i].channel] = "submitted"

Queues == /\ Distinct(tasks) /\ Distinct(batch)
          /\ Queued(tasks) \cap Queued(batch) = {}
          /\ RightKind(tasks, life) /\ RightKind(batch, life)

(* What the phases of a round of the loop leave behind.                    *)
Phases == /\ phase # "tasks" => batch = << >> /\ held = {}
          /\ phase # "events" => ready = {}
          /\ phase \in {"tasks", "poll"} => \A c \in Queued(tasks) : life[c] = "submitted"

(* Where a connector can be.                                               *)
Resting(c) == sockFd[c] = kInvalidFd /\ ~ isRegistered[c]

Connecting(c) == /\ life[c] = "alive" /\ state[c] = "CONNECTING" /\ timers[c] = 0
                 /\ sockFd[c] \in Fds /\ sock[sockFd[c]] # "closed"
                 /\ channels[sockFd[c]] = c /\ isRegistered[c]

AwaitsTimer(c) == /\ life[c] = "alive" /\ state[c] = "DISCONNECTED" /\ timers[c] = 1
                  /\ Resting(c)

(* Deregistered for good; it closes its descriptor when tmpTasks goes.     *)
Deregistered(c) == /\ life[c] = "alive" /\ state[c] = "CONNECTING" /\ timers[c] = 0
                   /\ sockFd[c] \in Fds /\ sock[sockFd[c]] # "closed"
                   /\ channels[sockFd[c]] = NoChannel /\ ~ isRegistered[c]
                   /\ c \in held

LocatedAt(c) ==
    /\ life[c] \in {"new", "submitted"} => Resting(c) /\ state[c] = "DISCONNECTED"
                                            /\ timers[c] = 0
    /\ life[c] = "alive" => Connecting(c) \/ AwaitsTimer(c) \/ Deregistered(c)
    /\ life[c] = "destroyed" => Resting(c) /\ timers[c] = 0

Located == \A c \in Connectors : LocatedAt(c)

HeldApart == \A c \in held : AwaitsTimer(c) \/ Deregistered(c)

(* Descriptors are not shared, and none is left open behind.               *)
FdsApart == \A c, d \in Connectors : sockFd[c] = sockFd[d] /\ sockFd[c] \in Fds => c = d

OwnedAt(f) == sock[f] # "closed" =>
                  channels[f] = SocketChannel \/ \E c \in Connectors : sockFd[c] = f

OpenIsOwned == \A f \in Fds : OwnedAt(f)

TableAt(f) == /\ epoll[f] = channels[f]
              /\ channels[f] # NoChannel => sock[f] # "closed"
              /\ channels[f] = SocketChannel => sock[f] = "established"
              /\ channels[f] \in Connectors => sockFd[channels[f]] = f

Tables == \A f \in Fds : TableAt(f)

(* The tasks of a connector after the first one are about its failed       *)
(* attempt, and it is only reported with one that is not yet seen to fail. *)
AllQueued == Queued(tasks) \cup Queued(batch)

QueuedAt(c) == life[c] = "submitted" \/ (Connecting(c) /\ sock[sockFd[c]] = "failed")
FailedAt(f) == channels[f] \in Connectors /\ sock[f] = "failed" => channels[f] \in AllQueued
ReadyAt(c) == Connecting(c) /\ sock[sockFd[c]] \in {"established", "refused"}

Reported == /\ \A c \in AllQueued : QueuedAt(c)
            /\ \A f \in Fds : FailedAt(f)
            /\ \A c \in ready : ReadyAt(c)

IInv == /\ TypeOK
        /\ Queues
        /\ Phases
        /\ Located
        /\ HeldApart
        /\ FdsApart
        /\ OpenIsOwned
        /\ Tables
        /\ Reported
-----------------------------------------------------------------------------
(* Sequences of tasks.                                                     *)

LEMMA QueuedType ==
    ASSUME NEW s \in Seq(Tasks)
    PROVE  Queued(s) \subseteq Connectors
  <1>1. \A i \in 1 .. Len(s) : s[i] \in Tasks
    BY ElementOfSeq
  <1>2. \A i \in 1 .. Len(s) : s[i].channel \in Connectors
    BY <1>1 DEF Tasks
  <1> QED
    BY <1>2 DEF Queued

LEMMA QueuedAppend ==
    ASSUME NEW s \in Seq(Tasks), NEW x \in Tasks, Distinct(s), x.channel \notin Queued(s)
    PROVE  /\ Append(s, x) \in Seq(Tasks)
           /\ Queued(Append(s, x)) = Queued(s) \cup {x.channel}
           /\ Distinct(Append(s, x))
  <1> DEFINE t == Append(s, x)
  <1>1. /\ t \in Seq(Tasks) /\ Len(t) = Len(s) + 1 /\ Len(s) \in Nat
        /\ \A i \in 1 .. Len(s) : t[i] = s[i]
        /\ t[Len(s) + 1] = x
    BY AppendProperties, LenProperties
  <1> HIDE DEF t
  <1>2. Queued(t) = Queued(s) \cup {x.channel}
    <2>1. \A i \in 1 .. Len(t) : t[i].channel \in Queued(s) \cup {x.channel}
      BY <1>1 DEF Queued
    <2>2. \A i \in 1 .. Len(s) : s[i].channel \in Queued(t)
      BY <1>1 DEF Queued
    <2>3. x.channel \in Queued(t)
      BY <1>1 DEF Queued
    <2> QED
      BY <2>1, <2>2, <2>3 DEF Queued
  <1>3. Distinct(t)
    <2>1. \A i \in 1 .. Len(s) : t[i].channel \in Queued(s)
      BY <1>1 DEF Queued
    <2> QED
      BY <1>1, <2>1 DEF Distinct
  <1> QED
    BY <1>1, <1>2, <1>3 DEF t

LEMMA QueuedTail ==
    ASSUME NEW s \in Seq(Tasks), s # << >>, Distinct(s)
    PROVE  /\ Tail(s) \in Seq(Tasks) /\ Head(s) \in Tasks
           /\ Head(s).channel \in Queued(s)
           /\ Queued(Tail(s)) = Queued(s) \ {Head(s).channel}
           /\ Distinct(Tail(s))
  <1> DEFINE t == Tail(s)
  <1>1. /\ t \in Seq(Tasks) /\ Len(t) = Len(s) - 1 /\ Len(s) \in Nat /\ Len(s) >= 1
        /\ \A i \in 1 .. Len(t) : t[i] = s[i + 1]
        /\ Head(s) = s[1] /\ Head(s) \in Tasks
    BY HeadTailProperties, LenProperties, EmptySeq
  <1> HIDE DEF t
  <1>2. Head(s).channel \in Queued(s)
    BY <1>1 DEF Queued
  <1>3. \A i \in 1 .. Len(t) : t[i].channel \in Queued(s) \ {Head(s).channel}
    <2> TAKE i \in 1 .. Len(t)
    <2>1. i + 1 \in 1 .. Len(s) /\ t[i] = s[i + 1] /\ i + 1 # 1 /\ 1 \in 1 .. Len(s)
      BY <1>1
    <2> QED
      BY <1>1, <2>1 DEF Queued, Distinct
  <1>4. \A i \in 1 .. Len(s) : s[i].channel \in Queued(t) \cup {Head(s).channel}
    <2> TAKE i \in 1 .. Len(s)
    <2>1. CASE i = 1
      BY <1>1, <2>1
    <2>2. CASE i # 1
      <3>1. i - 1 \in 1 .. Len(t) /\ t[i - 1] = s[(i - 1) + 1] /\ (i - 1) + 1 = i
        BY <1>1, <2>2
      <3> QED
        BY <3>1 DEF Queued
    <2> QED
      BY <2>1, <2>2
  <1>5. Queued(t) = Queued(s) \ {Head(s).channel}
    BY <1>3, <1>4 DEF Queued
  <1>6. Distinct(t)
    <2> SUFFICES ASSUME NEW i \in 1 .. Len(t), NEW j \in 1 .. Len(t),
                        t[i].channel = t[j].channel
                 PROVE  i = j
      BY DEF Distinct
    <2>1. i + 1 \in 1 .. Len(s) /\ j + 1 \in 1 .. Len(s)
          /\ s[i + 1].channel = s[j + 1].channel
      BY <1>1
    <2>2. i + 1 = j + 1
      BY <2>1 DEF Distinct
    <2> QED
      BY <2>2
  <1> QED
    BY <1>1, <1>2, <1>5, <1>6 DEF t

LEMMA QueuedEmpty ==
    Queued(<< >>) = {} /\ Distinct(<< >>) /\ \A l : RightKind(<< >>, l)
  BY DEF Queued, Distinct, RightKind

LEMMA KindKept ==
    ASSUME NEW s, NEW l, NEW l2, RightKind(s, l),
           \A d \in Queued(s) : l2[d] = "submitted" <=> l[d] = "submitted"
    PROVE  RightKind(s, l2)
  BY DEF RightKind, Queued

LEMMA KindAppend ==
    ASSUME NEW s \in Seq(Tasks), NEW x \in Tasks, NEW l, RightKind(s, l),
           x.task = "doConnect" <=> l[x.channel] = "submitted"
    PROVE  RightKind(Append(s, x), l)
  <1> DEFINE t == Append(s, x)
  <1>1. /\ Len(t) = Len(s) + 1 /\ Len(s) \in Nat
        /\ \A i \in 1 .. Len(s) : t[i] = s[i]
        /\ t[Len(s) + 1] = x
    BY AppendProperties, LenProperties
  <1> HIDE DEF t
  <1>2. RightKind(t, l)
    BY <1>1 DEF RightKind
  <1> QED
    BY <1>2 DEF t

LEMMA KindTail ==
    ASSUME NEW s \in Seq(Tasks), s # << >>, NEW l, RightKind(s, l)
    PROVE  RightKind(Tail(s), l)
  <1> DEFINE t == Tail(s)
  <1>1. /\ Len(t) = Len(s) - 1 /\ Len(s) \in Nat /\ Len(s) >= 1
        /\ \A i \in 1 .. Len(t) : t[i] = s[i + 1]
    BY HeadTailProperties, LenProperties, EmptySeq
  <1> HIDE DEF t
  <1>2. RightKind(t, l)
    <2> SUFFICES ASSUME NEW i \in 1 .. Len(t)
                 PROVE  t[i].task = "doConnect" <=> l[t[i].channel] = "submitted"
      BY DEF RightKind
    <2>1. i + 1 \in 1 .. Len(s) /\ t[i] = s[i + 1]
      BY <1>1
    <2> QED
      BY <2>1 DEF RightKind
  <1> QED
    BY <1>2 DEF t

-----------------------------------------------------------------------------
(* A step that is about one connector and its descriptor, or only one of   *)
(* the two.                                                                *)

Frame(c, f) ==
    /\ \A d \in Connectors \ {c} :
           /\ life'[d] = life[d] /\ state'[d] = state[d] /\ timers'[d] = timers[d]
           /\ sockFd'[d] = sockFd[d] /\ isRegistered'[d] = isRegistered[d]
    /\ \A g \in Fds \ {f} :
           sock'[g] = sock[g] /\ channels'[g] = channels[g] /\ epoll'[g] = epoll[g]

LEMMA LocalStep ==
    ASSUME IInv, NEW c, NEW f, Frame(c, f), TypeOK', Queues', Phases',
           f \in Fds => /\ \A d \in Connectors \ {c} : sockFd[d] # f
                       /\ OwnedAt(f)' /\ TableAt(f)' /\ FailedAt(f)',
           c \in Connectors => /\ sockFd[c] \in {f, kInvalidFd}
                              /\ sockFd'[c] \in {f, kInvalidFd}
                              /\ LocatedAt(c)',
           held' \ {c} = held \ {c}, c \in held' => AwaitsTimer(c)' \/ Deregistered(c)',
           AllQueued' \ {c} = AllQueued \ {c}, c \in AllQueued' => QueuedAt(c)',
           ready' \ {c} \subseteq ready, c \in ready' => ReadyAt(c)'
    PROVE  IInv'
  <1> USE ConnectorAssumption
  <1>1. \A d \in Connectors \ {c} :
            /\ Connecting(d) => Connecting(d)' /\ sock'[sockFd'[d]] = sock[sockFd[d]]
            /\ AwaitsTimer(d) => AwaitsTimer(d)'
            /\ Deregistered(d) => Deregistered(d)'
            /\ Resting(d) => Resting(d)'
    <2> SUFFICES ASSUME NEW d \in Connectors \ {c}
                 PROVE  /\ Connecting(d) => Connecting(d)' /\ sock'[sockFd'[d]] = sock[sockFd[d]]
                        /\ AwaitsTimer(d) => AwaitsTimer(d)'
                        /\ Deregistered(d) => Deregistered(d)'
                        /\ Resting(d) => Resting(d)'
      BY Zenon
    <2>1. /\ life'[d] = life[d] /\ state'[d] = state[d] /\ timers'[d] = timers[d]
          /\ sockFd'[d] = sockFd[d] /\ isRegistered'[d] = isRegistered[d]
          /\ (d \in held' <=> d \in held)
      BY DEF Frame
    <2>2. sockFd[d] \in Fds => sock'[sockFd[d]] = sock[sockFd[d]]
                                 /\ channels'[sockFd[d]] = channels[sockFd[d]]
      BY DEF Frame
    <2> QED
      BY <2>1, <2>2 DEF Connecting, AwaitsTimer, Deregistered, Resting
  <1>2. Located'
    <2> SUFFICES ASSUME NEW d \in Connectors \ {c} PROVE LocatedAt(d)'
      BY DEF Located
    <2>1. LocatedAt(d)
      BY DEF IInv, Located
    <2>2. life'[d] = life[d] /\ state'[d] = state[d] /\ timers'[d] = timers[d]
      BY DEF Frame
    <2> QED
      BY <1>1, <2>1, <2>2 DEF LocatedAt
  <1>3. HeldApart'
    <2> SUFFICES ASSUME NEW d \in held', d # c PROVE AwaitsTimer(d)' \/ Deregistered(d)'
      BY DEF HeldApart
    <2>1. d \in held /\ d \in Connectors
      BY DEF IInv, TypeOK
    <2> QED
      BY <1>1, <2>1 DEF IInv, HeldApart
  <1>4. FdsApart'
    BY DEF IInv, FdsApart, Frame
  <1>5. OpenIsOwned'
    <2> SUFFICES ASSUME NEW g \in Fds \ {f} PROVE OwnedAt(g)'
      BY DEF OpenIsOwned
    <2>1. OwnedAt(g) /\ sock'[g] = sock[g] /\ channels'[g] = channels[g]
      BY DEF IInv, OpenIsOwned, Frame
    <2>2. \A d \in Connectors : sockFd[d] = g => sockFd'[d] = g
      BY DEF Frame
    <2> QED
      BY <2>1, <2>2 DEF OwnedAt
  <1>6. \A g \in Fds \ {f} : channels'[g] \in Connectors => channels'[g] # c
    BY DEF IInv, Tables, TableAt, Frame
  <1>7. Tables'
    <2> SUFFICES ASSUME NEW g \in Fds \ {f} PROVE TableAt(g)'
      BY DEF Tables
    <2>1. TableAt(g) /\ sock'[g] = sock[g] /\ channels'[g] = channels[g] /\ epoll'[g] = epoll[g]
      BY DEF IInv, Tables, Frame
    <2>2. channels[g] \in Connectors => sockFd'[channels[g]] = sockFd[channels[g]]
      BY <1>6, <2>1 DEF Frame
    <2> QED
      BY <2>1, <2>2 DEF TableAt
  <1>8. Reported'
    <2>1. ASSUME NEW d \in AllQueued', d # c PROVE QueuedAt(d)'
      <3>1. d \in AllQueued /\ d \in Connectors
        BY <2>1, QueuedType DEF IInv, TypeOK, AllQueued
      <3>2. QueuedAt(d) /\ life'[d] = life[d]
        BY <2>1, <3>1 DEF IInv, Reported, Frame
      <3> QED
        BY <1>1, <2>1, <3>1, <3>2 DEF QueuedAt
    <2>2. ASSUME NEW g \in Fds \ {f} PROVE FailedAt(g)'
      <3>1. FailedAt(g) /\ sock'[g] = sock[g] /\ channels'[g] = channels[g]
        BY DEF IInv, Reported, Frame
      <3> QED
        BY <1>6, <3>1 DEF FailedAt
    <2>3. ASSUME NEW d \in ready', d # c PROVE ReadyAt(d)'
      <3>1. d \in Connectors /\ ReadyAt(d)
        BY <2>3 DEF IInv, TypeOK, Reported
      <3> QED
        BY <1>1, <2>3, <3>1 DEF ReadyAt
    <2> QED
      BY <2>1, <2>2, <2>3 DEF Reported
  <1> QED
    BY <1>2, <1>3, <1>4, <1>5, <1>7, <1>8 DEF IInv

(* Nobody knows a closed descriptor.                                       *)
LEMMA ClosedIsFree ==
    ASSUME IInv, NEW f \in Fds, sock[f] = "closed"
    PROVE  /\ channels[f] = NoChannel /\ epoll[f] = NoChannel
           /\ \A d \in Connectors : sockFd[d] # f
  <1>1. TableAt(f)
    BY DEF IInv, Tables
  <1>2. ASSUME NEW d \in Connectors, sockFd[d] = f PROVE FALSE
    <2>1. LocatedAt(d) /\ life[d] \in {"new", "submitted", "alive", "destroyed"}
      BY DEF IInv, Located, TypeOK
    <2> QED
      BY <1>2, <2>1, ConnectorAssumption
         DEF LocatedAt, Resting, Connecting, AwaitsTimer, Deregistered
  <1> QED
    BY <1>1, <1>2 DEF TableAt

(* A connector that is not about to connect is not among the channels.     *)
LEMMA RestingIsNowhere ==
    ASSUME IInv, NEW c \in Connectors, sockFd[c] = kInvalidFd
    PROVE  \A f \in Fds : channels[f] # c
  BY ConnectorAssumption DEF IInv, Tables, TableAt

(* A connector of which nobody else knows anything more makes an attempt.  *)
Attempts(c, left) ==
    /\ left \in [Connectors -> Nat] /\ left[c] = 0
    /\ \A d \in Connectors \ {c} : left[d] = timers[d]
    /\ life[c] \in {"submitted", "alive"} /\ state[c] = "DISCONNECTED" /\ Resting(c)
    /\ c \notin held /\ c \notin ready

(* What the attempt leaves of the queues and phases.                       *)
AttemptLoop(c) ==
    /\ tasks' \in Seq(Tasks) /\ batch' \in Seq(Tasks)
    /\ Distinct(tasks') /\ Distinct(batch')
    /\ Queued(tasks') = Queued(tasks) \ {c} /\ Queued(batch') = Queued(batch) \ {c}
    /\ RightKind(tasks', life) /\ RightKind(batch', life)
    /\ held' = held /\ ready' = ready
    /\ phase' # "tasks" => batch' = << >> /\ held = {}
    /\ phase' # "events" => ready = {}
    /\ phase' \in {"tasks", "poll"} => phase \in {"tasks", "poll"}

LEMMA AttemptQueues ==
    ASSUME IInv, NEW c \in Connectors, AttemptLoop(c),
           \A d \in Connectors \ {c} : life'[d] = life[d]
    PROVE  /\ Queues' /\ Phases'
           /\ AllQueued' = AllQueued \ {c}
  <1>1. Queued(tasks') \subseteq Connectors \ {c} /\ Queued(batch') \subseteq Connectors \ {c}
    BY QueuedType DEF AttemptLoop, IInv, TypeOK
  <1>2. RightKind(tasks', life') /\ RightKind(batch', life')
    BY <1>1, KindKept DEF AttemptLoop
  <1>3. Queues'
    BY <1>2 DEF AttemptLoop, Queues, IInv
  <1>4. Phases'
    BY <1>1 DEF AttemptLoop, Phases, IInv
  <1> QED
    BY <1>3, <1>4 DEF AttemptLoop, AllQueued

LEMMA AttemptStep ==
    ASSUME IInv, NEW c \in Connectors, NEW left, Attempts(c, left), AttemptLoop(c),
           connect(c, left) \/ NoDescriptor(c, left)
    PROVE  IInv'
  <1> USE ConnectorAssumption
  <1>t. TypeOK /\ (life[c] = "alive" \/ life[c] = "submitted")
    BY DEF IInv, Attempts
  <1>c. /\ sockFd[c] = kInvalidFd /\ ~ isRegistered[c] /\ state[c] = "DISCONNECTED"
        /\ \A g \in Fds : channels[g] # c
    BY RestingIsNowhere DEF Attempts, Resting
  <1>l. /\ left \in [Connectors -> Nat] /\ left[c] = 0
        /\ \A d \in Connectors \ {c} : left[d] = timers[d]
    BY DEF Attempts
  <1>h. held' = held /\ ready' = ready /\ c \notin held /\ c \notin ready
    BY DEF AttemptLoop, Attempts
  <1>s. tasks' \in Seq(Tasks) /\ batch' \in Seq(Tasks) /\ held' \subseteq Connectors
        /\ ready' \subseteq Connectors
    BY <1>h, <1>t DEF AttemptLoop, TypeOK
  <1>q. ASSUME \A d \in Connectors \ {c} : life'[d] = life[d]
        PROVE  Queues' /\ Phases' /\ AllQueued' = AllQueued \ {c}
    BY <1>q, AttemptQueues
  <1>1. CASE NoDescriptor(c, left)
    <2>1. /\ life' = Set(life, c, "destroyed") /\ timers' = left
          /\ UNCHANGED <<state, sockFd, isRegistered, sock, channels, epoll>>
      BY <1>1 DEF NoDescriptor, tableVars
    <2>2. Frame(c, kInvalidFd)
      BY <1>t, <1>l, <2>1 DEF Frame, Set, TypeOK
    <2>3. TypeOK'
      BY <1>t, <1>l, <1>s, <2>1 DEF TypeOK, Set
    <2>4. LocatedAt(c)'
      BY <1>t, <1>c, <1>l, <2>1 DEF LocatedAt, Resting, Set, TypeOK
    <2>5. Queues' /\ Phases' /\ AllQueued' = AllQueued \ {c}
      BY <1>q, <2>2 DEF Frame
    <2> QED
      BY <1>c, <1>h, <2>1, <2>2, <2>3, <2>4, <2>5, LocalStep
  <1>2. CASE connect(c, left)
    <2>0. PICK f \in Fds :
        /\ sock[f] = "closed"
        /\ \/ ConnectedAtOnce(c, f) /\ timers' = left
           \/ waitConnect(c, f, left)
           \/ /\ reconnect(c, f, left)
              /\ UNCHANGED <<isRegistered, tableVars>>
           \/ /\ GiveUp(c, f, left)
              /\ UNCHANGED <<isRegistered, tableVars>>
      BY <1>2 DEF connect
    <2>f. /\ channels[f] = NoChannel /\ epoll[f] = NoChannel
          /\ \A d \in Connectors : sockFd[d] # f
      BY <2>0, ClosedIsFree
    <2>d. ASSUME Frame(c, f), TypeOK', LocatedAt(c)', OwnedAt(f)', TableAt(f)', FailedAt(f)',
                 sockFd'[c] \in {f, kInvalidFd}
          PROVE  IInv'
      <3>1. Queues' /\ Phases' /\ AllQueued' = AllQueued \ {c}
        BY <1>q, <2>d DEF Frame
      <3> QED
        BY <1>c, <1>h, <2>d, <2>f, <3>1, LocalStep
    <2>1. CASE ConnectedAtOnce(c, f) /\ timers' = left
      <3>1. /\ state' = Set(state, c, "CONNECTED") /\ life' = Set(life, c, "destroyed")
            /\ sockFd' = sockFd /\ isRegistered' = isRegistered /\ timers' = left
        BY <2>1 DEF ConnectedAtOnce
      <3>2. PICK registered \in BOOLEAN :
                /\ sock' = Set(sock, f, IF registered THEN "established" ELSE "closed")
                /\ channels' = Set(channels, f, IF registered THEN SocketChannel ELSE NoChannel)
                /\ epoll' = Set(epoll, f, IF registered THEN SocketChannel ELSE NoChannel)
        BY <2>1 DEF ConnectedAtOnce, channelActive
      <3>3. \/ /\ sock' = Set(sock, f, "established")
               /\ channels' = Set(channels, f, SocketChannel)
               /\ epoll' = Set(epoll, f, SocketChannel)
            \/ /\ sock' = Set(sock, f, "closed")
               /\ channels' = Set(channels, f, NoChannel)
               /\ epoll' = Set(epoll, f, NoChannel)
        BY <3>2
      <3>4. Frame(c, f)
        BY <1>t, <1>l, <3>1, <3>3 DEF Frame, Set, TypeOK
      <3>5. TypeOK'
        BY <1>t, <1>l, <1>s, <3>1, <3>3 DEF TypeOK, Set
      <3>6. LocatedAt(c)'
        BY <1>t, <1>c, <1>l, <3>1 DEF LocatedAt, Resting, Set, TypeOK
      <3>7. OwnedAt(f)' /\ TableAt(f)' /\ FailedAt(f)'
        BY <1>t, <3>3 DEF OwnedAt, TableAt, FailedAt, Set, TypeOK
      <3> QED
        BY <1>c, <2>d, <3>1, <3>4, <3>5, <3>6, <3>7
    <2>2. CASE Registered(c, f) /\ timers' = left
      <3>1. /\ sock' = Set(sock, f, "connecting") /\ sockFd' = Set(sockFd, c, f)
            /\ isRegistered' = Set(isRegistered, c, TRUE)
            /\ channels' = Set(channels, f, c) /\ epoll' = Set(epoll, f, c)
            /\ state' = Set(state, c, "CONNECTING") /\ life' = Set(life, c, "alive")
            /\ timers' = left
        BY <2>2 DEF Registered, Enter
      <3>2. Frame(c, f)
        BY <1>t, <1>l, <3>1 DEF Frame, Set, TypeOK
      <3>3. TypeOK'
        BY <1>t, <1>l, <1>s, <3>1 DEF TypeOK, Set
      <3>4. /\ life'[c] = "alive" /\ state'[c] = "CONNECTING" /\ sockFd'[c] = f
            /\ isRegistered'[c] /\ timers'[c] = 0
            /\ sock'[f] = "connecting" /\ channels'[f] = c /\ epoll'[f] = c
        BY <1>t, <1>l, <3>1 DEF TypeOK, Set
      <3>5. LocatedAt(c)'
        BY <3>4 DEF LocatedAt, Connecting
      <3>6. OwnedAt(f)' /\ TableAt(f)' /\ FailedAt(f)'
        BY <3>4 DEF OwnedAt, TableAt, FailedAt
      <3> QED
        BY <2>d, <3>2, <3>3, <3>4, <3>5, <3>6
    <2>3. CASE reconnect(c, f, left) /\ UNCHANGED <<isRegistered, channels, epoll>>
      <3>1. /\ sock' = Set(sock, f, "closed") /\ sockFd' = Set(sockFd, c, kInvalidFd)
            /\ state' = Set(state, c, "DISCONNECTED") /\ life' = Set(life, c, "alive")
            /\ timers' = [left EXCEPT ![c] = @ + 1]
            /\ UNCHANGED <<isRegistered, channels, epoll>>
        BY <2>3 DEF reconnect, Schedule
      <3>2. Frame(c, f)
        BY <1>t, <1>l, <3>1 DEF Frame, Set, TypeOK
      <3>3. TypeOK'
        BY <1>t, <1>l, <1>s, <3>1 DEF TypeOK, Set
      <3>4. /\ life'[c] = "alive" /\ state'[c] = "DISCONNECTED" /\ sockFd'[c] = kInvalidFd
            /\ timers'[c] = 1 /\ ~ isRegistered'[c]
            /\ sock'[f] = "closed" /\ channels'[f] = NoChannel /\ epoll'[f] = NoChannel
        BY <1>t, <1>c, <1>l, <2>f, <3>1 DEF TypeOK, Set
      <3>5. LocatedAt(c)'
        BY <3>4 DEF LocatedAt, AwaitsTimer, Resting
      <3>6. OwnedAt(f)' /\ TableAt(f)' /\ FailedAt(f)'
        BY <3>4 DEF OwnedAt, TableAt, FailedAt
      <3> QED
        BY <2>d, <3>2, <3>3, <3>4, <3>5, <3>6
    <2>4. CASE GiveUp(c, f, left) /\ UNCHANGED <<isRegistered, channels, epoll>>
      <3>1. /\ sock' = Set(sock, f, "closed") /\ sockFd' = Set(sockFd, c, kInvalidFd)
            /\ state' = state /\ life' = Set(life, c, "destroyed") /\ timers' = left
            /\ UNCHANGED <<isRegistered, channels, epoll>>
        BY <2>4 DEF GiveUp
      <3>2. Frame(c, f)
        BY <1>t, <1>l, <3>1 DEF Frame, Set, TypeOK
      <3>3. TypeOK'
        BY <1>t, <1>l, <1>s, <3>1 DEF TypeOK, Set
      <3>4. /\ life'[c] = "destroyed" /\ sockFd'[c] = kInvalidFd
            /\ timers'[c] = 0 /\ ~ isRegistered'[c]
            /\ sock'[f] = "closed" /\ channels'[f] = NoChannel /\ epoll'[f] = NoChannel
        BY <1>t, <1>c, <1>l, <2>f, <3>1 DEF TypeOK, Set
      <3>5. LocatedAt(c)'
        BY <3>4 DEF LocatedAt, Resting
      <3>6. OwnedAt(f)' /\ TableAt(f)' /\ FailedAt(f)'
        BY <3>4 DEF OwnedAt, TableAt, FailedAt
      <3> QED
        BY <2>d, <3>2, <3>3, <3>4, <3>5, <3>6
    <2> QED
      BY <2>0, <2>1, <2>2, <2>3, <2>4 DEF waitConnect, NotRegistered, tableVars
  <1> QED
    BY <1>1, <1>2

(* doConnect() and the timer make attempts.                                *)
LEMMA ReconnectTimerStep ==
    ASSUME IInv, NEW c \in Connectors, ReconnectTimer(c)
    PROVE  IInv'
  <1> DEFINE left == [timers EXCEPT ![c] = @ - 1]
  <1>1. /\ phase = "timers" /\ timers[c] > 0
        /\ connect(c, left) \/ NoDescriptor(c, left)
        /\ phase' \in {"timers", "crashed"}
        /\ UNCHANGED <<tasks, batch, held, ready>>
    BY DEF ReconnectTimer
  <1>2. LocatedAt(c) /\ life[c] \in {"new", "submitted", "alive", "destroyed"}
        /\ timers \in [Connectors -> Nat]
    BY DEF IInv, Located, TypeOK
  <1>3. AwaitsTimer(c)
    BY <1>1, <1>2 DEF LocatedAt, Connecting, Deregistered
  <1>4. batch = << >> /\ held = {} /\ ready = {}
    BY <1>1 DEF IInv, Phases
  <1>5. Attempts(c, left)
    BY <1>2, <1>3, <1>4 DEF Attempts, AwaitsTimer
  <1>6. c \notin AllQueued
    BY <1>3 DEF IInv, Reported, QueuedAt, Connecting, AwaitsTimer
  <1>7. AttemptLoop(c)
    BY <1>1, <1>4, <1>6 DEF AttemptLoop, AllQueued, IInv, TypeOK, Queues
  <1> HIDE DEF left
  <1> QED
    BY <1>1, <1>5, <1>7, AttemptStep

LEMMA NextTaskQueues ==
    ASSUME IInv, NEW c \in Connectors, NEW task, NextTask(task, c), tasks' = tasks
    PROVE  /\ batch' \in Seq(Tasks) /\ Distinct(batch') /\ RightKind(batch', life)
           /\ c \in Queued(batch) /\ c \notin Queued(tasks)
           /\ Queued(batch') = Queued(batch) \ {c}
           /\ task = "doConnect" <=> life[c] = "submitted"
  <1>1. /\ batch \in Seq(Tasks) /\ batch # << >> /\ Distinct(batch) /\ RightKind(batch, life)
        /\ batch' = Tail(batch) /\ Head(batch) = [task |-> task, channel |-> c]
        /\ Queued(tasks) \cap Queued(batch) = {}
    BY DEF IInv, TypeOK, Queues, NextTask
  <1>2. Head(batch).channel = c /\ Head(batch).task = task
    BY <1>1
  <1>3. Head(batch) = batch[1] /\ 1 \in 1 .. Len(batch)
    BY <1>1, HeadTailProperties, EmptySeq, LenProperties
  <1>4. task = "doConnect" <=> life[c] = "submitted"
    BY <1>1, <1>2, <1>3 DEF RightKind
  <1> QED
    BY <1>1, <1>2, <1>4, QueuedTail, KindTail

LEMMA DoConnectStep ==
    ASSUME IInv, NEW c \in Connectors, doConnect(c)
    PROVE  IInv'
  <1>1. /\ NextTask("doConnect", c) /\ phase = "tasks"
        /\ connect(c, timers) \/ NoDescriptor(c, timers)
        /\ UNCHANGED <<tasks, held, ready, phase>>
    BY DEF doConnect, NextTask
  <1>2. /\ batch' \in Seq(Tasks) /\ Distinct(batch') /\ RightKind(batch', life)
        /\ c \notin Queued(tasks) /\ Queued(batch') = Queued(batch) \ {c}
        /\ life[c] = "submitted"
    BY <1>1, NextTaskQueues
  <1>3. LocatedAt(c) /\ timers \in [Connectors -> Nat]
    BY DEF IInv, Located, TypeOK
  <1>4. c \notin held /\ c \notin ready
    BY <1>2 DEF IInv, HeldApart, Reported, ReadyAt, AwaitsTimer, Deregistered, Connecting
  <1>5. Attempts(c, timers)
    BY <1>2, <1>3, <1>4 DEF Attempts, LocatedAt
  <1>6. AttemptLoop(c)
    BY <1>1, <1>2 DEF AttemptLoop, IInv, TypeOK, Queues, Phases
  <1> QED
    BY <1>1, <1>5, <1>6, AttemptStep

(* The other tasks: the connector of the task is registered and its        *)
(* attempt has failed.                                                     *)
LEMMA ErrorTaskFacts ==
    ASSUME IInv, NEW c \in Connectors, NEW task \in {"reconnect", "deregister"},
           NextTask(task, c), UNCHANGED <<tasks, ready, phase>>
    PROVE  /\ phase = "tasks" /\ batch' \in Seq(Tasks) /\ ready = {}
           /\ Connecting(c) /\ sock[sockFd[c]] = "failed"
           /\ \A d \in Connectors \ {c} : sockFd[d] # sockFd[c]
           /\ AllQueued' = AllQueued \ {c}
           /\ (\A d \in Connectors \ {c} : life'[d] = life[d]) => Queues' /\ Phases'
  <1>1. /\ batch' \in Seq(Tasks) /\ Distinct(batch') /\ RightKind(batch', life)
        /\ c \in Queued(batch) /\ c \notin Queued(tasks)
        /\ Queued(batch') = Queued(batch) \ {c}
        /\ life[c] # "submitted"
    BY NextTaskQueues
  <1>2. phase = "tasks" /\ ready = {}
    BY DEF NextTask, IInv, Phases
  <1>3. Connecting(c) /\ sock[sockFd[c]] = "failed"
    BY <1>1 DEF IInv, Reported, AllQueued, QueuedAt
  <1>4. \A d \in Connectors \ {c} : sockFd[d] # sockFd[c]
    BY <1>3 DEF IInv, FdsApart, Connecting
  <1>5. AllQueued' = AllQueued \ {c}
    BY <1>1 DEF AllQueued
  <1>6. ASSUME \A d \in Connectors \ {c} : life'[d] = life[d]
        PROVE  Queues' /\ Phases'
    <2>1. Queued(tasks) \subseteq Connectors \ {c} /\ Queued(batch') \subseteq Connectors \ {c}
      BY <1>1, QueuedType DEF IInv, TypeOK
    <2>2. RightKind(tasks, life) /\ Distinct(tasks) /\ Queued(tasks) \cap Queued(batch) = {}
      BY DEF IInv, Queues
    <2>3. RightKind(tasks, life') /\ RightKind(batch', life')
      BY <1>1, <1>6, <2>1, <2>2, KindKept
    <2>4. Queues'
      BY <1>1, <2>2, <2>3 DEF Queues
    <2>5. Phases'
      BY <1>2, <1>6, <2>1 DEF IInv, Phases
    <2> QED
      BY <2>4, <2>5
  <1> QED
    BY <1>1, <1>2, <1>3, <1>4, <1>5, <1>6

LEMMA DeregisterTaskStep ==
    ASSUME IInv, NEW c \in Connectors, DeregisterTask(c)
    PROVE  IInv'
  <1> USE ConnectorAssumption
  <1> DEFINE f == sockFd[c]
  <1>1. /\ NextTask("deregister", c) /\ UNCHANGED <<tasks, ready, phase>>
        /\ isRegistered' = Set(isRegistered, c, FALSE)
        /\ epoll' = Set(epoll, f, NoChannel) /\ channels' = Set(channels, f, NoChannel)
        /\ held' = held \cup {c}
        /\ UNCHANGED <<life, state, sockFd, sock, timers>>
    BY DEF DeregisterTask, deregister
  <1>2. /\ batch' \in Seq(Tasks) /\ ready = {}
        /\ Connecting(c) /\ sock[f] = "failed"
        /\ \A d \in Connectors \ {c} : sockFd[d] # f
        /\ AllQueued' = AllQueued \ {c}
        /\ Queues' /\ Phases'
    BY <1>1, ErrorTaskFacts
  <1>3. f \in Fds /\ TypeOK
    BY <1>2 DEF Connecting, IInv
  <1>4. Frame(c, f)
    BY <1>1, <1>3 DEF Frame, Set, TypeOK
  <1>5. TypeOK'
    BY <1>1, <1>2, <1>3 DEF TypeOK, Set
  <1>6. /\ life'[c] = "alive" /\ state'[c] = "CONNECTING" /\ timers'[c] = 0
        /\ sockFd'[c] = f /\ sock'[f] = "failed" /\ channels'[f] = NoChannel
        /\ epoll'[f] = NoChannel /\ ~ isRegistered'[c] /\ c \in held'
    BY <1>1, <1>2, <1>3 DEF TypeOK, Connecting, Set
  <1>7. Deregistered(c)'
    BY <1>3, <1>6 DEF Deregistered
  <1>8. LocatedAt(c)' /\ OwnedAt(f)' /\ TableAt(f)' /\ FailedAt(f)'
    BY <1>6, <1>7 DEF LocatedAt, OwnedAt, TableAt, FailedAt
  <1> HIDE DEF f
  <1> QED
    BY <1>1, <1>2, <1>4, <1>5, <1>6, <1>7, <1>8, LocalStep DEF f

LEMMA ReconnectTaskStep ==
    ASSUME IInv, NEW c \in Connectors, ReconnectTask(c)
    PROVE  IInv'
  <1> USE ConnectorAssumption
  <1>0. PICK f : f = sockFd[c]
    OBVIOUS
  <1>1. /\ NextTask("reconnect", c) /\ UNCHANGED <<tasks, ready, phase>>
        /\ isRegistered' = Set(isRegistered, c, FALSE)
        /\ epoll' = Set(epoll, f, NoChannel) /\ channels' = Set(channels, f, NoChannel)
        /\ sock' = Set(sock, f, "closed") /\ sockFd' = Set(sockFd, c, kInvalidFd)
        /\ state' = Set(state, c, "DISCONNECTED") /\ life' = Set(life, c, "alive")
        /\ timers' = [timers EXCEPT ![c] = @ + 1]
        /\ held' = held \cup {c}
    BY <1>0 DEF ReconnectTask, deregister, reconnect, Schedule
  <1>2. /\ batch' \in Seq(Tasks) /\ ready = {}
        /\ Connecting(c)
        /\ \A d \in Connectors \ {c} : sockFd[d] # f
        /\ AllQueued' = AllQueued \ {c}
        /\ (\A d \in Connectors \ {c} : life'[d] = life[d]) => Queues' /\ Phases'
    BY <1>0, <1>1, ErrorTaskFacts
  <1>3. f \in Fds /\ TypeOK
    BY <1>0, <1>2 DEF Connecting, IInv
  <1>4. Frame(c, f)
    BY <1>0, <1>1, <1>3 DEF Frame, Set, TypeOK
  <1>5. TypeOK'
    BY <1>0, <1>1, <1>2, <1>3 DEF TypeOK, Set
  <1>6. /\ life'[c] = "alive" /\ state'[c] = "DISCONNECTED" /\ timers'[c] = 1
        /\ sockFd'[c] = kInvalidFd /\ sock'[f] = "closed" /\ channels'[f] = NoChannel
        /\ epoll'[f] = NoChannel /\ ~ isRegistered'[c]
    BY <1>0, <1>1, <1>2, <1>3 DEF TypeOK, Connecting, Set
  <1>7. AwaitsTimer(c)'
    BY <1>6 DEF AwaitsTimer, Resting
  <1>8. LocatedAt(c)' /\ OwnedAt(f)' /\ TableAt(f)' /\ FailedAt(f)'
    BY <1>6, <1>7 DEF LocatedAt, OwnedAt, TableAt, FailedAt
  <1>9. Queues' /\ Phases'
    BY <1>2, <1>4 DEF Frame
  <1> QED
    BY <1>0, <1>1, <1>2, <1>4, <1>5, <1>6, <1>7, <1>8, <1>9, LocalStep

(* Events: what is reported belongs to an attempt nobody has looked at.    *)
LEMMA ReadyFacts ==
    ASSUME IInv, NEW c \in ready
    PROVE  /\ c \in Connectors /\ Connecting(c)
           /\ sock[sockFd[c]] \in {"established", "refused"}
           /\ \A d \in Connectors \ {c} : sockFd[d] # sockFd[c]
           /\ c \notin AllQueued /\ c \notin held
           /\ phase = "events" /\ batch = << >> /\ held = {}
  <1>1. c \in Connectors /\ Connecting(c) /\ sock[sockFd[c]] \in {"established", "refused"}
    BY DEF IInv, TypeOK, Reported, ReadyAt
  <1>2. \A d \in Connectors \ {c} : sockFd[d] # sockFd[c]
    BY <1>1 DEF IInv, FdsApart, Connecting
  <1>3. c \notin AllQueued
    BY <1>1 DEF IInv, Reported, QueuedAt, Connecting
  <1>4. phase = "events" /\ batch = << >> /\ held = {}
    BY DEF IInv, Phases
  <1> QED
    BY <1>1, <1>2, <1>3, <1>4

LEMMA ConnectFailsStep ==
    ASSUME IInv, NEW c \in Connectors, ConnectFails(c)
    PROVE  IInv'
  <1> USE ConnectorAssumption
  <1> DEFINE f == sockFd[c]
             x == ErrorTask(c, c)
  <1>1. /\ c \in ready /\ ready' = ready \ {c} /\ tasks' = Append(tasks, x)
        /\ sock' = Set(sock, f, "failed")
        /\ UNCHANGED <<life, state, sockFd, isRegistered, timers, channels, epoll>>
        /\ UNCHANGED <<batch, held, phase>>
    BY DEF ConnectFails, SeesError, Handled, Clear, tableVars
  <1>2. /\ Connecting(c)
        /\ \A d \in Connectors \ {c} : sockFd[d] # f
        /\ c \notin AllQueued /\ c \notin held
        /\ phase = "events" /\ batch = << >> /\ held = {}
    BY <1>1, ReadyFacts
  <1>3. f \in Fds /\ TypeOK /\ Queues
    BY <1>2 DEF Connecting, IInv
  <1>4. x \in Tasks /\ x.channel = c /\ x.task # "doConnect"
    BY DEF ErrorTask, Tasks
  <1>5. /\ tasks' \in Seq(Tasks) /\ Queued(tasks') = Queued(tasks) \cup {c} /\ Distinct(tasks')
    <2> HIDE DEF x
    <2>1. x.channel \notin Queued(tasks) /\ tasks \in Seq(Tasks) /\ Distinct(tasks)
      BY <1>2, <1>3, <1>4 DEF AllQueued, TypeOK, Queues
    <2> QED
      BY <1>1, <1>4, <2>1, QueuedAppend
  <1>6. RightKind(tasks', life')
    <2> HIDE DEF x
    <2>1. life[x.channel] # "submitted"
      BY <1>2, <1>4 DEF Connecting
    <2>2. RightKind(Append(tasks, x), life)
      BY <1>3, <1>4, <2>1, KindAppend DEF TypeOK, Queues
    <2> QED
      BY <1>1, <2>2 DEF x
  <1> HIDE DEF x
  <1>7. Queues'
    BY <1>1, <1>2, <1>3, <1>5, <1>6 DEF Queues, AllQueued
  <1>8. Phases'
    BY <1>1, <1>2 DEF IInv, Phases
  <1>9. AllQueued' = AllQueued \cup {c}
    BY <1>1, <1>5 DEF AllQueued
  <1>10. Frame(c, f)
    BY <1>1, <1>3 DEF Frame, Set, TypeOK
  <1>11. TypeOK'
    BY <1>1, <1>3, <1>5 DEF TypeOK, Set
  <1>12. sock'[f] = "failed" /\ sockFd'[c] = f /\ channels'[f] = c /\ epoll'[f] = c
    BY <1>1, <1>2, <1>3 DEF TypeOK, Set, Connecting, IInv, Tables, TableAt
  <1>13. Connecting(c)'
    BY <1>1, <1>2, <1>3, <1>12 DEF Connecting
  <1>14. LocatedAt(c)' /\ QueuedAt(c)'
    BY <1>12, <1>13 DEF LocatedAt, QueuedAt, Connecting
  <1>15. OwnedAt(f)' /\ TableAt(f)' /\ FailedAt(f)'
    BY <1>9, <1>12 DEF OwnedAt, TableAt, FailedAt
  <1> HIDE DEF f
  <1> QED
    BY <1>1, <1>2, <1>7, <1>8, <1>9, <1>10, <1>11, <1>12, <1>14, <1>15, LocalStep DEF f

LEMMA NewSocketChannelStep ==
    ASSUME IInv, NEW c \in Connectors, newSocketChannel(c)
    PROVE  IInv'
  <1> USE ConnectorAssumption
  <1>0. PICK f : f = sockFd[c]
    OBVIOUS
  <1>1. /\ c \in ready /\ ready' = ready \ {c} /\ sock[f] # "refused"
        /\ state' = Set(state, c, "CONNECTED")
        /\ isRegistered' = Set(isRegistered, c, FALSE)
        /\ life' = Set(life, c, "destroyed") /\ sockFd' = Set(sockFd, c, kInvalidFd)
        /\ UNCHANGED <<timers, tasks, batch, held, phase>>
    BY <1>0 DEF newSocketChannel, Handled
  <1>2. \/ /\ sock' = sock
           /\ channels' = Set(channels, f, SocketChannel)
           /\ epoll' = Set(epoll, f, SocketChannel)
        \/ /\ sock' = Set(sock, f, "closed")
           /\ channels' = Set(channels, f, NoChannel)
           /\ epoll' = Set(epoll, f, NoChannel)
    BY <1>0 DEF newSocketChannel
  <1>3. /\ Connecting(c) /\ sock[f] = "established"
        /\ \A d \in Connectors \ {c} : sockFd[d] # f
        /\ c \notin AllQueued /\ c \notin held
        /\ phase = "events" /\ batch = << >> /\ held = {}
    BY <1>0, <1>1, ReadyFacts
  <1>4. f \in Fds /\ TypeOK /\ Queues
    BY <1>0, <1>3 DEF Connecting, IInv
  <1>5. Frame(c, f)
    BY <1>0, <1>1, <1>2, <1>4 DEF Frame, Set, TypeOK
  <1>6. TypeOK'
    BY <1>0, <1>1, <1>2, <1>4 DEF TypeOK, Set
  <1>7. /\ life'[c] = "destroyed" /\ timers'[c] = 0 /\ sockFd'[c] = kInvalidFd
        /\ ~ isRegistered'[c]
    BY <1>0, <1>1, <1>3, <1>4 DEF TypeOK, Set, Connecting
  <1>8. LocatedAt(c)'
    BY <1>7 DEF LocatedAt, Resting
  <1>9. OwnedAt(f)' /\ TableAt(f)' /\ FailedAt(f)'
    BY <1>2, <1>3, <1>4 DEF OwnedAt, TableAt, FailedAt, Set, TypeOK
  <1>10. AllQueued' = AllQueued
    BY <1>1 DEF AllQueued
  <1>11. Queues'
    <2>1. Queued(tasks) \subseteq Connectors /\ Queued(batch) \subseteq Connectors
      BY <1>4, QueuedType DEF TypeOK
    <2>2. RightKind(tasks, life') /\ RightKind(batch, life')
      BY <1>3, <1>4, <1>5, <2>1, KindKept DEF Queues, Frame, AllQueued
    <2> QED
      BY <1>0, <1>1, <1>4, <2>2 DEF Queues
  <1>12. Phases'
    BY <1>0, <1>1, <1>3 DEF IInv, Phases
  <1> QED
    BY <1>0, <1>1, <1>3, <1>5, <1>6, <1>7, <1>8, <1>9, <1>10, <1>11, <1>12, LocalStep

(* The kernel decides on an attempt, or breaks a connection.               *)
LEMMA KernelStep ==
    ASSUME IInv, NEW f \in Fds, NEW c \in Connectors, sockFd[c] = f,
           sock[f] \in {"connecting", "established"}, channels[f] # SocketChannel,
           NEW result \in {"established", "refused"}, sock' = Set(sock, f, result),
           UNCHANGED <<objectVars, tableVars, loopVars>>
    PROVE  IInv'
  <1> USE ConnectorAssumption
  <1>1. /\ UNCHANGED <<life, state, sockFd, isRegistered, timers, channels, epoll>>
        /\ UNCHANGED <<tasks, batch, held, ready, phase>>
    BY DEF objectVars, tableVars, loopVars
  <1>2. TypeOK /\ LocatedAt(c) /\ TableAt(f) /\ Queues /\ Phases
    BY DEF IInv, Located, Tables
  <1>3. Connecting(c) \/ Deregistered(c)
    BY <1>2 DEF TypeOK, LocatedAt, Resting, AwaitsTimer
  <1>4. Frame(c, f)
    BY <1>1, <1>2 DEF Frame, Set, TypeOK
  <1>5. TypeOK'
    BY <1>1, <1>2 DEF TypeOK, Set
  <1>6. sock'[f] = result
    BY <1>2 DEF TypeOK, Set
  <1>7. /\ Connecting(c) => Connecting(c)'
        /\ Deregistered(c) => Deregistered(c)'
    BY <1>1, <1>6 DEF Connecting, Deregistered
  <1>8. LocatedAt(c)'
    BY <1>1, <1>3, <1>7 DEF LocatedAt, Connecting, Deregistered
  <1>9. OwnedAt(f)' /\ TableAt(f)' /\ FailedAt(f)'
    BY <1>1, <1>2, <1>6 DEF OwnedAt, TableAt, FailedAt
  <1>10. AllQueued' = AllQueued /\ c \notin AllQueued
    BY <1>1, <1>3 DEF AllQueued, IInv, Reported, QueuedAt, Connecting, Deregistered
  <1>11. Queues' /\ Phases'
    BY <1>1, <1>2 DEF Queues, Phases
  <1>12. c \in held => Deregistered(c)
    BY <1>3 DEF IInv, HeldApart, AwaitsTimer, Connecting, Deregistered
  <1>13. c \in ready => ReadyAt(c)'
    BY <1>1, <1>6, <1>7 DEF IInv, Reported, ReadyAt
  <1>14. \A d \in Connectors \ {c} : sockFd[d] # f
    BY DEF IInv, FdsApart
  <1> QED
    BY <1>1, <1>4, <1>5, <1>7, <1>8, <1>9, <1>10, <1>11, <1>12, <1>13, <1>14, LocalStep

LEMMA DecideStep ==
    ASSUME IInv, NEW f \in Fds, Decide(f) \/ Break(f)
    PROVE  IInv'
  <1> USE ConnectorAssumption
  <1>1. TableAt(f) /\ OwnedAt(f)
    BY DEF IInv, Tables, OpenIsOwned
  <1>2. CASE Decide(f)
    <2>1. channels[f] # SocketChannel
      BY <1>1, <1>2 DEF TableAt, Decide
    <2>2. PICK c \in Connectors : sockFd[c] = f
      BY <1>1, <1>2, <2>1 DEF OwnedAt, Decide
    <2> QED
      BY <1>2, <2>1, <2>2, KernelStep DEF Decide
  <1>3. CASE Break(f)
    <2>1. channels[f] \in Connectors /\ sockFd[channels[f]] = f /\ channels[f] # SocketChannel
      BY <1>1, <1>3 DEF TableAt, Break
    <2>2. PICK c \in Connectors : sockFd[c] = f
      BY <2>1
    <2> QED
      BY <1>3, <2>1, <2>2, KernelStep DEF Break
  <1> QED
    BY <1>2, <1>3

(* A SocketChannel goes; no connector has its descriptor.                  *)
LEMMA SocketChannelEndsStep ==
    ASSUME IInv, NEW f \in Fds, SocketChannelEnds(f)
    PROVE  IInv'
  <1> USE ConnectorAssumption
  <1>1. /\ channels[f] = SocketChannel
        /\ channels' = Set(channels, f, NoChannel) /\ epoll' = Set(epoll, f, NoChannel)
        /\ sock' = Set(sock, f, "closed")
        /\ UNCHANGED <<life, state, sockFd, isRegistered, timers>>
        /\ UNCHANGED <<tasks, batch, held, ready, phase>>
    BY DEF SocketChannelEnds, objectVars, loopVars
  <1>2. TypeOK /\ Queues /\ Phases
    BY DEF IInv
  <1>3. \A d \in Connectors : sockFd[d] # f
    <2> SUFFICES ASSUME NEW d \in Connectors, sockFd[d] = f PROVE FALSE
      OBVIOUS
    <2>1. LocatedAt(d) /\ life[d] \in {"new", "submitted", "alive", "destroyed"}
      BY <1>2 DEF IInv, Located, TypeOK
    <2> QED
      BY <1>1, <2>1 DEF LocatedAt, Resting, Connecting, AwaitsTimer, Deregistered
  <1>4. Frame(NoChannel, f)
    BY <1>1, <1>2 DEF Frame, Set, TypeOK
  <1>5. TypeOK'
    BY <1>1, <1>2 DEF TypeOK, Set
  <1>6. sock'[f] = "closed" /\ channels'[f] = NoChannel /\ epoll'[f] = NoChannel
    BY <1>1, <1>2 DEF TypeOK, Set
  <1>7. OwnedAt(f)' /\ TableAt(f)' /\ FailedAt(f)'
    BY <1>6 DEF OwnedAt, TableAt, FailedAt
  <1>8. Queues' /\ Phases' /\ AllQueued' = AllQueued
    BY <1>1, <1>2 DEF Queues, Phases, AllQueued
  <1>9. AllQueued \subseteq Connectors /\ held \subseteq Connectors /\ ready \subseteq Connectors
    BY <1>2, QueuedType DEF AllQueued, TypeOK
  <1>10. NoChannel \notin Connectors
    OBVIOUS
  <1> QED
    BY <1>1, <1>3, <1>4, <1>5, <1>7, <1>8, <1>9, <1>10, LocalStep

LEMMA BootstrapConnectStep ==
    ASSUME IInv, NEW c \in Connectors, BootstrapConnect(c)
    PROVE  IInv'
  <1> USE ConnectorAssumption
  <1> DEFINE x == [task |-> "doConnect", channel |-> c]
  <1>1. /\ life[c] = "new" /\ life' = Set(life, c, "submitted") /\ tasks' = Append(tasks, x)
        /\ UNCHANGED <<state, sockFd, isRegistered, timers, sock, channels, epoll>>
        /\ UNCHANGED <<batch, held, ready, phase>>
    BY DEF BootstrapConnect, tableVars
  <1>2. TypeOK /\ Queues /\ Phases /\ LocatedAt(c)
    BY DEF IInv, Located
  <1>3. c \notin AllQueued /\ c \notin held /\ c \notin ready
    BY <1>1 DEF IInv, Reported, QueuedAt, ReadyAt, Connecting, HeldApart, AwaitsTimer,
                Deregistered
  <1>4. x \in Tasks /\ x.channel = c /\ x.task = "doConnect"
    BY DEF Tasks
  <1> HIDE DEF x
  <1>5. /\ tasks' \in Seq(Tasks) /\ Queued(tasks') = Queued(tasks) \cup {c} /\ Distinct(tasks')
    <2>1. x.channel \notin Queued(tasks) /\ tasks \in Seq(Tasks) /\ Distinct(tasks)
      BY <1>2, <1>3, <1>4 DEF AllQueued, TypeOK, Queues
    <2> QED
      BY <1>1, <1>4, <2>1, QueuedAppend
  <1>6. life'[c] = "submitted" /\ \A d \in Connectors \ {c} : life'[d] = life[d]
    BY <1>1, <1>2 DEF Set, TypeOK
  <1>7. RightKind(tasks', life') /\ RightKind(batch', life')
    <2>1. Queued(tasks) \subseteq Connectors \ {c} /\ Queued(batch) \subseteq Connectors \ {c}
      BY <1>2, <1>3, QueuedType DEF AllQueued, TypeOK
    <2>2. RightKind(tasks, life') /\ RightKind(batch, life')
      BY <1>2, <1>6, <2>1, KindKept DEF Queues
    <2>3. life'[x.channel] = "submitted" /\ tasks \in Seq(Tasks)
      BY <1>2, <1>4, <1>6 DEF TypeOK
    <2>4. RightKind(Append(tasks, x), life')
      BY <1>4, <2>2, <2>3, KindAppend
    <2> QED
      BY <1>1, <2>2, <2>4
  <1>8. Queues'
    BY <1>1, <1>2, <1>3, <1>5, <1>7 DEF Queues, AllQueued
  <1>9. Phases'
    <2>1. Queued(tasks) \subseteq Connectors
      BY <1>2, QueuedType DEF TypeOK
    <2> QED
      BY <1>1, <1>2, <1>5, <1>6, <2>1 DEF Phases
  <1>10. AllQueued' = AllQueued \cup {c}
    BY <1>1, <1>5 DEF AllQueued
  <1>11. Frame(c, kInvalidFd)
    BY <1>1, <1>6 DEF Frame
  <1>12. TypeOK'
    BY <1>1, <1>2, <1>5 DEF TypeOK, Set
  <1>13. LocatedAt(c)' /\ QueuedAt(c)' /\ sockFd[c] = kInvalidFd
    BY <1>1, <1>2, <1>6 DEF LocatedAt, Resting, QueuedAt
  <1> QED
    BY <1>1, <1>3, <1>8, <1>9, <1>10, <1>11, <1>12, <1>13, LocalStep

-----------------------------------------------------------------------------
(* Steps of the loop that touch no connector, or several.                  *)

LEMMA Unmoved ==
    ASSUME IInv, UNCHANGED <<life, state, sockFd, isRegistered, timers>>,
           UNCHANGED <<sock, channels, epoll, held>>
    PROVE  /\ Located' /\ HeldApart' /\ FdsApart' /\ OpenIsOwned' /\ Tables'
           /\ \A c \in Connectors : Connecting(c)' <=> Connecting(c)
  <1>1. \A c \in Connectors : /\ Connecting(c)' <=> Connecting(c)
                              /\ AwaitsTimer(c)' <=> AwaitsTimer(c)
                              /\ Deregistered(c)' <=> Deregistered(c)
                              /\ Resting(c)' <=> Resting(c)
    BY DEF Connecting, AwaitsTimer, Deregistered, Resting
  <1>2. Located'
    BY <1>1 DEF IInv, Located, LocatedAt
  <1>3. HeldApart'
    BY <1>1 DEF IInv, HeldApart, TypeOK
  <1>4. FdsApart' /\ OpenIsOwned' /\ Tables'
    BY DEF IInv, FdsApart, OpenIsOwned, OwnedAt, Tables, TableAt
  <1> QED
    BY <1>1, <1>2, <1>3, <1>4

LEMMA LoopTurnStep ==
    ASSUME IInv, SwapPendingTasks \/ Poll \/ EndEvents \/ UNCHANGED vars
    PROVE  IInv'
  <1>1. /\ UNCHANGED <<life, state, sockFd, isRegistered, timers>>
        /\ UNCHANGED <<sock, channels, epoll, held>>
    BY DEF SwapPendingTasks, Poll, EndEvents, vars, objectVars, tableVars
  <1>2. /\ Located' /\ HeldApart' /\ FdsApart' /\ OpenIsOwned' /\ Tables'
        /\ \A c \in Connectors : Connecting(c)' <=> Connecting(c)
    BY <1>1, Unmoved
  <1>3. TypeOK /\ Queues /\ Phases /\ Reported /\ Tables
    BY DEF IInv
  <1>4. AllQueued \subseteq Connectors
    BY <1>3, QueuedType DEF AllQueued, TypeOK
  <1>r. ASSUME AllQueued' = AllQueued, ready' \subseteq Connectors,
               \A c \in ready' : ReadyAt(c)'
        PROVE  Reported'
    BY <1>1, <1>2, <1>3, <1>4, <1>r DEF Reported, QueuedAt, FailedAt
  <1>5. CASE SwapPendingTasks
    <2>1. /\ phase = "timers" /\ phase' = "tasks" /\ batch' = tasks /\ tasks' = << >>
          /\ ready' = ready
      BY <1>5 DEF SwapPendingTasks
    <2>2. batch = << >> /\ held = {} /\ ready = {}
      BY <1>3, <2>1 DEF Phases
    <2>3. TypeOK'
      BY <1>1, <1>3, <2>1 DEF TypeOK
    <2>4. Queues'
      BY <1>1, <1>3, <2>1, QueuedEmpty DEF Queues
    <2>5. Phases'
      BY <2>1, <2>2, QueuedEmpty DEF Phases
    <2>6. AllQueued' = AllQueued
      BY <2>1, <2>2 DEF AllQueued
    <2>7. Reported'
      BY <1>r, <2>1, <2>2, <2>6
    <2> QED
      BY <1>2, <2>3, <2>4, <2>5, <2>7 DEF IInv
  <1>6. CASE Poll
    <2>1. /\ phase = "poll" /\ phase' = "events" /\ UNCHANGED <<tasks, batch>>
          /\ ready' = {c \in Connectors :
                 \E f \in Fds : epoll[f] = c /\ sock[f] \notin {"closed", "connecting"}}
      BY <1>6 DEF Poll
    <2>2. batch = << >> /\ held = {} /\ \A c \in Queued(tasks) : life[c] = "submitted"
      BY <1>3, <2>1 DEF Phases
    <2>3. AllQueued' = AllQueued /\ \A c \in AllQueued : life[c] = "submitted"
      BY <2>1, <2>2, QueuedEmpty DEF AllQueued
    <2>4. ASSUME NEW c \in ready' PROVE ReadyAt(c)'
      <3>1. PICK f \in Fds : c \in Connectors /\ channels[f] = c
                             /\ sock[f] \notin {"closed", "connecting"}
        BY <1>3, <2>1, <2>4 DEF Tables, TableAt
      <3>2. sockFd[c] = f
        BY <1>3, <3>1 DEF Tables, TableAt
      <3>3. Connecting(c)
        <4>1. LocatedAt(c) /\ life[c] \in {"new", "submitted", "alive", "destroyed"}
          BY <1>3, <3>1 DEF IInv, Located, TypeOK
        <4> QED
          BY <3>1, <3>2, <4>1, ConnectorAssumption
             DEF LocatedAt, Resting, AwaitsTimer, Deregistered
      <3>4. sock[f] # "failed"
        BY <1>3, <2>3, <3>1, <3>3 DEF Reported, FailedAt, Connecting
      <3> QED
        BY <1>1, <1>2, <1>3, <3>1, <3>2, <3>3, <3>4 DEF ReadyAt, TypeOK
    <2>5. TypeOK'
      BY <1>1, <1>3, <2>1 DEF TypeOK
    <2>6. Queues' /\ Phases'
      BY <1>1, <1>3, <2>1, <2>2 DEF Queues, Phases
    <2>7. Reported'
      BY <1>r, <2>1, <2>3, <2>4
    <2> QED
      BY <1>2, <2>5, <2>6, <2>7 DEF IInv
  <1>7. CASE EndEvents \/ UNCHANGED vars
    <2>1. /\ UNCHANGED <<tasks, batch, ready>>
          /\ phase' = phase \/ (phase = "events" /\ ready = {} /\ phase' = "timers")
      BY <1>7 DEF EndEvents, vars
    <2>2. TypeOK' /\ Queues' /\ Phases'
      BY <1>1, <1>3, <2>1 DEF TypeOK, Queues, Phases
    <2>3. \A c \in ready' : ReadyAt(c)'
      BY <1>1, <1>2, <1>3, <2>1 DEF Reported, ReadyAt, TypeOK
    <2>4. AllQueued' = AllQueued /\ ready' \subseteq Connectors
      BY <1>3, <2>1 DEF AllQueued, TypeOK
    <2>5. Reported'
      BY <1>r, <2>3, <2>4
    <2> QED
      BY <1>2, <2>2, <2>5 DEF IInv
  <1> QED
    BY <1>5, <1>6, <1>7

(* The connectors destroyed with tmpTasks are the deregistered ones.       *)
LEMMA EndPendingTasksStep ==
    ASSUME IInv, EndPendingTasks
    PROVE  IInv'
  <1> USE ConnectorAssumption
  <1> DEFINE gone == {c \in held : timers[c] = 0 /\ \A f \in Fds : channels[f] # c}
             closed == {sockFd[c] : c \in {d \in gone : state[d] # "CONNECTED"}}
  <1>1. /\ phase = "tasks" /\ batch = << >> /\ phase' = "poll" /\ held' = {}
        /\ life' = [c \in Connectors |-> IF c \in gone THEN "destroyed" ELSE life[c]]
        /\ sockFd' = [c \in Connectors |-> IF c \in gone THEN kInvalidFd ELSE sockFd[c]]
        /\ sock' = [f \in Fds |-> IF f \in closed THEN "closed" ELSE sock[f]]
        /\ UNCHANGED <<state, isRegistered, timers, channels, epoll, tasks, batch, ready>>
    BY DEF EndPendingTasks, tableVars
  <1>2. TypeOK /\ Queues /\ Phases /\ Located /\ HeldApart /\ FdsApart /\ OpenIsOwned
        /\ Tables /\ Reported /\ ready = {}
    BY <1>1 DEF IInv, Phases
  <1>3. \A c \in Connectors : c \in gone <=> Deregistered(c)
    <2>1. ASSUME NEW c \in Connectors, c \in gone PROVE Deregistered(c)
      BY <1>2, <2>1 DEF HeldApart, AwaitsTimer
    <2>2. ASSUME NEW c \in Connectors, Deregistered(c) PROVE c \in gone
      BY <1>2, <2>2 DEF Deregistered, Tables, TableAt
    <2> QED
      BY <2>1, <2>2
  <1>4. \A c \in Connectors : c \notin gone /\ sockFd[c] \in Fds => sockFd[c] \notin closed
    BY <1>2 DEF FdsApart, TypeOK
  <1>5. \A f \in closed : \E c \in gone : sockFd[c] = f
    OBVIOUS
  <1>6. \A c \in gone : c \in Connectors /\ sockFd[c] \in Fds /\ sockFd[c] \in closed
                        /\ channels[sockFd[c]] = NoChannel
                        /\ ~ isRegistered[c] /\ timers[c] = 0
    <2> SUFFICES ASSUME NEW c \in gone
                 PROVE  c \in Connectors /\ sockFd[c] \in Fds /\ sockFd[c] \in closed
                        /\ channels[sockFd[c]] = NoChannel
                        /\ ~ isRegistered[c] /\ timers[c] = 0
      OBVIOUS
    <2>1. c \in Connectors
      BY <1>2 DEF TypeOK
    <2>2. Deregistered(c)
      BY <1>3, <2>1
    <2> QED
      BY <2>1, <2>2 DEF Deregistered
  <1>7. /\ \A c \in Connectors : c \notin gone => life'[c] = life[c] /\ sockFd'[c] = sockFd[c]
        /\ \A c \in gone : life'[c] = "destroyed" /\ sockFd'[c] = kInvalidFd
        /\ \A f \in Fds : f \notin closed => sock'[f] = sock[f]
        /\ \A f \in closed : f \in Fds /\ sock'[f] = "closed" /\ channels[f] = NoChannel
    BY <1>1, <1>5, <1>6
  <1> HIDE DEF gone, closed
  <1>8. \A c \in Connectors : Connecting(c) => c \notin gone /\ sockFd[c] \notin closed
    BY <1>3, <1>4 DEF Connecting, Deregistered
  <1>9. \A c \in Connectors : Connecting(c) => Connecting(c)' /\ sock'[sockFd'[c]] = sock[sockFd[c]]
    BY <1>1, <1>7, <1>8 DEF Connecting
  <1>10. \A c \in Connectors : AwaitsTimer(c) => AwaitsTimer(c)'
    BY <1>1, <1>3, <1>7 DEF AwaitsTimer, Deregistered, Resting
  <1>11. TypeOK'
    <2>1. life' \in [Connectors -> {"new", "submitted", "alive", "destroyed"}]
      BY <1>1, <1>2 DEF TypeOK
    <2>2. sockFd' \in [Connectors -> Fds \cup {kInvalidFd}]
      BY <1>1, <1>2 DEF TypeOK
    <2>3. sock' \in [Fds -> {"closed", "connecting", "established", "refused", "failed"}]
      BY <1>1, <1>2 DEF TypeOK
    <2> QED
      BY <1>1, <1>2, <2>1, <2>2, <2>3 DEF TypeOK
  <1>12. AllQueued' = AllQueued /\ AllQueued \subseteq Connectors
         /\ \A c \in AllQueued : c \notin gone
    <2>1. AllQueued \subseteq Connectors
      BY <1>2, QueuedType DEF AllQueued, TypeOK
    <2> QED
      BY <1>1, <1>2, <1>3, <2>1
         DEF AllQueued, Reported, QueuedAt, Connecting, Deregistered
  <1>13. Queues'
    <2>1. RightKind(tasks, life') /\ RightKind(batch, life')
      BY <1>2, <1>7, <1>12, KindKept DEF Queues, AllQueued
    <2> QED
      BY <1>1, <1>2, <2>1 DEF Queues
  <1>14. Phases'
    BY <1>1, <1>2, <1>7, <1>12 DEF Phases, AllQueued
  <1>15. Located'
    <2> SUFFICES ASSUME NEW c \in Connectors PROVE LocatedAt(c)'
      BY DEF Located
    <2>1. LocatedAt(c)
      BY <1>2 DEF Located
    <2>2. CASE c \in gone
      BY <1>1, <1>6, <1>7, <2>2 DEF LocatedAt, Resting
    <2>3. CASE c \notin gone
      BY <1>1, <1>3, <1>7, <1>9, <1>10, <2>1, <2>3 DEF LocatedAt, Resting
    <2> QED
      BY <2>2, <2>3
  <1>16. HeldApart'
    BY <1>1 DEF HeldApart
  <1>17. FdsApart'
    BY <1>1, <1>2, <1>7 DEF FdsApart, TypeOK
  <1>18. OpenIsOwned'
    <2> SUFFICES ASSUME NEW f \in Fds, sock'[f] # "closed", channels[f] # SocketChannel
                 PROVE  \E c \in Connectors : sockFd'[c] = f
      BY <1>1 DEF OpenIsOwned, OwnedAt
    <2>1. f \notin closed
      BY <1>7
    <2>2. PICK c \in Connectors : sockFd[c] = f
      BY <1>2, <1>7, <2>1 DEF OpenIsOwned, OwnedAt
    <2> QED
      BY <1>6, <1>7, <2>1, <2>2
  <1>19. Tables'
    <2> SUFFICES ASSUME NEW f \in Fds PROVE TableAt(f)'
      BY DEF Tables
    <2>1. TableAt(f)
      BY <1>2 DEF Tables
    <2>2. CASE f \in closed
      BY <1>1, <1>7, <2>1, <2>2 DEF TableAt
    <2>3. CASE f \notin closed
      <3>1. channels[f] \in Connectors => sockFd'[channels[f]] = f
        BY <1>6, <1>7, <2>1, <2>3 DEF TableAt
      <3> QED
        BY <1>1, <1>7, <2>1, <2>3, <3>1 DEF TableAt
    <2> QED
      BY <2>2, <2>3
  <1>20. Reported'
    <2>1. \A c \in AllQueued : QueuedAt(c)'
      BY <1>2, <1>7, <1>9, <1>12 DEF Reported, QueuedAt
    <2>2. \A f \in Fds : FailedAt(f)'
      BY <1>1, <1>2, <1>7, <1>12 DEF Reported, FailedAt
    <2> QED
      BY <1>1, <1>2, <1>12, <2>1, <2>2 DEF Reported
  <1> QED
    BY <1>11, <1>13, <1>14, <1>15, <1>16, <1>17, <1>18, <1>19, <1>20 DEF IInv

-----------------------------------------------------------------------------
(* IInv is an invariant of the connectors of a loop.                       *)
THEOREM Invariance == Spec => []IInv
  <1>1. Init => IInv
    <2> SUFFICES ASSUME Init PROVE IInv
      OBVIOUS
    <2>1. TypeOK
      BY DEF Init, TypeOK
    <2>2. Queues /\ Phases /\ AllQueued = {}
      BY QueuedEmpty DEF Init, Queues, Phases, AllQueued
    <2>3. /\ \A c \in Connectors : life[c] = "new" /\ state[c] = "DISCONNECTED"
                                   /\ timers[c] = 0 /\ sockFd[c] = kInvalidFd
                                   /\ ~ isRegistered[c]
          /\ \A f \in Fds : sock[f] = "closed" /\ channels[f] = NoChannel
                            /\ epoll[f] = NoChannel
          /\ held = {} /\ ready = {}
      BY DEF Init
    <2>4. Located /\ HeldApart /\ FdsApart
      BY <2>3, ConnectorAssumption DEF Located, LocatedAt, Resting, HeldApart, FdsApart
    <2>5. OpenIsOwned /\ Tables /\ Reported
      BY <2>2, <2>3, ConnectorAssumption
         DEF OpenIsOwned, OwnedAt, Tables, TableAt, Reported, FailedAt
    <2> QED
      BY <2>1, <2>2, <2>4, <2>5 DEF IInv
  <1>2. IInv /\ [Next]_vars => IInv'
    <2> SUFFICES ASSUME IInv, [Next]_vars PROVE IInv'
      OBVIOUS
    <2>1. ASSUME NEW c \in Connectors, BootstrapConnect(c) \/ ReconnectTimer(c) PROVE IInv'
      BY <2>1, BootstrapConnectStep, ReconnectTimerStep
    <2>2. CASE SwapPendingTasks \/ EndPendingTasks \/ Poll \/ EndEvents \/ UNCHANGED vars
      BY <2>2, LoopTurnStep, EndPendingTasksStep
    <2>3. ASSUME NEW c \in Connectors, doConnect(c) \/ DeregisterTask(c) \/ ReconnectTask(c)
          PROVE  IInv'
      BY <2>3, DoConnectStep, DeregisterTaskStep, ReconnectTaskStep
    <2>4. ASSUME NEW c \in Connectors, ConnectFails(c) \/ newSocketChannel(c) PROVE IInv'
      BY <2>4, ConnectFailsStep, NewSocketChannelStep
    <2>5. ASSUME NEW f \in Fds, SocketChannelEnds(f) \/ Decide(f) \/ Break(f) PROVE IInv'
      BY <2>5, SocketChannelEndsStep, DecideStep
    <2> QED
      BY <2>1, <2>2, <2>3, <2>4, <2>5 DEF Next, LoopStep
  <1> QED
    BY <1>1, <1>2, PTL DEF Spec

(* Every open descriptor has one object that will close it, and no closed  *)
(* one has any: retries, failed registrations and the hand-over leak and   *)
(* double-close nothing.                                                   *)
THEOREM DescriptorsHaveOneOwner == Spec => []OneOwner
  <1>1. IInv => OneOwner
    <2> SUFFICES ASSUME IInv, NEW f \in Fds
                 PROVE  /\ Cardinality({c \in Connectors : OwnsFd(c, f)}) <= 1
                        /\ channels[f] = SocketChannel => \A c \in Connectors : ~ OwnsFd(c, f)
                        /\ sock[f] # "closed"
                             <=> channels[f] = SocketChannel \/ \E c \in Connectors : OwnsFd(c, f)
      BY DEF OneOwner
    <2> DEFINE owners == {c \in Connectors : OwnsFd(c, f)}
    <2>1. \A c \in Connectors : OwnsFd(c, f) <=> sockFd[c] = f
      <3> SUFFICES ASSUME NEW c \in Connectors, sockFd[c] = f
                   PROVE  life[c] = "alive" /\ state[c] # "CONNECTED"
        BY DEF OwnsFd
      <3>1. LocatedAt(c) /\ life[c] \in {"new", "submitted", "alive", "destroyed"}
        BY DEF IInv, Located, TypeOK
      <3> QED
        BY <3>1, ConnectorAssumption
           DEF LocatedAt, Resting, Connecting, AwaitsTimer, Deregistered
    <2>2. Cardinality(owners) <= 1
      <3>1. CASE owners = {}
        <4>1. Cardinality(owners) = 0
          BY <3>1, FS_EmptySet
        <4> QED
          BY <4>1
      <3>2. CASE owners # {}
        <4>1. PICK c \in owners : TRUE
          BY <3>2
        <4>2. owners = {c}
          BY <2>1, <4>1 DEF IInv, FdsApart
        <4>3. Cardinality(owners) = 1
          BY <4>2, FS_Singleton
        <4> QED
          BY <4>3
      <3> QED
        BY <3>1, <3>2
    <2>3. ASSUME NEW c \in Connectors, sockFd[c] = f
          PROVE  channels[f] # SocketChannel /\ sock[f] # "closed"
      <3>1. LocatedAt(c) /\ life[c] \in {"new", "submitted", "alive", "destroyed"}
        BY DEF IInv, Located, TypeOK
      <3> QED
        BY <2>3, <3>1, ConnectorAssumption
           DEF LocatedAt, Resting, Connecting, AwaitsTimer, Deregistered
    <2>4. TableAt(f) /\ OwnedAt(f)
      BY DEF IInv, Tables, OpenIsOwned
    <2> QED
      BY <2>1, <2>2, <2>3, <2>4 DEF TableAt, OwnedAt
  <1> QED
    BY <1>1, Invariance, PTL

(* channels_ and epoll agree, and no pointer in epoll or in a round of     *)
(* events is to a connector that is gone.                                  *)
THEOREM PointersAreValid == Spec => []ChannelsMatchEpoll
  <1>1. IInv => ChannelsMatchEpoll
    <2> SUFFICES ASSUME IInv PROVE ChannelsMatchEpoll
      OBVIOUS
    <2>1. ASSUME NEW f \in Fds
          PROVE  /\ channels[f] = epoll[f]
                 /\ \A c \in Connectors : epoll[f] = c => life[c] = "alive" /\ sockFd[c] = f
                 /\ epoll[f] # NoChannel => sock[f] # "closed"
      <3>1. TableAt(f)
        BY DEF IInv, Tables
      <3>2. ASSUME NEW c \in Connectors, epoll[f] = c PROVE life[c] = "alive" /\ sockFd[c] = f
        <4>1. LocatedAt(c) /\ life[c] \in {"new", "submitted", "alive", "destroyed"}
          BY DEF IInv, Located, TypeOK
        <4>2. sockFd[c] = f
          BY <3>1, <3>2 DEF TableAt
        <4> QED
          BY <4>1, <4>2, ConnectorAssumption DEF LocatedAt, Resting
      <3> QED
        BY <3>1, <3>2 DEF TableAt
    <2>2. \A c \in ready : life[c] = "alive" /\ state[c] = "CONNECTING"
      BY DEF IInv, Reported, ReadyAt, Connecting
    <2> QED
      BY <2>1, <2>2 DEF ChannelsMatchEpoll
  <1> QED
    BY <1>1, Invariance, PTL

(* newSocketChannel() is only reached with an established connection, also *)
(* when the error of a failed attempt has already been read.               *)
THEOREM OnlyEstablishedIsHandedOver == Spec => []HandedOverEstablished
  <1>1. IInv => HandedOverEstablished
    BY DEF IInv, Tables, TableAt, HandedOverEstablished
  <1> QED
    BY <1>1, Invariance, PTL

(* A connector has one task or one timer, never both, and what the         *)
(* assertions of its tasks rely on holds when they run.                    *)
THEOREM OneAttemptAtATime == Spec => []OneAttempt
  <1>1. IInv => OneAttempt
    <2> SUFFICES ASSUME IInv PROVE OneAttempt
      OBVIOUS
    <2>1. TypeOK /\ Queues /\ Reported
      BY DEF IInv
    <2>2. tasks \in Seq(Tasks) /\ batch \in Seq(Tasks) /\ Len(tasks) \in Nat /\ Len(batch) \in Nat
      BY <2>1, LenProperties DEF TypeOK
    <2>3. /\ Len(Pending) = Len(tasks) + Len(batch)
          /\ \A i \in 1 .. Len(tasks) + Len(batch) :
                Pending[i] = IF i <= Len(tasks) THEN tasks[i] ELSE batch[i - Len(tasks)]
      BY <2>2, ConcatProperties DEF Pending
    <2>4. ASSUME NEW i \in 1 .. Len(Pending)
          PROVE  \/ i \in 1 .. Len(tasks) /\ Pending[i] = tasks[i]
                 \/ i - Len(tasks) \in 1 .. Len(batch) /\ Pending[i] = batch[i - Len(tasks)]
      BY <2>2, <2>3
    <2>5. ASSUME NEW i \in 1 .. Len(Pending), NEW j \in 1 .. Len(Pending),
                 Pending[j].channel = Pending[i].channel
          PROVE  j = i
      <3>1. \A k \in 1 .. Len(tasks), l \in 1 .. Len(batch) : tasks[k].channel # batch[l].channel
        BY <2>1 DEF Queues, Queued
      <3>2. CASE i \in 1 .. Len(tasks) /\ Pending[i] = tasks[i]
        BY <2>1, <2>4, <2>5, <3>1, <3>2 DEF Queues, Distinct
      <3>3. CASE i - Len(tasks) \in 1 .. Len(batch) /\ Pending[i] = batch[i - Len(tasks)]
        <4>1. j - Len(tasks) \in 1 .. Len(batch) /\ Pending[j] = batch[j - Len(tasks)]
          BY <2>4, <2>5, <3>1, <3>3
        <4>2. j - Len(tasks) = i - Len(tasks)
          BY <2>1, <2>5, <3>3, <4>1 DEF Queues, Distinct
        <4> QED
          BY <2>2, <4>2
      <3> QED
        BY <2>4, <3>2, <3>3
    <2>6. ASSUME NEW i \in 1 .. Len(Pending), Pending[i].task # "doConnect"
          PROVE  Connecting(Pending[i].channel)
      <3>1. Pending[i].channel \in AllQueued
        BY <2>4 DEF AllQueued, Queued
      <3>2. life[Pending[i].channel] # "submitted"
        <4>1. CASE i \in 1 .. Len(tasks) /\ Pending[i] = tasks[i]
          <5>1. tasks[i].task # "doConnect" /\ RightKind(tasks, life)
            BY <2>1, <2>6, <4>1 DEF Queues
          <5>2. life[tasks[i].channel] # "submitted"
            BY <4>1, <5>1 DEF RightKind
          <5> QED
            BY <4>1, <5>2
        <4>2. CASE i - Len(tasks) \in 1 .. Len(batch) /\ Pending[i] = batch[i - Len(tasks)]
          <5>1. batch[i - Len(tasks)].task # "doConnect" /\ RightKind(batch, life)
            BY <2>1, <2>6, <4>2 DEF Queues
          <5>2. life[batch[i - Len(tasks)].channel] # "submitted"
            BY <4>2, <5>1 DEF RightKind
          <5> QED
            BY <4>2, <5>2
        <4> QED
          BY <2>4, <4>1, <4>2
      <3> QED
        BY <2>1, <3>1, <3>2 DEF Reported, QueuedAt
    <2>7. ASSUME NEW c \in Connectors, timers[c] > 0
          PROVE  timers[c] = 1 /\ state[c] = "DISCONNECTED" /\ ~ isRegistered[c]
                 /\ sockFd[c] = kInvalidFd
      <3>1. LocatedAt(c) /\ life[c] \in {"new", "submitted", "alive", "destroyed"}
        BY <2>1 DEF IInv, Located, TypeOK
      <3> QED
        BY <2>7, <3>1 DEF LocatedAt, Connecting, Deregistered, AwaitsTimer, Resting
    <2> QED
      BY <2>5, <2>6, <2>7 DEF OneAttempt, Connecting
  <1> QED
    BY <1>1, Invariance, PTL
=============================================================================
