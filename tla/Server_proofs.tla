---------------------------- MODULE Server_proofs ---------------------------
(***************************************************************************)
(* Proofs about Server, for any number of loops, connections and           *)
(* descriptors: every open descriptor has exactly one owner.               *)
(***************************************************************************)
EXTENDS Server, FiniteSetTheorems, SequenceLemmas, TLAPS

-----------------------------------------------------------------------------
(* The inductive invariant.                                                *)

MaybeFd == Fds \cup {kInvalidFd}

TypeOK == /\ setup \in Setups
          /\ open \subseteq Fds
          /\ otherFds \subseteq Fds
          /\ sockFd \in MaybeFd /\ idleFd \in MaybeFd /\ connFd \in MaybeFd
          /\ cur \subseteq Connections
          /\ arrived \subseteq Connections
          /\ backlog \in Seq(Connections)
          /\ DOMAIN chan = Connections
          /\ \A c \in Connections : chan[c].fd \in MaybeFd

(* What the main loop's thread has in hand at each of its steps.           *)
InHand == {"next", "register", "insert", "active", "connect"}

MainHolds ==
    /\ user \in {"begin", "loopMain"} => mpc = "idle"
    /\ user \in {"begin", "loopMain"} \/ mpc = "doBind"
           => sockFd = kInvalidFd /\ idleFd = kInvalidFd
    /\ mpc = "bindSocket" => sockFd = kInvalidFd
    /\ mpc \notin {"next", "closeConn"} => connFd = kInvalidFd
    /\ mpc \notin InHand => cur = {}
    /\ mpc \in InHand => \E c \in Connections : cur = {c}
    /\ mpc = "next" => \A c \in cur : chan[c].fd = kInvalidFd

(* A client connects once, and has no SocketChannel before it is accepted. *)
ConnectsOnce ==
    /\ cur \subseteq arrived
    /\ \A c \in Connections \ arrived : chan[c].fd = kInvalidFd
    /\ \A i \in 1 .. Len(backlog) : /\ backlog[i] \in arrived \ cur
                                    /\ chan[backlog[i]].fd = kInvalidFd
    /\ \A i, j \in 1 .. Len(backlog) : backlog[i] = backlog[j] => i = j

(* A SocketChannel exists as long as somebody points to it.                *)
Kept == \A c \in Connections : chan[c].fd # kInvalidFd => Referenced(c)

(* One owner: the parts of Owners, apart from each other.                  *)
OwnedAt(f) ==
    /\ f \in open <=> \/ sockFd = f
                      \/ idleFd = f /\ ~ IdleClosed
                      \/ connFd = f
                      \/ f \in otherFds
                      \/ \E c \in Connections : chan[c].fd = f
    /\ sockFd = f => (idleFd # f \/ IdleClosed) /\ connFd # f /\ f \notin otherFds
    /\ idleFd = f /\ ~ IdleClosed => connFd # f /\ f \notin otherFds
    /\ connFd = f => f \notin otherFds
    /\ \A c \in Connections :
          chan[c].fd = f => /\ sockFd # f /\ connFd # f /\ f \notin otherFds
                            /\ idleFd # f \/ IdleClosed
                            /\ \A d \in Connections : chan[d].fd = f => d = c

OwnedOnce == \A f \in Fds : OwnedAt(f)

IInv == TypeOK /\ MainHolds /\ ConnectsOnce /\ Kept /\ OwnedOnce

-----------------------------------------------------------------------------
(* Descriptors                                                             *)

LEMMA InvalidIsNone == kInvalidFd \notin Fds
  BY ServerAssumption DEF kInvalidFd

(* There is a lowest free descriptor unless all are in use.                *)
LEMMA FreeIsFree ==
    ASSUME TypeOK, ~ Full
    PROVE  FreeFd \in Fds /\ FreeFd \notin open
  <1> DEFINE T == Fds \ open
  <1>1. T # {} /\ T \subseteq Nat
    BY ServerAssumption DEF TypeOK, Full
  <1>2. \E x \in T : \A y \in T : x <= y
    <2> HIDE DEF T
    <2> QED BY <1>1, LeastNat
  <1>3. FreeFd \in T
    BY <1>2 DEF FreeFd
  <1> QED
    BY <1>3

-----------------------------------------------------------------------------
(* Steps that leave the descriptors where they are.                        *)
LEMMA Unmoved ==
    ASSUME IInv, DOMAIN chan' = Connections,
           \A c \in Connections : /\ chan'[c].fd = chan[c].fd
                                  /\ chan[c].inChannels => chan'[c].inChannels
                                  /\ chan[c].task => chan'[c].task,
           UNCHANGED <<setup, fdVars, sockFd, idleFd, cur, connFd, backlog, arrived>>,
           user' \in {"begin", "loopMain"} => user \in {"begin", "loopMain"},
           mpc' = mpc \/ (mpc \in InHand \ {"next"} /\ mpc' \in InHand \ {"next"}
                            /\ (user' \in {"begin", "loopMain"} => mpc' = mpc))
    PROVE  IInv'
  <1>1. TypeOK'
    BY DEF IInv, TypeOK, fdVars, MaybeFd
  <1>2. IdleClosed' = IdleClosed
    BY DEF IdleClosed, InHand
  <1>3. MainHolds'
    BY DEF IInv, TypeOK, MainHolds, InHand
  <1>4. ConnectsOnce'
    <2>1. \A i \in 1 .. Len(backlog) : backlog[i] \in Connections
      BY ElementOfSeq DEF IInv, TypeOK
    <2> QED
      BY <2>1 DEF IInv, ConnectsOnce
  <1>5. Kept'
    BY DEF IInv, Kept, Referenced
  <1>6. OwnedOnce'
    BY <1>2 DEF IInv, OwnedOnce, OwnedAt, fdVars
  <1> QED
    BY <1>1, <1>3, <1>4, <1>5, <1>6 DEF IInv

(* The last shared_ptr to a channel closes its descriptor.                 *)
LEMMA Released ==
    ASSUME IInv, NEW c \in Connections, NEW after, after.fd = chan[c].fd,
           Release(c, after), cur' \subseteq cur, cur \subseteq cur' \cup {c},
           UNCHANGED <<otherFds, sockFd, idleFd, connFd>>, IdleClosed' = IdleClosed
    PROVE  /\ open' \subseteq Fds
           /\ DOMAIN chan' = Connections
           /\ \A d \in Connections : chan'[d].fd = chan[d].fd \/ chan'[d].fd = kInvalidFd
           /\ Kept'
           /\ OwnedOnce'
  <1> DEFINE kept == after.inChannels \/ after.task \/ c \in cur'
  <1>1. CASE kept
    <2>1. chan' = [chan EXCEPT ![c] = after] /\ open' = open
      BY <1>1 DEF Release
    <2>2. DOMAIN chan' = Connections /\ \A d \in Connections : chan'[d].fd = chan[d].fd
      BY <2>1 DEF IInv, TypeOK
    <2>3. OwnedOnce'
      BY <2>1, <2>2 DEF IInv, OwnedOnce, OwnedAt
    <2>4. Kept'
      BY <1>1, <2>1 DEF IInv, TypeOK, Kept, Referenced
    <2> QED
      BY <2>1, <2>2, <2>3, <2>4 DEF IInv, TypeOK
  <1>2. CASE ~ kept
    <2>1. chan' = [chan EXCEPT ![c] = NoChannel] /\ open' = open \ {chan[c].fd}
      BY <1>2 DEF Release
    <2>2. /\ DOMAIN chan' = Connections
          /\ chan'[c] = NoChannel
          /\ chan'[c].fd = kInvalidFd
          /\ \A d \in Connections : d # c => chan'[d] = chan[d]
      BY <2>1 DEF IInv, TypeOK, NoChannel
    <2>3. OwnedOnce'
      <3> SUFFICES ASSUME NEW f \in Fds
                   PROVE  OwnedAt(f)'
        BY DEF OwnedOnce
      <3>1. OwnedAt(f)
        BY DEF IInv, OwnedOnce
      <3> QED
        BY <2>1, <2>2, <3>1, InvalidIsNone DEF OwnedAt
    <2>4. Kept'
      BY <2>2 DEF IInv, Kept, Referenced
    <2> QED
      BY <2>1, <2>2, <2>3, <2>4 DEF IInv, TypeOK
  <1> QED
    BY <1>1, <1>2

(* What remains of the invariant when a channel was released.              *)
LEMMA AfterRelease ==
    ASSUME IInv, open' \subseteq Fds, DOMAIN chan' = Connections,
           \A d \in Connections : chan'[d].fd = chan[d].fd \/ chan'[d].fd = kInvalidFd,
           Kept', OwnedOnce',
           UNCHANGED <<setup, user, otherFds, sockFd, idleFd, connFd, backlog, arrived>>,
           \/ mpc' = mpc /\ cur' = cur
           \/ mpc \in InHand \ {"next"} /\ mpc' = "idle" /\ cur' = {}
    PROVE  IInv'
  <1>1. TypeOK'
    BY DEF IInv, TypeOK, MaybeFd
  <1>2. MainHolds'
    BY DEF IInv, TypeOK, MainHolds, InHand
  <1>3. ConnectsOnce'
    <2>1. \A i \in 1 .. Len(backlog) : backlog[i] \in Connections
      BY ElementOfSeq DEF IInv, TypeOK
    <2>2. cur' \subseteq cur
      OBVIOUS
    <2> QED
      BY <2>1, <2>2 DEF IInv, ConnectsOnce
  <1> QED
    BY <1>1, <1>2, <1>3 DEF IInv

-----------------------------------------------------------------------------
(* The user's thread, the loops, shutdown() and the clients                *)

LEMMA UserStepHolds ==
    ASSUME IInv, UserStep, UNCHANGED setup
    PROVE  IInv'
  <1>1. CASE bind \/ Bound \/ sync \/ LoopEachReturns \/ SyncMain \/ SyncChildren
    <2>1. /\ UNCHANGED <<fdVars, mainVars, clientVars, chan>>
          /\ user' \in {"begin", "loopMain"} => user \in {"begin", "loopMain"}
      BY <1>1 DEF bind, Bound, sync, LoopEachReturns, SyncMain, SyncChildren, Wait, User
    <2> QED
      BY <2>1, Unmoved DEF mainVars, clientVars, IInv, TypeOK
  <1>2. CASE SubmitDoBind
    <2>1. /\ user = "loopMain" /\ user' = "waitBind" /\ mpc' = "doBind"
          /\ UNCHANGED <<open, otherFds, sockFd, idleFd, cur, connFd, backlog, arrived, chan>>
      BY <1>2 DEF SubmitDoBind, User, fdVars, clientVars
    <2>2. mpc = "idle" /\ sockFd = kInvalidFd /\ idleFd = kInvalidFd
      BY <2>1 DEF IInv, MainHolds
    <2>3. TypeOK'
      BY <2>1 DEF IInv, TypeOK, MaybeFd
    <2>4. MainHolds'
      BY <2>1, <2>2 DEF IInv, MainHolds, InHand
    <2>5. ConnectsOnce' /\ Kept'
      BY <2>1 DEF IInv, ConnectsOnce, Kept, Referenced
    <2>6. OwnedOnce'
      BY <2>1, <2>2 DEF IInv, OwnedOnce, OwnedAt, IdleClosed
    <2> QED
      BY <2>3, <2>4, <2>5, <2>6 DEF IInv
  <1> QED
    BY <1>1, <1>2 DEF UserStep

LEMMA LoopStepHolds ==
    ASSUME IInv, UNCHANGED setup,
           \/ \E l \in Loops : PushBack(l) \/ Run(l) \/ EndRun(l)
           \/ ShutdownCalled \/ ShutdownMain \/ ShutdownChildren
    PROVE  IInv'
  <1>1. UNCHANGED <<user, fdVars, mainVars, clientVars, chan>>
    BY DEF PushBack, Run, EndRun, ShutdownCalled, ShutdownMain, ShutdownChildren, Stopper
  <1> QED
    BY <1>1, Unmoved DEF mainVars, clientVars, IInv, TypeOK

LEMMA ConnectHolds ==
    ASSUME IInv, UNCHANGED setup, NEW c \in Connections, Connect(c)
    PROVE  IInv'
  <1>1. /\ c \notin arrived /\ arrived' = arrived \cup {c} /\ backlog' = Append(backlog, c)
        /\ UNCHANGED <<user, open, otherFds, sockFd, idleFd, mpc, cur, connFd, chan>>
    BY DEF Connect, fdVars, mainVars
  <1>2. TypeOK'
    BY <1>1, AppendProperties DEF IInv, TypeOK, MaybeFd
  <1>3. ConnectsOnce'
    <2>1. /\ Len(backlog') = Len(backlog) + 1 /\ Len(backlog) \in Nat
          /\ \A i \in 1 .. Len(backlog) : backlog'[i] = backlog[i]
          /\ backlog'[Len(backlog) + 1] = c
      BY <1>1, AppendProperties, LenProperties DEF IInv, TypeOK
    <2>2. c \notin cur /\ chan[c].fd = kInvalidFd
          /\ \A i \in 1 .. Len(backlog) : backlog[i] # c
      BY <1>1 DEF IInv, ConnectsOnce
    <2>3. \A i \in 1 .. Len(backlog') : i \in 1 .. Len(backlog) \/ i = Len(backlog) + 1
      BY <2>1
    <2>4. \A i \in 1 .. Len(backlog') : /\ backlog'[i] \in arrived' \ cur
                                        /\ chan[backlog'[i]].fd = kInvalidFd
      BY <1>1, <2>1, <2>2, <2>3 DEF IInv, ConnectsOnce
    <2>5. \A i, j \in 1 .. Len(backlog') : backlog'[i] = backlog'[j] => i = j
      BY <1>1, <2>1, <2>2, <2>3 DEF IInv, ConnectsOnce
    <2> QED
      BY <1>1, <2>4, <2>5 DEF IInv, ConnectsOnce
  <1>4. MainHolds' /\ Kept' /\ OwnedOnce'
    BY <1>1 DEF IInv, MainHolds, Kept, Referenced, OwnedOnce, OwnedAt, IdleClosed
  <1> QED
    BY <1>2, <1>3, <1>4 DEF IInv

-----------------------------------------------------------------------------
(* The threads of the child loops                                          *)

LEMMA ChildStepHolds ==
    ASSUME IInv, UNCHANGED setup, NEW l \in Children, ChildStep(l)
    PROVE  IInv'
  <1> PICK c \in Connections : channelInActive(l, c) \/ StartErase(l, c) \/ EndErase(l, c)
    BY DEF ChildStep
  <1>1. CASE channelInActive(l, c)
    <2>1. /\ \/ chan' = [chan EXCEPT ![c].active = FALSE, ![c].task = TRUE]
             \/ chan' = [chan EXCEPT ![c].active = FALSE]
          /\ UNCHANGED <<user, fdVars, mainVars, clientVars>>
      BY <1>1 DEF channelInActive
    <2>2. DOMAIN chan' = Connections
      BY <2>1 DEF IInv, TypeOK
    <2>3. \A d \in Connections : /\ chan'[d].fd = chan[d].fd
                                 /\ chan[d].inChannels => chan'[d].inChannels
                                 /\ chan[d].task => chan'[d].task
      <3>1. CASE chan' = [chan EXCEPT ![c].active = FALSE, ![c].task = TRUE]
        BY <3>1 DEF IInv, TypeOK
      <3>2. CASE chan' = [chan EXCEPT ![c].active = FALSE]
        BY <3>2 DEF IInv, TypeOK
      <3> QED
        BY <2>1, <3>1, <3>2
    <2> QED
      BY <2>1, <2>2, <2>3, Unmoved DEF mainVars, clientVars
  <1>2. CASE StartErase(l, c)
    <2>1. /\ chan' = [chan EXCEPT ![c].registered = FALSE]
          /\ UNCHANGED <<user, fdVars, mainVars, clientVars>>
      BY <1>2 DEF StartErase
    <2>2. DOMAIN chan' = Connections
      BY <2>1 DEF IInv, TypeOK
    <2>3. \A d \in Connections : /\ chan'[d].fd = chan[d].fd
                                 /\ chan[d].inChannels => chan'[d].inChannels
                                 /\ chan[d].task => chan'[d].task
      BY <2>1 DEF IInv, TypeOK
    <2> QED
      BY <2>1, <2>2, <2>3, Unmoved DEF mainVars, clientVars
  <1>3. CASE EndErase(l, c)
    <2> DEFINE after == [chan[c] EXCEPT !.inChannels = FALSE, !.task = FALSE]
    <2>1. /\ Release(c, after)
          /\ UNCHANGED <<user, otherFds, sockFd, idleFd, mpc, cur, connFd, backlog, arrived>>
      BY <1>3 DEF EndErase, mainVars, clientVars
    <2>2. after.fd = chan[c].fd
      OBVIOUS
    <2>3. /\ open' \subseteq Fds
          /\ DOMAIN chan' = Connections
          /\ \A d \in Connections : chan'[d].fd = chan[d].fd \/ chan'[d].fd = kInvalidFd
          /\ Kept' /\ OwnedOnce'
      <3> HIDE DEF after
      <3>1. IdleClosed' = IdleClosed
        BY <2>1 DEF IdleClosed
      <3> QED BY <2>1, <2>2, <3>1, Released
    <2> QED
      BY <2>1, <2>3, AfterRelease
  <1> QED
    BY <1>1, <1>2, <1>3

-----------------------------------------------------------------------------
(* The main loop: doBind()                                                 *)

(* A step between idle, doBind() and dealwithEMFILE(), in which no channel *)
(* is in hand: what is left to show is about the descriptors.              *)
LEMMA NoneInHand ==
    ASSUME IInv, mpc \notin InHand, mpc' \notin InHand,
           user \notin {"begin", "loopMain"}, mpc' # "doBind",
           UNCHANGED <<setup, user, cur, chan, arrived>>,
           backlog' = backlog \/ (backlog # << >> /\ backlog' = Tail(backlog)),
           open' \subseteq Fds, otherFds' \subseteq Fds,
           sockFd' \in MaybeFd, idleFd' \in MaybeFd, connFd' \in MaybeFd,
           mpc' = "bindSocket" => sockFd' = kInvalidFd,
           mpc' # "closeConn" => connFd' = kInvalidFd,
           OwnedOnce'
    PROVE  IInv'
  <1>1. /\ backlog' \in Seq(Connections)
        /\ \A i \in 1 .. Len(backlog') : \E j \in 1 .. Len(backlog) : backlog'[i] = backlog[j]
        /\ \A i, j \in 1 .. Len(backlog') : backlog'[i] = backlog'[j] => i = j
    <2>1. backlog \in Seq(Connections) /\ Len(backlog) \in Nat
      BY LenProperties DEF IInv, TypeOK
    <2>2. CASE backlog' = backlog
      BY <2>1, <2>2 DEF IInv, ConnectsOnce
    <2>3. CASE backlog # << >> /\ backlog' = Tail(backlog)
      <3>1. /\ backlog' \in Seq(Connections) /\ Len(backlog') = Len(backlog) - 1
            /\ \A i \in 1 .. Len(backlog') : backlog'[i] = backlog[i + 1]
        BY <2>1, <2>3, HeadTailProperties
      <3>2. \A i \in 1 .. Len(backlog') : i + 1 \in 1 .. Len(backlog)
        BY <2>1, <3>1
      <3>3. \A i, j \in 1 .. Len(backlog') : backlog'[i] = backlog'[j] => i = j
        BY <3>1, <3>2 DEF IInv, ConnectsOnce
      <3> QED
        BY <3>1, <3>2, <3>3
    <2> QED
      BY <2>2, <2>3
  <1>2. TypeOK'
    BY <1>1 DEF IInv, TypeOK, MaybeFd
  <1>3. MainHolds'
    BY DEF IInv, MainHolds, InHand
  <1>4. ConnectsOnce'
    <2>1. \A i \in 1 .. Len(backlog') : /\ backlog'[i] \in arrived \ cur
                                        /\ chan[backlog'[i]].fd = kInvalidFd
      BY <1>1 DEF IInv, ConnectsOnce
    <2> QED
      BY <1>1, <2>1 DEF IInv, ConnectsOnce
  <1>5. Kept'
    BY DEF IInv, Kept, Referenced
  <1> QED
    BY <1>2, <1>3, <1>4, <1>5 DEF IInv

LEMMA DoBindHolds ==
    ASSUME IInv, UNCHANGED setup, doBind
    PROVE  IInv'
  <1>1. /\ mpc = "doBind" /\ sockFd = kInvalidFd /\ idleFd = kInvalidFd /\ connFd = kInvalidFd
        /\ user \notin {"begin", "loopMain"}
        /\ createIdleFd("bindSocket", "idle")
        /\ UNCHANGED <<user, otherFds, sockFd, connFd, cur, chan, backlog, arrived>>
    BY DEF doBind, MainAt, MainRest, clientVars, IInv, MainHolds
  <1>2. CASE Full
    <2>1. idleFd' = kInvalidFd /\ mpc' = "idle" /\ open' = open
      BY <1>1, <1>2 DEF createIdleFd
    <2>2. OwnedOnce'
      BY <1>1, <2>1 DEF IInv, OwnedOnce, OwnedAt, IdleClosed
    <2> QED
      BY <1>1, <2>1, <2>2, NoneInHand DEF IInv, TypeOK, MaybeFd, InHand
  <1>3. CASE ~ Full
    <2>1. /\ FreeFd \in Fds /\ FreeFd \notin open
          /\ idleFd' = FreeFd /\ mpc' = "bindSocket" /\ open' = open \cup {FreeFd}
      BY <1>1, <1>3, FreeIsFree DEF createIdleFd, IInv
    <2>2. OwnedOnce'
      <3> SUFFICES ASSUME NEW f \in Fds
                   PROVE  OwnedAt(f)'
        BY DEF OwnedOnce
      <3> QED
        BY <1>1, <2>1, InvalidIsNone DEF IInv, OwnedOnce, OwnedAt, IdleClosed
    <2> QED
      BY <1>1, <2>1, <2>2, NoneInHand DEF IInv, TypeOK, MaybeFd, InHand
  <1> QED
    BY <1>2, <1>3

LEMMA BindFailsHolds ==
    ASSUME IInv, BindFails, mpc \in {"bindSocket", "bindListen"},
           UNCHANGED <<setup, user, otherFds, connFd, cur, chan, backlog, arrived>>
    PROVE  IInv'
  <1>1. /\ open' = open \ {idleFd, sockFd}
        /\ idleFd' = kInvalidFd /\ sockFd' = kInvalidFd /\ mpc' = "idle"
    BY DEF BindFails
  <1>2. user \notin {"begin", "loopMain"} /\ connFd = kInvalidFd
    BY DEF IInv, MainHolds
  <1>3. OwnedOnce'
    <2> SUFFICES ASSUME NEW f \in Fds
                 PROVE  OwnedAt(f)'
      BY DEF OwnedOnce
    <2> QED
      BY <1>1, InvalidIsNone DEF IInv, OwnedOnce, OwnedAt, IdleClosed
  <1> QED
    BY <1>1, <1>2, <1>3, NoneInHand DEF IInv, TypeOK, MaybeFd, InHand

LEMMA BindHolds ==
    ASSUME IInv, UNCHANGED setup, BindSocket \/ BindListen
    PROVE  IInv'
  <1>1. /\ mpc \in {"bindSocket", "bindListen"}
        /\ UNCHANGED <<user, otherFds, connFd, cur, chan, backlog, arrived>>
    BY DEF BindSocket, BindListen, MainAt, MainRest, clientVars
  <1>2. user \notin {"begin", "loopMain"} /\ connFd = kInvalidFd
    BY <1>1 DEF IInv, MainHolds
  <1>3. CASE BindSocket /\ ~ Full
    <2>1. /\ FreeFd \in Fds /\ FreeFd \notin open
          /\ sockFd' = FreeFd /\ open' = open \cup {FreeFd}
          /\ mpc' = "bindListen" /\ idleFd' = idleFd
          /\ mpc = "bindSocket" /\ sockFd = kInvalidFd
      BY <1>3, FreeIsFree DEF BindSocket, MainAt, IInv, MainHolds
    <2>2. OwnedOnce'
      <3> SUFFICES ASSUME NEW f \in Fds
                   PROVE  OwnedAt(f)'
        BY DEF OwnedOnce
      <3> QED
        BY <1>1, <2>1, InvalidIsNone DEF IInv, OwnedOnce, OwnedAt, IdleClosed
    <2> QED
      BY <1>1, <1>2, <2>1, <2>2, NoneInHand DEF IInv, TypeOK, MaybeFd, InHand
  <1>4. CASE BindListen /\ mpc' = "idle" /\ UNCHANGED <<open, idleFd, sockFd>>
    <2>1. OwnedOnce'
      BY <1>1, <1>4 DEF IInv, OwnedOnce, OwnedAt, IdleClosed
    <2> QED
      BY <1>1, <1>2, <1>4, <2>1, NoneInHand DEF IInv, TypeOK, MaybeFd, InHand
  <1>5. CASE BindFails
    BY <1>1, <1>5, BindFailsHolds
  <1> QED
    BY <1>3, <1>4, <1>5 DEF BindSocket, BindListen

-----------------------------------------------------------------------------
(* The main loop: handleReadEvent()                                        *)

LEMMA AcceptHolds ==
    ASSUME IInv, UNCHANGED setup, accept
    PROVE  IInv'
  <1>1. /\ mpc = "idle" /\ sockFd # kInvalidFd /\ connFd = kInvalidFd /\ cur = {}
        /\ backlog # << >>
        /\ user \notin {"begin", "loopMain"}
        /\ UNCHANGED <<user, otherFds, sockFd, idleFd, arrived, chan>>
    BY DEF accept, MainAt, MainRest, Listening, IInv, MainHolds, InHand
  <1>2. CASE /\ ~ Full
             /\ connFd' = FreeFd /\ open' = open \cup {FreeFd}
             /\ cur' = {Head(backlog)} /\ backlog' = Tail(backlog)
             /\ mpc' = "next"
    <2>1. FreeFd \in Fds /\ FreeFd \notin open
      BY <1>2, FreeIsFree DEF IInv
    <2>2. /\ backlog \in Seq(Connections) /\ Len(backlog) \in Nat /\ 1 \in 1 .. Len(backlog)
          /\ Head(backlog) = backlog[1] /\ Head(backlog) \in Connections
          /\ backlog' \in Seq(Connections) /\ Len(backlog') = Len(backlog) - 1
          /\ \A i \in 1 .. Len(backlog') : backlog'[i] = backlog[i + 1]
      BY <1>1, <1>2, HeadTailProperties, LenProperties, EmptySeq DEF IInv, TypeOK
    <2>3. /\ Head(backlog) \in arrived /\ chan[Head(backlog)].fd = kInvalidFd
      BY <2>2 DEF IInv, ConnectsOnce
    <2>4. \A i \in 1 .. Len(backlog') : i + 1 \in 1 .. Len(backlog) /\ i + 1 # 1
      BY <2>2
    <2>5. TypeOK'
      BY <1>1, <1>2, <2>1, <2>2 DEF IInv, TypeOK, MaybeFd
    <2>6. MainHolds'
      BY <1>1, <1>2, <2>2, <2>3 DEF MainHolds, InHand
    <2>7. ConnectsOnce'
      <3>1. \A i \in 1 .. Len(backlog') : backlog'[i] # Head(backlog)
        BY <2>2, <2>4 DEF IInv, ConnectsOnce
      <3>2. \A i \in 1 .. Len(backlog') : /\ backlog'[i] \in arrived \ cur'
                                          /\ chan[backlog'[i]].fd = kInvalidFd
        BY <1>2, <2>2, <2>4, <3>1 DEF IInv, ConnectsOnce
      <3>3. \A i, j \in 1 .. Len(backlog') : backlog'[i] = backlog'[j] => i = j
        BY <2>2, <2>4 DEF IInv, ConnectsOnce
      <3> QED
        BY <1>1, <1>2, <2>3, <3>2, <3>3 DEF IInv, ConnectsOnce
    <2>8. Kept'
      BY <1>1 DEF IInv, Kept, Referenced
    <2>9. OwnedOnce'
      <3> SUFFICES ASSUME NEW f \in Fds
                   PROVE  OwnedAt(f)'
        BY DEF OwnedOnce
      <3> QED
        BY <1>1, <1>2, <2>1, InvalidIsNone DEF IInv, OwnedOnce, OwnedAt, IdleClosed
    <2> QED
      BY <2>5, <2>6, <2>7, <2>8, <2>9 DEF IInv
  <1>3. CASE /\ mpc' \in {"idle", "closeIdle"}
             /\ UNCHANGED <<connFd, open, cur>>
             /\ backlog' = backlog \/ backlog' = Tail(backlog)
    <2>1. OwnedOnce'
      BY <1>1, <1>3 DEF IInv, OwnedOnce, OwnedAt, IdleClosed
    <2> QED
      BY <1>1, <1>3, <2>1, NoneInHand DEF IInv, TypeOK, MaybeFd, InHand
  <1> QED
    BY <1>1, <1>2, <1>3 DEF accept

LEMMA NextHolds ==
    ASSUME IInv, UNCHANGED setup, next
    PROVE  IInv'
  <1>1. /\ mpc = "next"
        /\ UNCHANGED <<user, open, otherFds, sockFd, idleFd, cur, backlog, arrived>>
    BY DEF next, MainAt, fdVars, clientVars
  <1>2. CASE UNCHANGED <<chan, mpc, connFd>>
    BY <1>1, <1>2, Unmoved DEF fdVars, IInv, TypeOK, next
  <1>3. CASE /\ chan' = [c \in Connections |->
                            IF c \in cur
                            THEN [NoChannel EXCEPT !.fd = connFd, !.loop = eventLoops[nextLoop]]
                            ELSE chan[c]]
             /\ mpc' = "register" /\ connFd' = kInvalidFd
    <2> PICK c \in Connections : cur = {c}
      BY <1>1 DEF IInv, MainHolds, InHand
    <2>1. chan[c].fd = kInvalidFd /\ c \in arrived
      BY <1>1 DEF IInv, MainHolds, ConnectsOnce
    <2>2. /\ DOMAIN chan' = Connections
          /\ chan'[c].fd = connFd
          /\ \A d \in Connections : d # c => chan'[d] = chan[d]
      BY <1>3 DEF NoChannel
    <2>3. TypeOK'
      BY <1>1, <1>3, <2>2 DEF IInv, TypeOK, MaybeFd
    <2>4. MainHolds'
      BY <1>1, <1>3 DEF IInv, MainHolds, InHand
    <2>5. ConnectsOnce'
      <3>1. \A i \in 1 .. Len(backlog) : backlog[i] \in Connections /\ backlog[i] # c
        BY ElementOfSeq DEF IInv, TypeOK, ConnectsOnce
      <3> QED
        BY <1>1, <2>1, <2>2, <3>1 DEF IInv, ConnectsOnce
    <2>6. Kept'
      BY <1>1, <2>2 DEF IInv, Kept, Referenced
    <2>7. OwnedOnce'
      <3> SUFFICES ASSUME NEW f \in Fds
                   PROVE  OwnedAt(f)'
        BY DEF OwnedOnce
      <3>1. OwnedAt(f)
        BY DEF IInv, OwnedOnce
      <3>2. \A d \in Connections : chan'[d].fd = f <=> (chan[d].fd = f \/ (d = c /\ connFd = f))
        BY <2>1, <2>2, InvalidIsNone
      <3> QED
        BY <1>1, <1>3, <3>1, <3>2, InvalidIsNone DEF OwnedAt, IdleClosed
    <2> QED
      BY <2>3, <2>4, <2>5, <2>6, <2>7 DEF IInv
  <1> QED
    BY <1>2, <1>3 DEF next

LEMMA RegisterHolds ==
    ASSUME IInv, UNCHANGED setup, RegisterChannel
    PROVE  IInv'
  <1>1. /\ mpc = "register"
        /\ UNCHANGED <<user, otherFds, opens, sockFd, idleFd, connFd, backlog, arrived>>
    BY DEF RegisterChannel, MainAt, clientVars
  <1> PICK c \in Connections : cur = {c}
    BY <1>1 DEF IInv, MainHolds, InHand
  <1>2. CASE /\ chan' = [chan EXCEPT ![c].registered = TRUE]
             /\ mpc' = "insert"
             /\ UNCHANGED <<cur, open>>
    <2>1. DOMAIN chan' = Connections
      BY <1>2 DEF IInv, TypeOK
    <2>2. \A d \in Connections : /\ chan'[d].fd = chan[d].fd
                                 /\ chan[d].inChannels => chan'[d].inChannels
                                 /\ chan[d].task => chan'[d].task
      BY <1>2 DEF IInv, TypeOK
    <2>3. user \notin {"begin", "loopMain"}
      BY <1>1 DEF IInv, MainHolds
    <2> QED
      BY <1>1, <1>2, <2>1, <2>2, <2>3, Unmoved DEF fdVars, InHand
  <1>3. CASE cur' = {} /\ mpc' = "idle" /\ Release(c, chan[c])
    <2>1. IdleClosed' = IdleClosed
      BY <1>1, <1>3 DEF IdleClosed
    <2>2. /\ open' \subseteq Fds
          /\ DOMAIN chan' = Connections
          /\ \A d \in Connections : chan'[d].fd = chan[d].fd \/ chan'[d].fd = kInvalidFd
          /\ Kept' /\ OwnedOnce'
      BY <1>1, <1>3, <2>1, Released
    <2> QED
      BY <1>1, <1>3, <2>2, AfterRelease DEF InHand
  <1> QED
    BY <1>2, <1>3 DEF RegisterChannel

LEMMA InsertHolds ==
    ASSUME IInv, UNCHANGED setup, Insert \/ Activate
    PROVE  IInv'
  <1>1. /\ mpc \in {"insert", "active"} /\ mpc' \in {"active", "connect"}
        /\ user \notin {"begin", "loopMain"}
        /\ UNCHANGED <<user, fdVars, sockFd, idleFd, cur, connFd, backlog, arrived>>
    BY DEF Insert, Activate, MainAt, MainRest, fdVars, clientVars, IInv, MainHolds
  <1>2. /\ DOMAIN chan' = Connections
        /\ \A c \in Connections : /\ chan'[c].fd = chan[c].fd
                                  /\ chan[c].inChannels => chan'[c].inChannels
                                  /\ chan[c].task => chan'[c].task
    <2>1. CASE Insert
      BY <2>1 DEF Insert
    <2>2. CASE Activate
      BY <2>2 DEF Activate
    <2> QED
      BY <2>1, <2>2
  <1> QED
    BY <1>1, <1>2, Unmoved DEF InHand

LEMMA FireConnectHolds ==
    ASSUME IInv, UNCHANGED setup, FireConnect
    PROVE  IInv'
  <1>1. /\ mpc = "connect" /\ mpc' = "idle" /\ cur' = {}
        /\ UNCHANGED <<user, otherFds, sockFd, idleFd, connFd, backlog, arrived>>
    BY DEF FireConnect, MainAt, MainRest, clientVars
  <1> PICK c \in Connections : cur = {c}
    BY <1>1 DEF IInv, MainHolds, InHand
  <1>2. Release(c, chan[c])
    BY DEF FireConnect
  <1>3. IdleClosed' = IdleClosed
    BY <1>1 DEF IdleClosed
  <1>4. /\ open' \subseteq Fds
        /\ DOMAIN chan' = Connections
        /\ \A d \in Connections : chan'[d].fd = chan[d].fd \/ chan'[d].fd = kInvalidFd
        /\ Kept' /\ OwnedOnce'
    BY <1>1, <1>2, <1>3, Released
  <1> QED
    BY <1>1, <1>4, AfterRelease DEF InHand

-----------------------------------------------------------------------------
(* dealwithEMFILE()                                                        *)

LEMMA EMFILEHolds ==
    ASSUME IInv, UNCHANGED setup, dealwithEMFILE
    PROVE  IInv'
  <1>1. /\ mpc \in {"closeIdle", "acceptAgain", "closeConn", "openIdle"}
        /\ user \notin {"begin", "loopMain"}
        /\ UNCHANGED <<user, otherFds, sockFd, cur, chan, arrived>>
    BY DEF dealwithEMFILE, CloseIdle, AcceptAgain, CloseConn, OpenIdle, MainAt, MainRest,
           clientVars, IInv, MainHolds
  <1>2. CASE CloseIdle
    <2>1. /\ mpc = "closeIdle" /\ mpc' = "acceptAgain" /\ open' = open \ {idleFd}
          /\ UNCHANGED <<idleFd, connFd, backlog>> /\ connFd = kInvalidFd
      BY <1>2 DEF CloseIdle, MainAt, clientVars, IInv, MainHolds
    <2>2. OwnedOnce'
      <3> SUFFICES ASSUME NEW f \in Fds
                   PROVE  OwnedAt(f)'
        BY DEF OwnedOnce
      <3> QED
        BY <1>1, <2>1 DEF IInv, OwnedOnce, OwnedAt, IdleClosed
    <2> QED
      BY <1>1, <2>1, <2>2, NoneInHand DEF IInv, TypeOK, InHand
  <1>3. CASE AcceptAgain
    <2>1. /\ mpc = "acceptAgain" /\ mpc' = "closeConn" /\ idleFd' = idleFd
          /\ connFd = kInvalidFd
          /\ backlog' = backlog \/ (backlog # << >> /\ backlog' = Tail(backlog))
      BY <1>3 DEF AcceptAgain, MainAt, IInv, MainHolds
    <2>2. CASE UNCHANGED <<connFd, open>>
      <3>1. OwnedOnce'
        BY <1>1, <2>1, <2>2 DEF IInv, OwnedOnce, OwnedAt, IdleClosed
      <3> QED
        BY <1>1, <2>1, <2>2, <3>1, NoneInHand DEF IInv, TypeOK, InHand
    <2>3. CASE ~ Full /\ connFd' = FreeFd /\ open' = open \cup {FreeFd}
      <3>1. FreeFd \in Fds /\ FreeFd \notin open
        BY <2>3, FreeIsFree DEF IInv
      <3>2. OwnedOnce'
        <4> SUFFICES ASSUME NEW f \in Fds
                     PROVE  OwnedAt(f)'
          BY DEF OwnedOnce
        <4> QED
          BY <1>1, <2>1, <2>3, <3>1, InvalidIsNone DEF IInv, OwnedOnce, OwnedAt, IdleClosed
      <3> QED
        BY <1>1, <2>1, <2>3, <3>1, <3>2, NoneInHand DEF IInv, TypeOK, MaybeFd, InHand
    <2> QED
      BY <1>3, <2>2, <2>3 DEF AcceptAgain
  <1>4. CASE CloseConn
    <2>1. /\ mpc = "closeConn" /\ mpc' = "openIdle" /\ open' = open \ {connFd}
          /\ connFd' = kInvalidFd /\ UNCHANGED <<idleFd, backlog>>
      BY <1>4 DEF CloseConn, MainAt, clientVars
    <2>2. OwnedOnce'
      <3> SUFFICES ASSUME NEW f \in Fds
                   PROVE  OwnedAt(f)'
        BY DEF OwnedOnce
      <3> QED
        BY <1>1, <2>1, InvalidIsNone DEF IInv, OwnedOnce, OwnedAt, IdleClosed
    <2> QED
      BY <1>1, <2>1, <2>2, NoneInHand DEF IInv, TypeOK, MaybeFd, InHand
  <1>5. CASE OpenIdle
    <2>1. /\ mpc = "openIdle" /\ createIdleFd("idle", "idle")
          /\ UNCHANGED <<connFd, backlog>> /\ connFd = kInvalidFd
      BY <1>5 DEF OpenIdle, MainAt, clientVars, IInv, MainHolds
    <2>2. CASE Full
      <3>1. idleFd' = kInvalidFd /\ mpc' = "idle" /\ open' = open
        BY <2>1, <2>2 DEF createIdleFd
      <3>2. OwnedOnce'
        <4> SUFFICES ASSUME NEW f \in Fds
                     PROVE  OwnedAt(f)'
          BY DEF OwnedOnce
        <4> QED
          BY <1>1, <2>1, <3>1, InvalidIsNone DEF IInv, OwnedOnce, OwnedAt, IdleClosed
      <3> QED
        BY <1>1, <2>1, <3>1, <3>2, NoneInHand DEF IInv, TypeOK, MaybeFd, InHand
    <2>3. CASE ~ Full
      <3>1. /\ FreeFd \in Fds /\ FreeFd \notin open
            /\ idleFd' = FreeFd /\ mpc' = "idle" /\ open' = open \cup {FreeFd}
        BY <2>1, <2>3, FreeIsFree DEF createIdleFd, IInv
      <3>2. OwnedOnce'
        <4> SUFFICES ASSUME NEW f \in Fds
                     PROVE  OwnedAt(f)'
          BY DEF OwnedOnce
        <4> QED
          BY <1>1, <2>1, <3>1, InvalidIsNone DEF IInv, OwnedOnce, OwnedAt, IdleClosed
      <3> QED
        BY <1>1, <2>1, <3>1, <3>2, NoneInHand DEF IInv, TypeOK, MaybeFd, InHand
    <2> QED
      BY <2>2, <2>3
  <1> QED
    BY <1>2, <1>3, <1>4, <1>5 DEF dealwithEMFILE

-----------------------------------------------------------------------------
(* The rest of the process                                                 *)

LEMMA OthersHold ==
    ASSUME IInv, UNCHANGED setup, OtherOpens \/ OtherCloses
    PROVE  IInv'
  <1>1. UNCHANGED <<user, sockFd, idleFd, mpc, cur, connFd, backlog, arrived, chan>>
    BY DEF OtherOpens, OtherCloses, mainVars, clientVars
  <1>2. MainHolds' /\ ConnectsOnce' /\ Kept'
    BY <1>1 DEF IInv, MainHolds, ConnectsOnce, Kept, Referenced
  <1>3. open' \subseteq Fds /\ otherFds' \subseteq Fds /\ OwnedOnce'
    <2>1. CASE OtherOpens
      <3>1. /\ FreeFd \in Fds /\ FreeFd \notin open
            /\ open' = open \cup {FreeFd} /\ otherFds' = otherFds \cup {FreeFd}
        BY <2>1, FreeIsFree DEF OtherOpens, IInv
      <3>2. OwnedOnce'
        <4> SUFFICES ASSUME NEW f \in Fds
                     PROVE  OwnedAt(f)'
          BY DEF OwnedOnce
        <4> QED
          BY <1>1, <3>1 DEF IInv, OwnedOnce, OwnedAt, IdleClosed
      <3> QED
        BY <3>1, <3>2 DEF IInv, TypeOK
    <2>2. CASE OtherCloses
      <3> PICK g \in otherFds : open' = open \ {g} /\ otherFds' = otherFds \ {g}
        BY <2>2 DEF OtherCloses
      <3>1. OwnedOnce'
        <4> SUFFICES ASSUME NEW f \in Fds
                     PROVE  OwnedAt(f)'
          BY DEF OwnedOnce
        <4> QED
          BY <1>1 DEF IInv, OwnedOnce, OwnedAt, IdleClosed
      <3> QED
        BY <3>1 DEF IInv, TypeOK
    <2> QED
      BY <2>1, <2>2
  <1>4. TypeOK'
    BY <1>1, <1>3 DEF IInv, TypeOK, MaybeFd
  <1> QED
    BY <1>2, <1>3, <1>4 DEF IInv

-----------------------------------------------------------------------------
(* The inductive invariant holds: who has which descriptor, and what the   *)
(* main loop's thread has in hand at every step of bind(), of              *)
(* handleReadEvent() and of dealwithEMFILE().                              *)
THEOREM Invariance == Spec => []IInv
  <1>1. Init => IInv
    <2> SUFFICES ASSUME Init
                 PROVE  IInv
      OBVIOUS
    <2>1. \A c \in Connections : chan[c].fd = kInvalidFd
      BY DEF Init, NoChannel
    <2>2. backlog = << >> /\ Len(backlog) = 0 /\ backlog \in Seq(Connections)
      BY EmptySeq DEF Init
    <2>3. TypeOK
      BY <2>1, <2>2 DEF Init, TypeOK, MaybeFd
    <2>4. MainHolds /\ ConnectsOnce /\ Kept
      BY <2>1, <2>2 DEF Init, MainHolds, ConnectsOnce, Kept, InHand
    <2>5. OwnedOnce
      BY <2>1, InvalidIsNone DEF Init, OwnedOnce, OwnedAt
    <2> QED
      BY <2>3, <2>4, <2>5 DEF IInv
  <1>2. IInv /\ [Next]_vars => IInv'
    <2> SUFFICES ASSUME IInv, [Next]_vars
                 PROVE  IInv'
      OBVIOUS
    <2>1. CASE UNCHANGED vars
      BY <2>1, Unmoved DEF vars, fdVars, mainVars, clientVars, IInv, TypeOK
    <2>2. CASE Next
      <3>1. UNCHANGED setup
        BY <2>2 DEF Next, Defined
      <3>2. CASE UserStep
        BY <3>1, <3>2, UserStepHolds
      <3>3. CASE \/ \E l \in Loops : PushBack(l) \/ Run(l) \/ EndRun(l)
                 \/ ShutdownCalled \/ ShutdownMain \/ ShutdownChildren
        BY <3>1, <3>3, LoopStepHolds
      <3>4. CASE \E l \in Children : ChildStep(l)
        BY <3>1, <3>4, ChildStepHolds
      <3>5. CASE MainStep
        BY <3>1, <3>5, DoBindHolds, BindHolds, AcceptHolds, NextHolds, RegisterHolds,
           InsertHolds, FireConnectHolds, EMFILEHolds DEF MainStep
      <3>6. CASE \E c \in Connections : Connect(c)
        BY <3>1, <3>6, ConnectHolds
      <3>7. CASE OtherOpens \/ OtherCloses
        BY <3>1, <3>7, OthersHold
      <3> QED
        BY <2>2, <3>2, <3>3, <3>4, <3>5, <3>6, <3>7 DEF Next
    <2> QED
      BY <2>1, <2>2
  <1> QED
    BY <1>1, <1>2, PTL DEF Spec

(* Every open descriptor has exactly one owner, and a closed one none: no  *)
(* leak and no double close through failed binds, exceptions, failed       *)
(* registrations, the exchange of the idle descriptor, and the race of the *)
(* two threads that let go of a SocketChannel.                             *)
THEOREM DescriptorsHaveOneOwner == Spec => []DescriptorsOwned
  <1>1. IInv => DescriptorsOwned
    <2> SUFFICES ASSUME IInv, NEW f \in Fds
                 PROVE  Cardinality(Owners(f)) = IF f \in open THEN 1 ELSE 0
      BY DEF DescriptorsOwned
    <2>1. OwnedAt(f)
      BY DEF IInv, OwnedOnce
    <2>2. {c \in Connections : chan[c].fd = f /\ Referenced(c)}
              = {c \in Connections : chan[c].fd = f}
      BY InvalidIsNone DEF IInv, Kept
    <2>3. CASE f \notin open
      <3>1. Owners(f) = {}
        BY <2>1, <2>3 DEF OwnedAt, Owners
      <3> QED
        BY <2>3, <3>1, FS_EmptySet
    <2>4. CASE f \in open
      <3>1. \E o : Owners(f) = {o}
        <4>1. CASE sockFd = f
          <5>1. Owners(f) = {"sockFd"}
            BY <2>1, <4>1 DEF OwnedAt, Owners
          <5> QED BY <5>1
        <4>2. CASE idleFd = f /\ ~ IdleClosed
          <5>1. Owners(f) = {"idleFd"}
            BY <2>1, <4>2 DEF OwnedAt, Owners
          <5> QED BY <5>1
        <4>3. CASE connFd = f
          <5>1. Owners(f) = {"connFd"}
            BY <2>1, <4>3 DEF OwnedAt, Owners
          <5> QED BY <5>1
        <4>4. CASE f \in otherFds
          <5>1. Owners(f) = {"other"}
            BY <2>1, <4>4 DEF OwnedAt, Owners
          <5> QED BY <5>1
        <4>5. ASSUME NEW c \in Connections, chan[c].fd = f
              PROVE  Owners(f) = {c}
          BY <2>1, <2>2, <4>5 DEF OwnedAt, Owners
        <4> QED
          BY <2>1, <2>4, <4>1, <4>2, <4>3, <4>4, <4>5 DEF OwnedAt
      <3> QED
        BY <2>4, <3>1, FS_Singleton
    <2> QED
      BY <2>3, <2>4
  <1> QED
    BY <1>1, Invariance, PTL
=============================================================================
