-------------------------- MODULE ThreadPool_proofs -------------------------
(***************************************************************************)
(* Proofs about ThreadPool, for any number of clients, stoppers, workers   *)
(* and tasks and any sizes of the pool and its queue: the count in ctl_ is *)
(* exact, and a task runs at most once and only if it was accepted.        *)
(***************************************************************************)
EXTENDS ThreadPool, FiniteSetTheorems, SequenceTheorems, TLAPS

-----------------------------------------------------------------------------
(* The inductive invariant.                                                *)

TypeOK ==
    /\ state \in {"running", "shutdown"}
    /\ count \in Int
    /\ queue \in Seq(Tasks)
    /\ cpc \in [Clients -> {"idle", "addCore", "addMax", "newCore", "newMax",
                            "reload", "push", "signal"}]
    /\ ctask \in [Clients -> Tasks \cup {NoOne}]
    /\ wpc \in [Workers -> {"none", "task", "loop", "take", "awake", "expired", "look",
                            "lastLook", "block", "waiting", "release"}]
    /\ wtask \in [Workers -> Tasks \cup {NoOne}]
    /\ spc \in [Stoppers -> {"idle", "cas", "notify", "wait", "drain", "drained", "returned"}]
    /\ outcome \in [Tasks -> {"new", "calling", "accepted", "rejected"}]
    /\ ran \in [Tasks -> Nat]

(* A stopper that is past its compare-exchange has shut the pool down.     *)
ShutdownSet == \A s \in Stoppers : spc[s] \in {"notify", "wait", "drain", "drained"}
                                       => state = "shutdown"

(* Clients and workers have a task where the code says they do.            *)
Carriers == /\ \A c \in Clients : cpc[c] = "idle" <=> ctask[c] = NoOne
            /\ \A w \in Workers : wpc[w] = "task" <=> wtask[w] # NoOne

(* Neither the queue nor a worker has had the task.                        *)
Untaken(t) == /\ ran[t] = 0
              /\ \A i \in 1 .. Len(queue) : queue[i] # t
              /\ \A w \in Workers : wtask[w] # t

(* A client has its task to itself until it has pushed it.                 *)
ClientsApart ==
    \A c \in Clients :
        ctask[c] # NoOne =>
            /\ outcome[ctask[c]] = "calling"
            /\ \A d \in Clients : ctask[d] = ctask[c] => d = c
            /\ cpc[c] # "signal" => Untaken(ctask[c])

(* A task in the queue is there once and nowhere else.                     *)
QueueApart ==
    \A i \in 1 .. Len(queue) :
        /\ ran[queue[i]] = 0
        /\ outcome[queue[i]] \in {"calling", "accepted"}
        /\ \A w \in Workers : wtask[w] # queue[i]
        /\ \A j \in 1 .. Len(queue) : queue[j] = queue[i] => j = i

(* A task with a worker is with this one only.                             *)
WorkersApart ==
    \A w \in Workers :
        wtask[w] # NoOne =>
            /\ ran[wtask[w]] = 0
            /\ outcome[wtask[w]] \in {"calling", "accepted"}
            /\ \A v \in Workers : wtask[v] = wtask[w] => v = w

RefusedUntaken == \A t \in Tasks : outcome[t] \in {"new", "rejected"} => Untaken(t)

RanOnce == \A t \in Tasks : ran[t] \in {0, 1}

Apart == /\ Carriers
         /\ ClientsApart
         /\ QueueApart
         /\ WorkersApart
         /\ RefusedUntaken
         /\ RanOnce

IInv == /\ TypeOK
        /\ ShutdownSet
        /\ CountIsExact
        /\ Apart
-----------------------------------------------------------------------------
(* The state keeps its type.                                               *)
LEMMA TypeStep ==
    IInv /\ [Next]_vars => TypeOK'
  <1> SUFFICES ASSUME IInv, [Next]_vars PROVE TypeOK'
    OBVIOUS
  <1> USE ThreadPoolAssumption
  <1>t. TypeOK /\ Carriers
    BY DEF IInv, Apart
  <1>r. ASSUME NEW c \in Clients, NEW result \in {"accepted", "rejected"},
               cpc[c] # "idle", Return(c, result)
        PROVE  /\ cpc' \in [Clients -> {"idle", "addCore", "addMax", "newCore", "newMax",
                                        "reload", "push", "signal"}]
               /\ ctask' \in [Clients -> Tasks \cup {NoOne}]
               /\ outcome' \in [Tasks -> {"new", "calling", "accepted", "rejected"}]
    BY <1>t, <1>r DEF Return, TypeOK, Carriers
  <1>f. ASSUME NEW c \in Clients, AddThreadFails(c)
        PROVE  /\ cpc' \in [Clients -> {"idle", "addCore", "addMax", "newCore", "newMax",
                                        "reload", "push", "signal"}]
               /\ ctask' \in [Clients -> Tasks \cup {NoOne}]
               /\ outcome' \in [Tasks -> {"new", "calling", "accepted", "rejected"}]
    BY <1>t, <1>f, <1>r DEF AddThreadFails, TypeOK
  <1>1. ASSUME NEW c \in Clients, NEW task \in Tasks, Execute(c, task) PROVE TypeOK'
    BY <1>t, <1>1 DEF Execute, TypeOK, clientVars, ctlVars, queueVars, workerVars
  <1>2. ASSUME NEW c \in Clients, ReserveThread(c) PROVE TypeOK'
    <2>1. CASE AddThreadFails(c) /\ UNCHANGED count
      BY <1>t, <1>2, <2>1, <1>f DEF ReserveThread, TypeOK, queueVars, workerVars
    <2>2. CASE ~ (AddThreadFails(c) /\ UNCHANGED count)
      BY <1>t, <1>2, <2>2 DEF ReserveThread, TypeOK, queueVars, workerVars
    <2> QED
      BY <2>1, <2>2
  <1>3. ASSUME NEW c \in Clients, CreateThread(c) PROVE TypeOK'
    <2>1. CASE state = "running"
      <3>1. Return(c, "accepted") /\ cpc[c] # "idle" /\ UNCHANGED <<state, count, queue, spc, ran>>
        BY <1>3, <2>1 DEF CreateThread, queueVars
      <3>2. PICK w \in Workers : /\ wpc' = [wpc EXCEPT ![w] = "task"]
                                /\ wtask' = [wtask EXCEPT ![w] = ctask[c]]
        BY <1>3, <2>1 DEF CreateThread
      <3> QED
        BY <1>t, <1>r, <3>1, <3>2 DEF TypeOK
    <2>2. CASE state = "shutdown"
      BY <1>t, <1>3, <2>2, <1>f DEF CreateThread, TypeOK, queueVars, workerVars
    <2> QED
      BY <1>t, <2>1, <2>2 DEF TypeOK
  <1>4. ASSUME NEW c \in Clients, Reload(c) PROVE TypeOK'
    BY <1>t, <1>4 DEF Reload, TypeOK, ctlVars, queueVars, workerVars, history
  <1>5. ASSUME NEW c \in Clients, TryPush(c) PROVE TypeOK'
    <2>1. ctask[c] \in Tasks /\ queue \in Seq(Tasks)
      BY <1>t, <1>5 DEF TryPush, TypeOK, Carriers
    <2>2. queue' \in Seq(Tasks)
      BY <1>5, <2>1, AppendProperties DEF TryPush
    <2> QED
      BY <1>t, <1>5, <2>2 DEF TryPush, TypeOK, ctlVars, workerVars
  <1>6. ASSUME NEW c \in Clients, Signal(c) PROVE TypeOK'
    <2>1. Return(c, "accepted") /\ cpc[c] # "idle" /\ UNCHANGED <<state, count, queue, wtask, spc, ran>>
      BY <1>6 DEF Signal, ctlVars, queueVars
    <2>2. wpc' = wpc \/ \E w \in Workers : wpc' = [wpc EXCEPT ![w] = "awake"]
      BY <1>6 DEF Signal, waiting
    <2> QED
      BY <1>t, <1>r, <2>1, <2>2 DEF TypeOK
  <1>7. ASSUME NEW w \in Workers, WorkerStep(w) \/ Expire(w) PROVE TypeOK'
    <2>1. CASE RunTask(w)
      BY <1>t, <2>1 DEF RunTask, Go, TypeOK, Carriers, ctlVars, queueVars, clientVars
    <2>2. CASE TakeTask(w)
      BY <1>t, <2>2 DEF TakeTask, Go, TypeOK, ctlVars, clientVars, history
    <2>3. CASE \/ LoopCondition(w) \/ LockQueue(w) \/ TakeRefused(w) \/ PredicateFalse(w)
               \/ Block(w) \/ TakeTimedOut(w) \/ Expire(w) \/ ReleaseThread(w)
      <3>1. /\ UNCHANGED <<state, queue, cpc, ctask, wtask, spc, outcome, ran>>
            /\ count' \in {count, count - 1}
        BY <2>3 DEF LoopCondition, LockQueue, TakeRefused, PredicateFalse, Block,
                    TakeTimedOut, Expire, ReleaseThread, ctlVars, queueVars, clientVars,
                    history
      <3>2. \E pc \in {"none", "loop", "take", "expired", "look", "lastLook", "block",
                       "waiting", "release"} : wpc' = [wpc EXCEPT ![w] = pc]
        BY <2>3 DEF LoopCondition, LockQueue, TakeRefused, PredicateFalse, Block,
                    TakeTimedOut, Expire, ReleaseThread, Go
      <3> QED
        BY <1>t, <3>1, <3>2 DEF TypeOK
    <2> QED
      BY <1>7, <2>1, <2>2, <2>3 DEF WorkerStep
  <1>8. ASSUME NEW s \in Stoppers, StopperStep(s) \/ Shutdown(s) PROVE TypeOK'
    <2>1. CASE NotifyBlockingThread(s)
      BY <1>t, <2>1 DEF NotifyBlockingThread, SGo, TypeOK, ctlVars, queueVars, clientVars,
                        history
    <2>2. CASE Drain(s)
      <3>1. queue' \in Seq(Tasks)
        <4>1. CASE queue = << >>
          BY <1>t, <2>2, <4>1 DEF Drain, TypeOK
        <4>2. CASE queue # << >>
          <5>1. Tail(queue) \in Seq(Tasks)
            BY <1>t, <4>2, HeadTailProperties DEF TypeOK
          <5> QED
            BY <2>2, <4>2, <5>1 DEF Drain
        <4> QED
          BY <4>1, <4>2
      <3>2. /\ UNCHANGED <<state, count, cpc, ctask, wpc, wtask, outcome, ran>>
            /\ spc' = spc \/ spc' = [spc EXCEPT ![s] = "drained"]
        BY <2>2 DEF Drain, SGo, ctlVars, clientVars, workerVars, history
      <3> QED
        BY <1>t, <3>1, <3>2 DEF TypeOK
    <2>3. CASE SetShutdown(s) \/ AwaitThreads(s) \/ ShutdownReturns(s) \/ Shutdown(s)
      <3>1. /\ UNCHANGED <<count, queue, cpc, ctask, wpc, wtask, outcome, ran>>
            /\ state' \in {state, "shutdown"}
        BY <2>3 DEF SetShutdown, AwaitThreads, ShutdownReturns, Shutdown,
                    ctlVars, queueVars, clientVars, workerVars, history
      <3>2. \E pc \in {"cas", "notify", "drain", "returned"} : spc' = [spc EXCEPT ![s] = pc]
        BY <2>3 DEF SetShutdown, AwaitThreads, ShutdownReturns, Shutdown, SGo
      <3> QED
        BY <1>t, <3>1, <3>2 DEF TypeOK
    <2> QED
      BY <1>8, <2>1, <2>2, <2>3 DEF StopperStep
  <1>9. CASE UNCHANGED vars
    BY <1>t, <1>9 DEF vars, TypeOK
  <1> QED
    BY <1>1, <1>2, <1>3, <1>4, <1>5, <1>6, <1>7, <1>8, <1>9 DEF Next, ClientStep

-----------------------------------------------------------------------------
(* Threads and reservations are counted.                                   *)

(* A step that moves workers and clients without creating, reserving or    *)
(* releasing a thread leaves both sets as they are.                        *)
LEMMA CountStep ==
    IInv /\ [Next]_vars => (/\ count = Cardinality(threadPool) + Cardinality(reserved)
                            /\ count <= maximumPoolSize)'
  <1> SUFFICES ASSUME IInv, [Next]_vars
               PROVE  /\ count' = Cardinality(threadPool') + Cardinality(reserved')
                      /\ count' <= maximumPoolSize
    OBVIOUS
  <1>t. TypeOK /\ count = Cardinality(threadPool) + Cardinality(reserved)
               /\ count <= maximumPoolSize
    BY DEF IInv, CountIsExact
  <1>a. corePoolSize \in Nat /\ maximumPoolSize \in Nat /\ corePoolSize <= maximumPoolSize
    BY ThreadPoolAssumption
  <1>f. /\ IsFiniteSet(threadPool) /\ Cardinality(threadPool) \in Nat
        /\ IsFiniteSet(reserved) /\ Cardinality(reserved) \in Nat
    <2>1. IsFiniteSet(Workers) /\ IsFiniteSet(Clients)
      BY ThreadPoolAssumption
    <2>2. threadPool \in SUBSET Workers /\ reserved \in SUBSET Clients
      BY DEF threadPool, reserved
    <2>3. IsFiniteSet(threadPool) /\ IsFiniteSet(reserved)
      BY <2>1, <2>2, FS_Subset
    <2> QED
      BY <2>3, FS_CardinalityType
  <1>1. CASE UNCHANGED <<count, threadPool, reserved>>
    BY <1>t, <1>1
  <1>2. ASSUME NEW c \in Clients, ReserveThread(c)
        PROVE  /\ count' = Cardinality(threadPool') + Cardinality(reserved')
               /\ count' <= maximumPoolSize
    <2>1. threadPool' = threadPool
      BY <1>2 DEF ReserveThread, threadPool, workerVars
    <2>2. CASE UNCHANGED count /\ AddThreadFails(c)
      <3>1. reserved' = reserved
        BY <1>t, <1>2, <2>2 DEF ReserveThread, AddThreadFails, Return, reserved, TypeOK
      <3> QED
        BY <1>1, <2>1, <2>2, <3>1
    <2>3. CASE ~ (UNCHANGED count /\ AddThreadFails(c))
      <3>1. count' = count + 1 /\ count < PoolLimit(c)
        BY <1>2, <2>3 DEF ReserveThread
      <3>2. reserved' = reserved \cup {c} /\ c \notin reserved
        BY <1>t, <1>2, <2>3 DEF ReserveThread, reserved, TypeOK
      <3>3. Cardinality(reserved') = Cardinality(reserved) + 1
        BY <1>f, <3>2, FS_AddElement
      <3>4. PoolLimit(c) \in Nat /\ PoolLimit(c) <= maximumPoolSize
        BY <1>a DEF PoolLimit
      <3> QED
        BY <1>t, <1>f, <1>a, <2>1, <3>1, <3>3, <3>4 DEF TypeOK
    <2> QED
      BY <2>2, <2>3
  <1>3. ASSUME NEW c \in Clients, CreateThread(c)
        PROVE  /\ count' = Cardinality(threadPool') + Cardinality(reserved')
               /\ count' <= maximumPoolSize
    <2>1. c \in reserved
      BY <1>3 DEF CreateThread, reserved
    <2>2. reserved' = reserved \ {c}
      BY <1>t, <1>3 DEF CreateThread, AddThreadFails, Return, reserved, TypeOK
    <2>3. Cardinality(reserved') = Cardinality(reserved) - 1
      BY <1>f, <2>1, <2>2, FS_RemoveElement
    <2>4. CASE state = "running"
      <3>1. PICK w \in Workers : wpc[w] = "none" /\ wpc' = [wpc EXCEPT ![w] = "task"]
        BY <1>3, <2>4 DEF CreateThread
      <3>2. threadPool' = threadPool \cup {w} /\ w \notin threadPool
        BY <1>t, <3>1 DEF threadPool, TypeOK
      <3>3. Cardinality(threadPool') = Cardinality(threadPool) + 1
        BY <1>f, <3>2, FS_AddElement
      <3>4. count' = count
        BY <1>3, <2>4 DEF CreateThread
      <3> QED
        BY <1>t, <1>f, <2>3, <3>3, <3>4
    <2>5. CASE state # "running"
      <3>1. count' = count - 1 /\ threadPool' = threadPool
        BY <1>3, <2>5 DEF CreateThread, workerVars, threadPool
      <3> QED
        BY <1>t, <1>f, <1>a, <2>3, <3>1 DEF TypeOK
    <2> QED
      BY <2>4, <2>5
  <1>4. ASSUME NEW w \in Workers, ReleaseThread(w)
        PROVE  /\ count' = Cardinality(threadPool') + Cardinality(reserved')
               /\ count' <= maximumPoolSize
    <2>1. reserved' = reserved /\ count' = count - 1
      BY <1>4 DEF ReleaseThread, clientVars, reserved
    <2>2. threadPool' = threadPool \ {w} /\ w \in threadPool
      BY <1>t, <1>4 DEF ReleaseThread, Go, threadPool, TypeOK
    <2>3. Cardinality(threadPool') = Cardinality(threadPool) - 1
      BY <1>f, <2>2, FS_RemoveElement
    <2> QED
      BY <1>t, <1>f, <1>a, <2>1, <2>3 DEF TypeOK
  <1>5. ASSUME NEW c \in Clients, \/ \E task \in Tasks : Execute(c, task)
                                  \/ Reload(c) \/ TryPush(c)
        PROVE  UNCHANGED <<count, threadPool, reserved>>
    BY <1>t, <1>5 DEF Execute, Reload, TryPush, threadPool, reserved, TypeOK,
                      ctlVars, workerVars, clientVars
  <1>6. ASSUME NEW c \in Clients, Signal(c)
        PROVE  UNCHANGED <<count, threadPool, reserved>>
    BY <1>t, <1>6 DEF Signal, Return, threadPool, reserved, waiting, TypeOK, ctlVars
  <1>7. ASSUME NEW w \in Workers, WorkerStep(w) \/ Expire(w), ~ ReleaseThread(w)
        PROVE  UNCHANGED <<count, threadPool, reserved>>
    <2>1. UNCHANGED <<count, reserved>>
      BY <1>7 DEF WorkerStep, RunTask, LoopCondition, LockQueue, TakeRefused, TakeTask,
                  PredicateFalse, Block, TakeTimedOut, Expire, reserved, ctlVars, clientVars
    <2>2. wpc[w] # "none" /\ \E pc : pc # "none" /\ wpc' = [wpc EXCEPT ![w] = pc]
      BY <1>7 DEF WorkerStep, RunTask, LoopCondition, LockQueue, TakeRefused, TakeTask,
                  PredicateFalse, Block, TakeTimedOut, Expire, Go
    <2> QED
      BY <1>t, <2>1, <2>2 DEF threadPool, TypeOK
  <1>8. ASSUME NEW s \in Stoppers, StopperStep(s) \/ Shutdown(s)
        PROVE  UNCHANGED <<count, threadPool, reserved>>
    <2>1. UNCHANGED <<count, reserved>>
      BY <1>8 DEF StopperStep, SetShutdown, NotifyBlockingThread, AwaitThreads, Drain,
                  ShutdownReturns, Shutdown, reserved, ctlVars, clientVars
    <2>2. \A w \in Workers : wpc'[w] = "none" <=> wpc[w] = "none"
      BY <1>t, <1>8 DEF StopperStep, SetShutdown, NotifyBlockingThread, AwaitThreads, Drain,
                        ShutdownReturns, Shutdown, workerVars, TypeOK
    <2> QED
      BY <2>1, <2>2 DEF threadPool
  <1>9. CASE UNCHANGED vars
    BY <1>1, <1>9 DEF vars, threadPool, reserved
  <1> QED
    BY <1>1, <1>2, <1>3, <1>4, <1>5, <1>6, <1>7, <1>8, <1>9 DEF Next, ClientStep

(* A stopper past its compare-exchange has seen the pool shut down, and    *)
(* nothing starts it again.                                                *)
LEMMA ShutdownSetStep ==
    IInv /\ [Next]_vars => ShutdownSet'
  <1> SUFFICES ASSUME IInv, [Next]_vars PROVE ShutdownSet'
    OBVIOUS
  <1>t. TypeOK /\ ShutdownSet
    BY DEF IInv
  <1>1. ASSUME NEW s \in Stoppers, StopperStep(s) \/ Shutdown(s) PROVE ShutdownSet'
    <2>1. state' = state \/ state' = "shutdown"
      BY <1>1 DEF StopperStep, SetShutdown, NotifyBlockingThread, AwaitThreads, Drain,
                  ShutdownReturns, Shutdown, ctlVars
    <2>2. spc'[s] \in {"notify", "wait", "drain", "drained"} => state' = "shutdown"
      BY <1>t, <1>1 DEF StopperStep, SetShutdown, NotifyBlockingThread, AwaitThreads, Drain,
                        ShutdownReturns, Shutdown, SGo, ShutdownSet, TypeOK, ctlVars
    <2>3. \A r \in Stoppers : r # s => spc'[r] = spc[r]
      BY <1>t, <1>1 DEF StopperStep, SetShutdown, NotifyBlockingThread, AwaitThreads, Drain,
                        ShutdownReturns, Shutdown, SGo, TypeOK
    <2> QED
      BY <1>t, <2>1, <2>2, <2>3 DEF ShutdownSet
  <1>2. CASE UNCHANGED <<state, spc>>
    BY <1>t, <1>2 DEF ShutdownSet
  <1> QED
    BY <1>1, <1>2
       DEF Next, ClientStep, WorkerStep, Execute, ReserveThread, CreateThread, Reload, TryPush,
           Signal, RunTask, LoopCondition, LockQueue, TakeRefused, TakeTask, PredicateFalse,
           Block, TakeTimedOut, ReleaseThread, Expire, ctlVars, vars

(* Once a stopper has found the count 0 there is no thread and no          *)
(* reservation, and in a pool that is shut down none is made.              *)
LEMMA NoThreadLeftStep ==
    IInv /\ [Next]_vars => ((\E s \in Stoppers : spc[s] \in {"drain", "drained"})
                                => threadPool = {} /\ reserved = {})'
  <1> SUFFICES ASSUME IInv, [Next]_vars, NEW s \in Stoppers, spc'[s] \in {"drain", "drained"}
               PROVE  threadPool' = {} /\ reserved' = {}
    OBVIOUS
  <1>t. TypeOK /\ ShutdownSet /\ CountIsExact
    BY DEF IInv
  <1>1. CASE AwaitThreads(s)
    <2>1. count = 0 /\ threadPool' = threadPool /\ reserved' = reserved
      BY <1>1 DEF AwaitThreads, threadPool, reserved, clientVars, workerVars
    <2>2. IsFiniteSet(Workers) /\ IsFiniteSet(Clients)
      BY ThreadPoolAssumption
    <2>3. threadPool \in SUBSET Workers /\ reserved \in SUBSET Clients
      BY DEF threadPool, reserved
    <2>4. IsFiniteSet(threadPool) /\ IsFiniteSet(reserved)
      BY <2>2, <2>3, FS_Subset
    <2>5. Cardinality(threadPool) \in Nat /\ Cardinality(reserved) \in Nat
      BY <2>4, FS_CardinalityType
    <2>6. Cardinality(threadPool) = 0 /\ Cardinality(reserved) = 0
      BY <1>t, <2>1, <2>5 DEF CountIsExact
    <2> QED
      BY <2>1, <2>4, <2>6, FS_EmptySet
  <1>2. CASE ~ AwaitThreads(s)
    <2>1. spc[s] \in {"drain", "drained"}
      <3>1. ASSUME NEW r \in Stoppers, StopperStep(r) \/ Shutdown(r)
            PROVE  spc[s] \in {"drain", "drained"}
        <4>1. CASE r = s
          BY <1>t, <1>2, <3>1, <4>1
             DEF StopperStep, SetShutdown, NotifyBlockingThread, Drain, ShutdownReturns,
                 Shutdown, SGo, TypeOK
        <4>2. CASE r # s
          BY <1>t, <3>1, <4>2
             DEF StopperStep, SetShutdown, NotifyBlockingThread, AwaitThreads, Drain,
                 ShutdownReturns, Shutdown, SGo, TypeOK
        <4> QED
          BY <4>1, <4>2
      <3>2. CASE UNCHANGED spc
        BY <3>2
      <3> QED
        BY <3>1, <3>2
           DEF Next, ClientStep, WorkerStep, Execute, ReserveThread, CreateThread, Reload,
               TryPush, Signal, RunTask, LoopCondition, LockQueue, TakeRefused, TakeTask,
               PredicateFalse, Block, TakeTimedOut, ReleaseThread, Expire, vars
    <2>2. state = "shutdown" /\ threadPool = {} /\ reserved = {}
      BY <1>t, <2>1 DEF ShutdownSet, CountIsExact
    <2>w. \A w \in Workers : wpc[w] = "none"
      BY <2>2 DEF threadPool
    <2>c. \A c \in Clients : cpc[c] \notin {"newCore", "newMax"}
      BY <2>2 DEF reserved
    <2>3. reserved' = {}
      <3>1. ASSUME NEW c \in Clients, ClientStep(c) \/ \E task \in Tasks : Execute(c, task)
            PROVE  reserved' = {}
        BY <1>t, <2>2, <2>c, <3>1
           DEF ClientStep, Execute, ReserveThread, AddThreadFails, Return, CreateThread, Reload,
               TryPush, Signal, reserved, clientVars, TypeOK
      <3>2. CASE UNCHANGED cpc
        BY <2>2, <3>2 DEF reserved
      <3> QED
        BY <3>1, <3>2
           DEF Next, WorkerStep, RunTask, LoopCondition, LockQueue, TakeRefused, TakeTask,
               PredicateFalse, Block, TakeTimedOut, ReleaseThread, Expire, StopperStep,
               SetShutdown, NotifyBlockingThread, AwaitThreads, Drain, ShutdownReturns,
               Shutdown, clientVars, vars
    <2>4. threadPool' = {}
      <3>1. ASSUME NEW w \in Workers, WorkerStep(w) \/ Expire(w) PROVE FALSE
        BY <2>w, <3>1 DEF WorkerStep, RunTask, LoopCondition, LockQueue, TakeRefused, TakeTask,
                          PredicateFalse, Block, TakeTimedOut, ReleaseThread, Expire
      <3>2. ASSUME NEW r \in Stoppers, StopperStep(r) \/ Shutdown(r) PROVE threadPool' = {}
        BY <1>t, <2>w, <3>2
           DEF StopperStep, SetShutdown, NotifyBlockingThread, AwaitThreads, Drain,
               ShutdownReturns, Shutdown, threadPool, workerVars, TypeOK
      <3>3. ASSUME NEW c \in Clients, Signal(c) PROVE threadPool' = {}
        BY <2>w, <3>3 DEF Signal, waiting, threadPool
      <3>4. CASE UNCHANGED wpc
        BY <2>2, <3>4 DEF threadPool
      <3> QED
        BY <2>2, <2>c, <3>1, <3>2, <3>3, <3>4
           DEF Next, ClientStep, Execute, ReserveThread, CreateThread, Reload, TryPush,
               workerVars, vars
    <2> QED
      BY <2>3, <2>4
  <1> QED
    BY <1>1, <1>2

-----------------------------------------------------------------------------
(* A task is in one place at a time.                                       *)

(* Steps that hand no task on and report on none.                          *)
LEMMA QuietStep ==
    ASSUME Apart, UNCHANGED <<ctask, queue, wtask, outcome, ran>>,
           \A c \in Clients : /\ cpc'[c] = "idle" <=> cpc[c] = "idle"
                              /\ cpc[c] = "signal" => cpc'[c] = "signal",
           \A w \in Workers : wpc'[w] = "task" <=> wpc[w] = "task"
    PROVE  Apart'
  <1>1. Carriers'
    BY DEF Apart, Carriers
  <1>2. \A t \in Tasks \cup {NoOne} : Untaken(t)' <=> Untaken(t)
    BY DEF Untaken
  <1>3. ClientsApart'
    BY DEF Apart, ClientsApart, Untaken
  <1>4. QueueApart' /\ WorkersApart' /\ RefusedUntaken' /\ RanOnce'
    BY DEF Apart, QueueApart, WorkersApart, RefusedUntaken, RanOnce, Untaken
  <1> QED
    BY <1>1, <1>3, <1>4 DEF Apart

(* execute() takes a new task, or refuses it at once.                      *)
LEMMA ExecuteApart ==
    ASSUME TypeOK, Apart, NEW c \in Clients, NEW task \in Tasks, Execute(c, task)
    PROVE  Apart'
  <1> USE ThreadPoolAssumption
  <1>f. /\ UNCHANGED <<queue, wpc, wtask, ran>>
        /\ cpc[c] = "idle" /\ ctask[c] = NoOne /\ outcome[task] = "new" /\ Untaken(task)
    BY DEF Execute, queueVars, workerVars, Apart, Carriers, RefusedUntaken
  <1>n. /\ \A d \in Clients : ctask[d] # task
        /\ \A i \in 1 .. Len(queue) : queue[i] # task
        /\ \A w \in Workers : wtask[w] # task
    BY <1>f DEF Apart, ClientsApart, Untaken
  <1>1. CASE state = "shutdown"
    <2>1. outcome' = [outcome EXCEPT ![task] = "rejected"] /\ UNCHANGED <<cpc, ctask>>
      BY <1>1 DEF Execute, clientVars
    <2>2. Carriers' /\ RanOnce'
      BY <1>f, <2>1 DEF Apart, Carriers, RanOnce
    <2>3. ClientsApart'
      BY <1>f, <1>n, <2>1 DEF Apart, ClientsApart, Untaken, TypeOK
    <2>4. QueueApart'
      <3>1. \A i \in 1 .. Len(queue) : queue[i] \in Tasks /\ queue[i] # task
        BY <1>n, ElementOfSeq DEF TypeOK
      <3>2. \A t \in Tasks : t # task => outcome'[t] = outcome[t]
        BY <2>1 DEF TypeOK
      <3>3. \A i \in 1 .. Len(queue) : outcome'[queue[i]] = outcome[queue[i]]
        BY <3>1, <3>2
      <3> QED
        BY <1>f, <3>3 DEF Apart, QueueApart
    <2>5. WorkersApart'
      BY <1>f, <1>n, <2>1 DEF Apart, WorkersApart, TypeOK
    <2>6. RefusedUntaken'
      BY <1>f, <2>1 DEF Apart, RefusedUntaken, Untaken, TypeOK
    <2> QED
      BY <2>2, <2>3, <2>4, <2>5, <2>6 DEF Apart
  <1>2. CASE state # "shutdown"
    <2>1. /\ outcome' = [outcome EXCEPT ![task] = "calling"]
          /\ ctask' = [ctask EXCEPT ![c] = task]
          /\ \E pc \in {"addCore", "push"} : cpc' = [cpc EXCEPT ![c] = pc]
      BY <1>2 DEF Execute
    <2>2. Carriers' /\ RanOnce'
      BY <1>f, <2>1 DEF Apart, Carriers, RanOnce, TypeOK
    <2>3. ClientsApart'
      BY <1>f, <1>n, <2>1 DEF Apart, ClientsApart, Untaken, TypeOK
    <2>4. QueueApart'
      BY <1>f, <1>n, <2>1, ElementOfSeq DEF Apart, QueueApart, TypeOK
    <2>5. WorkersApart'
      BY <1>f, <1>n, <2>1 DEF Apart, WorkersApart, TypeOK
    <2>6. RefusedUntaken'
      BY <1>f, <2>1 DEF Apart, RefusedUntaken, Untaken, TypeOK
    <2> QED
      BY <2>2, <2>3, <2>4, <2>5, <2>6 DEF Apart
  <1> QED
    BY <1>1, <1>2

(* A client returns "rejected" only with a task that nobody else has had.  *)
LEMMA ReturnApart ==
    ASSUME TypeOK, Apart, NEW c \in Clients, cpc[c] # "idle",
           NEW result \in {"accepted", "rejected"}, Return(c, result),
           result = "rejected" => cpc[c] # "signal",
           UNCHANGED <<queue, wtask, ran>>,
           \A w \in Workers : wpc'[w] = "task" <=> wpc[w] = "task"
    PROVE  Apart'
  <1> USE ThreadPoolAssumption
  <1>1. ctask[c] \in Tasks /\ outcome[ctask[c]] = "calling"
    BY DEF Apart, Carriers, ClientsApart, TypeOK
  <1>2. Carriers' /\ RanOnce'
    BY DEF Return, Apart, Carriers, RanOnce, TypeOK
  <1>3. ClientsApart'
    BY <1>1 DEF Return, Apart, ClientsApart, Untaken, TypeOK
  <1>4. QueueApart'
    <2>1. result = "rejected" => \A i \in 1 .. Len(queue) : queue[i] # ctask[c]
      BY <1>1 DEF Apart, ClientsApart, Untaken
    <2> QED
      BY <1>1, <2>1, ElementOfSeq DEF Return, Apart, QueueApart, TypeOK
  <1>5. WorkersApart'
    <2>1. result = "rejected" => \A w \in Workers : wtask[w] # ctask[c]
      BY <1>1 DEF Apart, ClientsApart, Untaken
    <2> QED
      BY <1>1, <2>1 DEF Return, Apart, WorkersApart, TypeOK
  <1>6. RefusedUntaken'
    <2>1. result = "rejected" => Untaken(ctask[c])
      BY <1>1 DEF Apart, ClientsApart
    <2> QED
      BY <1>1, <2>1 DEF Return, Apart, RefusedUntaken, Untaken, TypeOK
  <1> QED
    BY <1>2, <1>3, <1>4, <1>5, <1>6 DEF Apart

(* addThreadTask() hands the client's task over to a new thread.           *)
LEMMA CreateApart ==
    ASSUME TypeOK, Apart, NEW c \in Clients, NEW w \in Workers,
           cpc[c] \in {"newCore", "newMax"}, wpc[w] = "none",
           wpc' = [wpc EXCEPT ![w] = "task"], wtask' = [wtask EXCEPT ![w] = ctask[c]],
           Return(c, "accepted"), UNCHANGED <<queue, ran>>
    PROVE  Apart'
  <1> USE ThreadPoolAssumption
  <1>1. /\ ctask[c] \in Tasks /\ outcome[ctask[c]] = "calling" /\ Untaken(ctask[c])
        /\ \A d \in Clients : ctask[d] = ctask[c] => d = c
    BY DEF Apart, Carriers, ClientsApart, TypeOK
  <1>2. Carriers' /\ RanOnce'
    BY <1>1 DEF Return, Apart, Carriers, RanOnce, TypeOK
  <1>3. ClientsApart'
    BY <1>1 DEF Return, Apart, ClientsApart, Untaken, TypeOK
  <1>4. QueueApart'
    BY <1>1, ElementOfSeq DEF Return, Apart, QueueApart, Untaken, TypeOK
  <1>5. WorkersApart'
    BY <1>1 DEF Return, Apart, WorkersApart, Untaken, TypeOK
  <1>6. RefusedUntaken'
    BY <1>1 DEF Return, Apart, RefusedUntaken, Untaken, TypeOK
  <1> QED
    BY <1>2, <1>3, <1>4, <1>5, <1>6 DEF Apart

(* tryPush() puts the client's task into the queue.                        *)
LEMMA PushApart ==
    ASSUME TypeOK, Apart, NEW c \in Clients, cpc[c] = "push",
           queue' = Append(queue, ctask[c]), cpc' = [cpc EXCEPT ![c] = "signal"],
           UNCHANGED <<ctask, wpc, wtask, outcome, ran>>
    PROVE  Apart'
  <1> USE ThreadPoolAssumption
  <1>1. /\ ctask[c] \in Tasks /\ outcome[ctask[c]] = "calling" /\ Untaken(ctask[c])
        /\ \A d \in Clients : ctask[d] = ctask[c] => d = c
    BY DEF Apart, Carriers, ClientsApart, TypeOK
  <1>q. /\ Len(queue) \in Nat /\ Len(queue') = Len(queue) + 1
        /\ queue'[Len(queue) + 1] = ctask[c]
        /\ \A i \in 1 .. Len(queue) : queue'[i] = queue[i]
    BY <1>1, AppendProperties, LenProperties DEF TypeOK
  <1>2. Carriers' /\ RanOnce'
    BY DEF Apart, Carriers, RanOnce, TypeOK
  <1>u. ASSUME NEW t, t # ctask[c], Untaken(t) PROVE Untaken(t)'
    BY <1>q, <1>u DEF Untaken
  <1>3. ClientsApart'
    BY <1>1, <1>u DEF Apart, ClientsApart, TypeOK
  <1>4. QueueApart'
    <2> SUFFICES ASSUME NEW i \in 1 .. Len(queue')
                 PROVE  /\ ran[queue'[i]] = 0
                        /\ outcome[queue'[i]] \in {"calling", "accepted"}
                        /\ \A w \in Workers : wtask[w] # queue'[i]
                        /\ \A j \in 1 .. Len(queue') : queue'[j] = queue'[i] => j = i
      BY DEF QueueApart
    <2>1. CASE i = Len(queue) + 1
      BY <1>1, <1>q, <2>1 DEF Untaken
    <2>2. CASE i \in 1 .. Len(queue)
      BY <1>1, <1>q, <2>2, SMTT(60) DEF Apart, QueueApart, Untaken
    <2> QED
      BY <1>q, <2>1, <2>2
  <1>5. WorkersApart'
    BY DEF Apart, WorkersApart
  <1>6. RefusedUntaken'
    BY <1>1, <1>u DEF Apart, RefusedUntaken
  <1> QED
    BY <1>2, <1>3, <1>4, <1>5, <1>6 DEF Apart

(* A worker runs the task it has.                                          *)
LEMMA RunApart ==
    ASSUME TypeOK, Apart, NEW w \in Workers, RunTask(w)
    PROVE  Apart'
  <1> USE ThreadPoolAssumption
  <1>f. /\ ran' = [ran EXCEPT ![wtask[w]] = @ + 1]
        /\ wtask' = [wtask EXCEPT ![w] = NoOne]
        /\ wpc[w] = "task" /\ wpc' = [wpc EXCEPT ![w] = "loop"]
        /\ UNCHANGED <<queue, cpc, ctask, outcome>>
    BY DEF RunTask, Go, queueVars, clientVars
  <1>1. /\ wtask[w] \in Tasks /\ ran[wtask[w]] = 0
        /\ outcome[wtask[w]] \in {"calling", "accepted"}
        /\ \A v \in Workers : wtask[v] = wtask[w] => v = w
    BY <1>f DEF Apart, Carriers, WorkersApart, TypeOK
  <1>u. ASSUME NEW t \in Tasks, Untaken(t) PROVE Untaken(t)'
    BY <1>f, <1>1, <1>u DEF Untaken, TypeOK
  <1>2. Carriers' /\ RanOnce'
    BY <1>f, <1>1 DEF Apart, Carriers, RanOnce, TypeOK
  <1>3. ClientsApart'
    BY <1>f, <1>1, <1>u DEF Apart, ClientsApart, TypeOK
  <1>4. QueueApart'
    BY <1>f, <1>1, ElementOfSeq DEF Apart, QueueApart, TypeOK
  <1>5. WorkersApart'
    BY <1>f, <1>1 DEF Apart, WorkersApart, TypeOK
  <1>6. RefusedUntaken'
    BY <1>f, <1>1, <1>u DEF Apart, RefusedUntaken
  <1> QED
    BY <1>2, <1>3, <1>4, <1>5, <1>6 DEF Apart

(* What is behind the front of the queue.                                  *)
LEMMA TailOfQueue ==
    ASSUME TypeOK, queue # << >>, queue' = Tail(queue)
    PROVE  /\ Len(queue) \in Nat /\ Len(queue) >= 1 /\ Len(queue') = Len(queue) - 1
           /\ Head(queue) = queue[1] /\ Head(queue) \in Tasks
           /\ \A i \in 1 .. Len(queue') : queue'[i] = queue[i + 1] /\ i + 1 \in 1 .. Len(queue)
  <1>1. Len(queue) \in Nat /\ Len(queue) >= 1
    BY LenProperties, EmptySeq DEF TypeOK
  <1>2. /\ Head(queue) \in Tasks /\ Len(Tail(queue)) = Len(queue) - 1
        /\ \A i \in 1 .. Len(Tail(queue)) : Tail(queue)[i] = queue[i + 1]
    BY HeadTailProperties DEF TypeOK
  <1>3. Head(queue) = queue[1]
    BY DEF TypeOK
  <1> QED
    BY <1>1, <1>2, <1>3

(* A worker takes the front of the queue.                                  *)
LEMMA TakeApart ==
    ASSUME TypeOK, Apart, NEW w \in Workers, TakeTask(w)
    PROVE  Apart'
  <1> USE ThreadPoolAssumption
  <1>f. /\ wtask' = [wtask EXCEPT ![w] = Head(queue)]
        /\ queue # << >> /\ queue' = Tail(queue)
        /\ wpc[w] # "task" /\ wpc' = [wpc EXCEPT ![w] = "task"]
        /\ UNCHANGED <<cpc, ctask, outcome, ran>>
    BY DEF TakeTask, Go, clientVars, history
  <1>q. /\ Len(queue) \in Nat /\ Len(queue) >= 1 /\ Len(queue') = Len(queue) - 1
        /\ Head(queue) = queue[1] /\ Head(queue) \in Tasks
        /\ \A i \in 1 .. Len(queue') : queue'[i] = queue[i + 1] /\ i + 1 \in 1 .. Len(queue)
    BY <1>f, TailOfQueue
  <1>1. /\ ran[Head(queue)] = 0 /\ outcome[Head(queue)] \in {"calling", "accepted"}
        /\ \A v \in Workers : wtask[v] # Head(queue)
        /\ \A i \in 1 .. Len(queue') : queue'[i] # Head(queue)
    BY <1>q DEF Apart, QueueApart
  <1>u. ASSUME NEW t \in Tasks, Untaken(t) PROVE Untaken(t)'
    BY <1>f, <1>q, <1>u DEF Untaken, TypeOK
  <1>2. Carriers' /\ RanOnce'
    BY <1>f, <1>q DEF Apart, Carriers, RanOnce, TypeOK
  <1>3. ClientsApart'
    BY <1>f, <1>u DEF Apart, ClientsApart, TypeOK
  <1>4. QueueApart'
    <2> SUFFICES ASSUME NEW i \in 1 .. Len(queue')
                 PROVE  /\ ran[queue'[i]] = 0
                        /\ outcome[queue'[i]] \in {"calling", "accepted"}
                        /\ \A v \in Workers : wtask'[v] # queue'[i]
                        /\ \A j \in 1 .. Len(queue') : queue'[j] = queue'[i] => j = i
      BY <1>f DEF QueueApart
    <2>0. queue'[i] = queue[i + 1] /\ i + 1 \in 1 .. Len(queue)
      BY <1>q
    <2>1. /\ ran[queue'[i]] = 0 /\ outcome[queue'[i]] \in {"calling", "accepted"}
          /\ \A v \in Workers : wtask[v] # queue'[i]
      BY <2>0 DEF Apart, QueueApart
    <2>2. \A v \in Workers : wtask'[v] # queue'[i]
      BY <1>f, <1>1, <2>1 DEF TypeOK
    <2>3. ASSUME NEW j \in 1 .. Len(queue'), queue'[j] = queue'[i] PROVE j = i
      <3>1. queue[j + 1] = queue[i + 1] /\ j + 1 \in 1 .. Len(queue)
        BY <1>q, <2>0, <2>3
      <3>2. j + 1 = i + 1
        BY <2>0, <3>1 DEF Apart, QueueApart
      <3> QED
        BY <3>2
    <2> QED
      BY <2>1, <2>2, <2>3
  <1>5. WorkersApart'
    BY <1>f, <1>q, <1>1 DEF Apart, WorkersApart, TypeOK
  <1>6. RefusedUntaken'
    BY <1>f, <1>u DEF Apart, RefusedUntaken
  <1> QED
    BY <1>2, <1>3, <1>4, <1>5, <1>6 DEF Apart

(* shutdown() drops the front of the queue.                                *)
LEMMA DropApart ==
    ASSUME TypeOK, Apart, queue # << >>, queue' = Tail(queue),
           UNCHANGED <<cpc, ctask, wpc, wtask, outcome, ran>>
    PROVE  Apart'
  <1>q. /\ Len(queue) \in Nat /\ Len(queue') = Len(queue) - 1
        /\ \A i \in 1 .. Len(queue') : queue'[i] = queue[i + 1] /\ i + 1 \in 1 .. Len(queue)
    BY TailOfQueue
  <1>u. ASSUME NEW t, Untaken(t) PROVE Untaken(t)'
    BY <1>q, <1>u DEF Untaken
  <1>1. Carriers' /\ RanOnce' /\ WorkersApart'
    BY DEF Apart, Carriers, RanOnce, WorkersApart
  <1>2. ClientsApart' /\ RefusedUntaken'
    BY <1>u DEF Apart, ClientsApart, RefusedUntaken
  <1>3. QueueApart'
    BY <1>q DEF Apart, QueueApart
  <1> QED
    BY <1>1, <1>2, <1>3 DEF Apart

(* Every step keeps tasks apart.                                           *)
LEMMA ApartStep ==
    IInv /\ [Next]_vars => Apart'
  <1> SUFFICES ASSUME IInv, [Next]_vars PROVE Apart'
    OBVIOUS
  <1> USE ThreadPoolAssumption
  <1>t. TypeOK /\ Apart
    BY DEF IInv
  <1>1. ASSUME NEW c \in Clients, NEW task \in Tasks, Execute(c, task) PROVE Apart'
    BY <1>t, <1>1, ExecuteApart
  <1>2. ASSUME NEW c \in Clients, ReserveThread(c) PROVE Apart'
    <2>0. /\ cpc[c] \in {"addCore", "addMax"}
          /\ UNCHANGED <<queue, wpc, wtask, ran>>
      BY <1>2 DEF ReserveThread, queueVars, workerVars
    <2>1. CASE cpc[c] = "addMax" /\ Return(c, "rejected")
      BY <1>t, <2>0, <2>1, ReturnApart
    <2>2. CASE ~ (cpc[c] = "addMax" /\ Return(c, "rejected"))
      <3>1. /\ UNCHANGED <<ctask, outcome>>
            /\ \E pc \in {"reload", "newCore", "newMax"} : cpc' = [cpc EXCEPT ![c] = pc]
        BY <1>2, <2>0, <2>2 DEF ReserveThread, AddThreadFails
      <3>2. \A d \in Clients : /\ cpc'[d] = "idle" <=> cpc[d] = "idle"
                               /\ cpc[d] = "signal" => cpc'[d] = "signal"
        BY <1>t, <2>0, <3>1 DEF TypeOK
      <3> QED
        BY <1>t, <2>0, <3>1, <3>2, QuietStep
    <2> QED
      BY <2>1, <2>2
  <1>3. ASSUME NEW c \in Clients, CreateThread(c) PROVE Apart'
    <2>0. cpc[c] \in {"newCore", "newMax"} /\ UNCHANGED <<queue, ran>>
      BY <1>3 DEF CreateThread, queueVars
    <2>1. CASE state = "running"
      <3>1. PICK w \in Workers : /\ wpc[w] = "none"
                                 /\ wpc' = [wpc EXCEPT ![w] = "task"]
                                 /\ wtask' = [wtask EXCEPT ![w] = ctask[c]]
        BY <1>3, <2>1 DEF CreateThread
      <3>2. Return(c, "accepted")
        BY <1>3, <2>1 DEF CreateThread
      <3> QED
        BY <1>t, <2>0, <3>1, <3>2, CreateApart
    <2>2. CASE state = "shutdown" /\ cpc[c] = "newMax"
      <3>1. Return(c, "rejected") /\ UNCHANGED <<wpc, wtask>>
        BY <1>3, <2>2 DEF CreateThread, AddThreadFails, workerVars
      <3> QED
        BY <1>t, <2>0, <2>2, <3>1, ReturnApart
    <2>3. CASE state = "shutdown" /\ cpc[c] = "newCore"
      <3>1. cpc' = [cpc EXCEPT ![c] = "reload"] /\ UNCHANGED <<ctask, outcome, wpc, wtask>>
        BY <1>3, <2>3 DEF CreateThread, AddThreadFails, workerVars
      <3>2. \A d \in Clients : /\ cpc'[d] = "idle" <=> cpc[d] = "idle"
                               /\ cpc[d] = "signal" => cpc'[d] = "signal"
        BY <1>t, <2>3, <3>1 DEF TypeOK
      <3> QED
        BY <1>t, <2>0, <3>1, <3>2, QuietStep
    <2> QED
      BY <1>t, <2>0, <2>1, <2>2, <2>3 DEF TypeOK
  <1>4. ASSUME NEW c \in Clients, Reload(c) PROVE Apart'
    <2>1. \A d \in Clients : /\ cpc'[d] = "idle" <=> cpc[d] = "idle"
                             /\ cpc[d] = "signal" => cpc'[d] = "signal"
      BY <1>t, <1>4 DEF Reload, TypeOK
    <2>2. UNCHANGED <<ctask, queue, wpc, wtask, outcome, ran>>
      BY <1>4 DEF Reload, queueVars, workerVars, history
    <2> QED
      BY <1>t, <2>1, <2>2, QuietStep
  <1>5. ASSUME NEW c \in Clients, TryPush(c) PROVE Apart'
    <2>0. cpc[c] = "push" /\ UNCHANGED <<ctask, wpc, wtask, outcome, ran>>
      BY <1>5 DEF TryPush, workerVars
    <2>1. CASE qlock = NoOne /\ Len(queue) < maxQueueSize
      BY <1>t, <1>5, <2>0, <2>1, PushApart DEF TryPush
    <2>2. CASE ~ (qlock = NoOne /\ Len(queue) < maxQueueSize)
      <3>1. cpc' = [cpc EXCEPT ![c] = "addMax"] /\ UNCHANGED queue
        BY <1>5, <2>2 DEF TryPush
      <3>2. \A d \in Clients : /\ cpc'[d] = "idle" <=> cpc[d] = "idle"
                               /\ cpc[d] = "signal" => cpc'[d] = "signal"
        BY <1>t, <2>0, <3>1 DEF TypeOK
      <3> QED
        BY <1>t, <2>0, <3>1, <3>2, QuietStep
    <2> QED
      BY <2>1, <2>2
  <1>6. ASSUME NEW c \in Clients, Signal(c) PROVE Apart'
    <2>1. cpc[c] # "idle" /\ Return(c, "accepted") /\ UNCHANGED <<queue, wtask, ran>>
      BY <1>6 DEF Signal, queueVars
    <2>2. \A w \in Workers : wpc'[w] = "task" <=> wpc[w] = "task"
      BY <1>t, <1>6 DEF Signal, waiting, TypeOK
    <2> QED
      BY <1>t, <2>1, <2>2, ReturnApart
  <1>7. ASSUME NEW w \in Workers, WorkerStep(w) \/ Expire(w) PROVE Apart'
    <2>1. CASE RunTask(w)
      BY <1>t, <2>1, RunApart
    <2>2. CASE TakeTask(w)
      BY <1>t, <2>2, TakeApart
    <2>3. CASE \/ LoopCondition(w) \/ LockQueue(w) \/ TakeRefused(w) \/ PredicateFalse(w)
               \/ Block(w) \/ TakeTimedOut(w) \/ Expire(w) \/ ReleaseThread(w)
      <3>1. UNCHANGED <<queue, cpc, ctask, wtask, outcome, ran>>
        BY <2>3 DEF LoopCondition, LockQueue, TakeRefused, PredicateFalse, Block,
                    TakeTimedOut, Expire, ReleaseThread, queueVars, clientVars, history
      <3>2. wpc[w] # "task" /\ \E pc : pc # "task" /\ wpc' = [wpc EXCEPT ![w] = pc]
        BY <2>3 DEF LoopCondition, LockQueue, TakeRefused, PredicateFalse, Block,
                    TakeTimedOut, Expire, ReleaseThread, Go
      <3>3. \A v \in Workers : wpc'[v] = "task" <=> wpc[v] = "task"
        BY <1>t, <3>2 DEF TypeOK
      <3> QED
        BY <1>t, <3>1, <3>3, QuietStep
    <2> QED
      BY <1>7, <2>1, <2>2, <2>3 DEF WorkerStep
  <1>8. ASSUME NEW s \in Stoppers, StopperStep(s) \/ Shutdown(s) PROVE Apart'
    <2>0. UNCHANGED <<cpc, ctask, wtask, outcome, ran>>
      BY <1>8 DEF StopperStep, SetShutdown, NotifyBlockingThread, AwaitThreads, Drain,
                  ShutdownReturns, Shutdown, clientVars, workerVars, history
    <2>1. CASE Drain(s) /\ queue # << >>
      BY <1>t, <2>0, <2>1, DropApart DEF Drain, workerVars
    <2>2. CASE ~ (Drain(s) /\ queue # << >>)
      <3>1. UNCHANGED queue
        BY <1>8, <2>2 DEF StopperStep, SetShutdown, NotifyBlockingThread, AwaitThreads, Drain,
                          ShutdownReturns, Shutdown, queueVars
      <3>2. \A w \in Workers : wpc'[w] = "task" <=> wpc[w] = "task"
        BY <1>t, <1>8 DEF StopperStep, SetShutdown, NotifyBlockingThread, AwaitThreads, Drain,
                          ShutdownReturns, Shutdown, workerVars, TypeOK
      <3> QED
        BY <1>t, <2>0, <3>1, <3>2, QuietStep
    <2> QED
      BY <2>1, <2>2
  <1>9. CASE UNCHANGED vars
    BY <1>t, <1>9, QuietStep DEF vars
  <1> QED
    BY <1>1, <1>2, <1>3, <1>4, <1>5, <1>6, <1>7, <1>8, <1>9 DEF Next, ClientStep

-----------------------------------------------------------------------------
(* The state of the pool always satisfies the inductive invariant.         *)
THEOREM Invariance == Spec => []IInv
  <1>1. Init => IInv
    <2> SUFFICES ASSUME Init PROVE IInv
      OBVIOUS
    <2> USE ThreadPoolAssumption
    <2>q. queue = << >> /\ << >> \in Seq(Tasks) /\ Len(queue) = 0
      BY EmptySeq DEF Init
    <2>1. TypeOK
      BY <2>q DEF Init, TypeOK
    <2>2. ShutdownSet
      BY DEF Init, ShutdownSet
    <2>3. CountIsExact
      <3>1. threadPool = {} /\ reserved = {}
        BY DEF Init, threadPool, reserved
      <3>2. Cardinality(threadPool) = 0 /\ Cardinality(reserved) = 0
        BY <3>1, FS_EmptySet
      <3> QED
        BY <3>1, <3>2 DEF Init, CountIsExact
    <2>4. Apart
      BY <2>q DEF Init, Apart, Carriers, ClientsApart, QueueApart, WorkersApart,
                  RefusedUntaken, Untaken, RanOnce
    <2> QED
      BY <2>1, <2>2, <2>3, <2>4 DEF IInv
  <1>2. IInv /\ [Next]_vars => IInv'
    <2>1. IInv /\ [Next]_vars => CountIsExact'
      BY CountStep, NoThreadLeftStep DEF CountIsExact
    <2> QED
      BY <2>1, TypeStep, ShutdownSetStep, ApartStep DEF IInv
  <1> QED
    BY <1>1, <1>2, PTL DEF Spec

(* Whatever clients, workers and stoppers do at the same time, the low     *)
(* bits of ctl_ are the number of threads and reservations, never more     *)
(* than maximumPoolSize_, and shutdown() leaves no thread behind.          *)
THEOREM CountCorrect == Spec => []CountIsExact
  <1>1. IInv => CountIsExact
    BY DEF IInv
  <1> QED
    BY <1>1, Invariance, PTL

(* No task runs twice, and none of which execute() has said false.         *)
THEOREM TasksRunOnce == Spec => []RunOnceIfAccepted
  <1>1. IInv => RunOnceIfAccepted
    BY SMTT(60) DEF IInv, TypeOK, Apart, RefusedUntaken, RanOnce, Untaken, RunOnceIfAccepted
  <1> QED
    BY <1>1, Invariance, PTL

=============================================================================
