----------------------------- MODULE ThreadPool -----------------------------
(***************************************************************************)
(* nets::ThreadPool over its BoundedBlockingQueue: clients call execute()  *)
(* (submit() is execute() of a wrapped task), workers run runThread(),     *)
(* stoppers call shutdown().                                               *)
(*                                                                         *)
(* ctl_ is the pair state/count and every access to it is one step.  A     *)
(* compare-exchange loop is one step as well: it succeeds only on the      *)
(* value it tested.  The queue's mutex is the variable qlock, because      *)
(* tryPush() fails when it is taken and because notifyBlockingThread()     *)
(* does not take it; critical sections of the pool's mutex_ are one step.  *)
(***************************************************************************)
EXTENDS Naturals, Sequences, FiniteSets

CONSTANTS Clients, Stoppers,
          Workers,          \* identities for ThreadWrapper objects
          Tasks,            \* task objects; each one is passed once
          NoOne,            \* qlock is free; a worker or client has no task
          corePoolSize, maximumPoolSize, maxQueueSize

ASSUME ThreadPoolAssumption ==
    /\ corePoolSize \in Nat \ {0}
    /\ maximumPoolSize \in Nat
    /\ corePoolSize <= maximumPoolSize
    /\ maxQueueSize \in Nat
    /\ NoOne \notin Workers \cup Tasks
    /\ IsFiniteSet(Workers) /\ IsFiniteSet(Clients)
    /\ Cardinality(Workers) >= maximumPoolSize

VARIABLES state, count,     \* ctl_: high bits, low bits
          queue, qlock,     \* the queue and the owner of its mutex
          cpc, ctask,       \* clients
          wpc, wtask, wcore,\* workers; "none": not in threadPool_
          spc,              \* stoppers
          outcome,          \* history: what execute() said of a task
          ran               \* history: how often a task was run

vars == <<state, count, queue, qlock, cpc, ctask, wpc, wtask, wcore, spc,
          outcome, ran>>
ctlVars    == <<state, count>>
queueVars  == <<queue, qlock>>
clientVars == <<cpc, ctask>>
workerVars == <<wpc, wtask, wcore>>
history    == <<outcome, ran>>

threadPool == {w \in Workers : wpc[w] # "none"}
waiting    == {w \in Workers : wpc[w] = "waiting"}

Init == /\ state = "running"
        /\ count = 0
        /\ queue = << >>
        /\ qlock = NoOne
        /\ cpc = [c \in Clients |-> "idle"]
        /\ ctask = [c \in Clients |-> NoOne]
        /\ wpc = [w \in Workers |-> "none"]
        /\ wtask = [w \in Workers |-> NoOne]
        /\ wcore = [w \in Workers |-> FALSE]
        /\ spc = [s \in Stoppers |-> "idle"]
        /\ outcome = [t \in Tasks |-> "new"]
        /\ ran = [t \in Tasks |-> 0]

-----------------------------------------------------------------------------
(* execute()                                                               *)

Return(c, result) == /\ cpc' = [cpc EXCEPT ![c] = "idle"]
                     /\ ctask' = [ctask EXCEPT ![c] = NoOne]
                     /\ outcome' = [outcome EXCEPT ![ctask[c]] = result]

(* The first load of ctl_ and the choice it leads to.                      *)
Execute(c, task) ==
    /\ cpc[c] = "idle"
    /\ outcome[task] = "new"
    /\ IF state = "shutdown"
         THEN /\ outcome' = [outcome EXCEPT ![task] = "rejected"]
              /\ UNCHANGED clientVars
         ELSE /\ outcome' = [outcome EXCEPT ![task] = "calling"]
              /\ ctask' = [ctask EXCEPT ![c] = task]
              /\ cpc' = [cpc EXCEPT ![c] = IF count < corePoolSize THEN "addCore" ELSE "push"]
    /\ UNCHANGED <<ctlVars, queueVars, workerVars, spc, ran>>

(* addThreadTask() gives up: execute() reloads ctl_ and goes on, or, after *)
(* the attempt at a non-core thread, returns false.                        *)
AddThreadFails(c) ==
    \/ /\ cpc[c] \in {"addCore", "newCore"}
       /\ cpc' = [cpc EXCEPT ![c] = "reload"]
       /\ UNCHANGED <<ctask, outcome>>
    \/ /\ cpc[c] \in {"addMax", "newMax"}
       /\ Return(c, "rejected")

PoolLimit(c) == IF cpc[c] = "addCore" THEN corePoolSize ELSE maximumPoolSize

(* addThreadTask(), the compare-exchange loop on ctl_.                     *)
ReserveThreadAlways(c) ==
    /\ cpc[c] \in {"addCore", "addMax"}
    /\ \/ /\ count >= PoolLimit(c)
          /\ AddThreadFails(c)
          /\ UNCHANGED count
       \/ /\ count < PoolLimit(c)
          /\ count' = count + 1
          /\ cpc' = [cpc EXCEPT ![c] = IF cpc[c] = "addCore" THEN "newCore" ELSE "newMax"]
          /\ UNCHANGED <<ctask, outcome>>
    /\ UNCHANGED <<state, queueVars, workerVars, spc, ran>>

ReserveThread(c) ==
    /\ cpc[c] \in {"addCore", "addMax"}
    /\ \/ /\ state = "shutdown" \/ count >= PoolLimit(c)
          /\ AddThreadFails(c)
          /\ UNCHANGED count
       \/ /\ state = "running" /\ count < PoolLimit(c)
          /\ count' = count + 1
          /\ cpc' = [cpc EXCEPT ![c] = IF cpc[c] = "addCore" THEN "newCore" ELSE "newMax"]
          /\ UNCHANGED <<ctask, outcome>>
    /\ UNCHANGED <<state, queueVars, workerVars, spc, ran>>

(* addThreadTask(), under mutex_: create the thread, or undo the           *)
(* reservation when shutdown() came in between.                            *)
CreateThread(c) ==
    /\ cpc[c] \in {"newCore", "newMax"}
    /\ \/ /\ state = "running"
          /\ \E w \in Workers :
                 /\ wpc[w] = "none"
                 /\ wpc' = [wpc EXCEPT ![w] = "task"]
                 /\ wtask' = [wtask EXCEPT ![w] = ctask[c]]
                 /\ wcore' = [wcore EXCEPT ![w] = cpc[c] = "newCore"]
          /\ Return(c, "accepted")
          /\ UNCHANGED count
       \/ /\ state = "shutdown"
          /\ count' = count - 1
          /\ AddThreadFails(c)
          /\ UNCHANGED workerVars
    /\ UNCHANGED <<state, queueVars, spc, ran>>

(* The second load of ctl_ in execute().                                   *)
Reload(c) ==
    /\ cpc[c] = "reload"
    /\ cpc' = [cpc EXCEPT ![c] = IF state = "running" THEN "push" ELSE "addMax"]
    /\ UNCHANGED <<ctlVars, queueVars, ctask, workerVars, spc, history>>

(* tryPush(): no waiting for the mutex, and no second look at ctl_.        *)
TryPush(c) ==
    /\ cpc[c] = "push"
    /\ IF qlock = NoOne /\ Len(queue) < maxQueueSize
         THEN /\ queue' = Append(queue, ctask[c])
              /\ cpc' = [cpc EXCEPT ![c] = "signal"]
         ELSE /\ cpc' = [cpc EXCEPT ![c] = "addMax"]
              /\ UNCHANGED queue
    /\ UNCHANGED <<ctlVars, qlock, ctask, workerVars, spc, outcome, ran>>

(* notEmptyCV_.notify_one(), after the unlock.                             *)
SignalSilent(c) ==
    /\ cpc[c] = "signal"
    /\ Return(c, "accepted")
    /\ UNCHANGED <<ctlVars, queueVars, workerVars, spc, ran>>

Signal(c) ==
    /\ cpc[c] = "signal"
    /\ IF waiting = {} THEN UNCHANGED wpc
                       ELSE \E w \in waiting : wpc' = [wpc EXCEPT ![w] = "awake"]
    /\ Return(c, "accepted")
    /\ UNCHANGED <<ctlVars, queueVars, wtask, wcore, spc, ran>>

ClientStep(c) == ReserveThread(c) \/ CreateThread(c) \/ Reload(c) \/ TryPush(c) \/ Signal(c)

-----------------------------------------------------------------------------
(* runThread()                                                             *)

Go(w, pc) == wpc' = [wpc EXCEPT ![w] = pc]

(* task_() and task_ = nullptr.                                            *)
RunTask(w) ==
    /\ wpc[w] = "task"
    /\ ran' = [ran EXCEPT ![wtask[w]] = @ + 1]
    /\ wtask' = [wtask EXCEPT ![w] = NoOne]
    /\ Go(w, "loop")
    /\ UNCHANGED <<ctlVars, queueVars, clientVars, wcore, spc, outcome>>

(* while (isRunning(ctl_))                                                 *)
LoopCondition(w) ==
    /\ wpc[w] = "loop"
    /\ Go(w, IF state = "running" THEN "take" ELSE "release")
    /\ UNCHANGED <<ctlVars, queueVars, clientVars, wtask, wcore, spc, history>>

(* take(): the mutex, at the call and after every wake-up or timeout.      *)
LockQueue(w) ==
    /\ wpc[w] \in {"take", "awake", "expired"}
    /\ qlock = NoOne
    /\ qlock' = w
    /\ Go(w, IF wpc[w] = "expired" THEN "lastLook" ELSE "look")
    /\ UNCHANGED <<ctlVars, queue, clientVars, wtask, wcore, spc, history>>

(* take(): the predicate holds, and shutdown has been seen.                *)
TakeRefused(w) ==
    /\ wpc[w] \in {"look", "lastLook"}
    /\ state = "shutdown"
    /\ qlock' = NoOne
    /\ Go(w, IF wcore[w] THEN "loop" ELSE "release")
    /\ UNCHANGED <<ctlVars, queue, clientVars, wtask, wcore, spc, history>>

(* take(): the predicate holds; pop the front and unlock.  Nobody waits on *)
(* notFullCV_ in this system.                                              *)
TakeTaskKeeps(w) ==
    /\ wpc[w] \in {"look", "lastLook"}
    /\ state = "running"
    /\ queue # << >>
    /\ wtask' = [wtask EXCEPT ![w] = Head(queue)]
    /\ qlock' = NoOne
    /\ Go(w, "task")
    /\ UNCHANGED <<ctlVars, queue, clientVars, wcore, spc, history>>

TakeTask(w) ==
    /\ wpc[w] \in {"look", "lastLook"}
    /\ state = "running"
    /\ queue # << >>
    /\ wtask' = [wtask EXCEPT ![w] = Head(queue)]
    /\ queue' = Tail(queue)
    /\ qlock' = NoOne
    /\ Go(w, "task")
    /\ UNCHANGED <<ctlVars, clientVars, wcore, spc, history>>

(* take(): the predicate is false.  The wait has not begun: a notify_all   *)
(* that does not take the mutex finds nobody here.                         *)
PredicateFalse(w) ==
    /\ wpc[w] = "look"
    /\ state = "running"
    /\ queue = << >>
    /\ Go(w, "block")
    /\ UNCHANGED <<ctlVars, queueVars, clientVars, wtask, wcore, spc, history>>

Block(w) ==
    /\ wpc[w] = "block"
    /\ qlock' = NoOne
    /\ Go(w, "waiting")
    /\ UNCHANGED <<ctlVars, queue, clientVars, wtask, wcore, spc, history>>

(* The predicate is false after the timeout: the thread leaves.            *)
TakeTimedOut(w) ==
    /\ wpc[w] = "lastLook"
    /\ state = "running"
    /\ queue = << >>
    /\ qlock' = NoOne
    /\ Go(w, "release")
    /\ UNCHANGED <<ctlVars, queue, clientVars, wtask, wcore, spc, history>>

(* idleKeepAliveTime_ has passed; a non-core thread only.                  *)
Expire(w) ==
    /\ wpc[w] = "waiting"
    /\ ~ wcore[w]
    /\ Go(w, "expired")
    /\ UNCHANGED <<ctlVars, queueVars, clientVars, wtask, wcore, spc, history>>

(* releaseThread(), under mutex_.                                          *)
ReleaseThread(w) ==
    /\ wpc[w] = "release"
    /\ Go(w, "none")
    /\ count' = count - 1
    /\ UNCHANGED <<state, queueVars, clientVars, wtask, wcore, spc, history>>

WorkerStep(w) == \/ RunTask(w) \/ LoopCondition(w) \/ LockQueue(w) \/ TakeRefused(w)
                 \/ TakeTask(w) \/ PredicateFalse(w) \/ Block(w) \/ TakeTimedOut(w)
                 \/ ReleaseThread(w)

-----------------------------------------------------------------------------
(* shutdown()                                                              *)

SGo(s, pc) == spc' = [spc EXCEPT ![s] = pc]

(* The early return does not wait for a shutdown() that is under way.      *)
Shutdown(s) ==
    /\ spc[s] = "idle"
    /\ SGo(s, IF state = "shutdown" THEN "returned" ELSE "cas")
    /\ UNCHANGED <<ctlVars, queueVars, clientVars, workerVars, history>>

SetShutdown(s) ==
    /\ spc[s] = "cas"
    /\ state' = "shutdown"
    /\ SGo(s, "notify")
    /\ UNCHANGED <<count, queueVars, clientVars, workerVars, history>>

(* taskQueue_->notifyBlockingThread()                                      *)
NotifyBlockingThread(s) ==
    /\ spc[s] = "notify"
    /\ wpc' = [w \in Workers |-> IF wpc[w] = "waiting" THEN "awake" ELSE wpc[w]]
    /\ SGo(s, "wait")
    /\ UNCHANGED <<ctlVars, queueVars, clientVars, wtask, wcore, history>>

(* cv_.wait() for the last thread; every decrement under mutex_ notifies.  *)
AwaitThreads(s) ==
    /\ spc[s] = "wait"
    /\ count = 0
    /\ SGo(s, "drain")
    /\ UNCHANGED <<ctlVars, queueVars, clientVars, workerVars, history>>

(* Tasks nobody will run are popped and dropped.                           *)
Drain(s) ==
    /\ spc[s] = "drain"
    /\ qlock = NoOne
    /\ IF queue = << >> THEN SGo(s, "drained") /\ UNCHANGED queue
                        ELSE queue' = Tail(queue) /\ UNCHANGED spc
    /\ UNCHANGED <<ctlVars, qlock, clientVars, workerVars, history>>

ShutdownReturns(s) ==
    /\ spc[s] = "drained"
    /\ SGo(s, "returned")
    /\ UNCHANGED <<ctlVars, queueVars, clientVars, workerVars, history>>

StopperStep(s) == \/ SetShutdown(s) \/ NotifyBlockingThread(s) \/ AwaitThreads(s)
                  \/ Drain(s) \/ ShutdownReturns(s)

-----------------------------------------------------------------------------
Next == \/ \E c \in Clients : ClientStep(c) \/ \E task \in Tasks : Execute(c, task)
        \/ \E w \in Workers : WorkerStep(w) \/ Expire(w)
        \/ \E s \in Stoppers : StopperStep(s) \/ Shutdown(s)

Spec == Init /\ [][Next]_vars

(* Threads are scheduled and tasks return; nobody has to call execute() or *)
(* shutdown(), and no timeout has to pass.                                 *)
FairSpec == /\ Spec
            /\ \A c \in Clients : WF_vars(ClientStep(c))
            /\ \A w \in Workers : WF_vars(WorkerStep(w))
            /\ \A s \in Stoppers : WF_vars(StopperStep(s))

-----------------------------------------------------------------------------
reserved == {c \in Clients : cpc[c] \in {"newCore", "newMax"}}

(* The low bits of ctl_ count the threads of threadPool_ and the           *)
(* reservations of addThreadTask() that have not become a thread yet, and  *)
(* never exceed maximumPoolSize_; when shutdown() has waited for the count *)
(* to reach 0, no thread is left and none can appear any more, whatever    *)
(* execute() calls were under way.                                         *)
CountIsExact == /\ count = Cardinality(threadPool) + Cardinality(reserved)
                /\ count <= maximumPoolSize
                /\ (\E s \in Stoppers : spc[s] \in {"drain", "drained"})
                       => threadPool = {} /\ reserved = {}

(* A task is run at most once, and never when execute() returned false:    *)
(* submit() has then already set an exception on its promise.              *)
RunOnceIfAccepted ==
    \A t \in Tasks : ran[t] <= (IF outcome[t] \in {"new", "rejected"} THEN 0 ELSE 1)

(* Every accepted task runs, unless the pool is shut down.                 *)
AcceptedTaskRuns ==
    \A t \in Tasks : outcome[t] = "accepted" ~> (ran[t] = 1 \/ state = "shutdown")

(* shutdown() returns: every thread, core threads included, is destroyed   *)
(* when the life of the pool ends.                                         *)
ShutdownTerminates == \A s \in Stoppers : spc[s] = "wait" ~> spc[s] = "returned"

(* assert(taskQueue_->isEmpty()) at the end of shutdown().                 *)
QueueEmptyAfterDrain == \A s \in Stoppers : spc[s] = "drained" => queue = << >>
=============================================================================
