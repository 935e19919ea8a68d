------------------------ MODULE BoundedBlockingQueue ------------------------
(***************************************************************************)
(* nets::BoundedBlockingQueue: a deque behind a mutex with two condition   *)
(* variables.  The elements are numbered in the order in which they are    *)
(* pushed.  Threads call the blocking functions with and without a time    *)
(* limit and a predicate, and the two functions that do not block.  A call *)
(* is broken where the code lets go of the mutex, and between evaluating   *)
(* the predicate and blocking, because notifyBlockingThread() takes no     *)
(* mutex.  The predicates p() of callers all read one flag, as those of    *)
(* ThreadPool do.                                                          *)
(***************************************************************************)
EXTENDS Integers, Sequences, FiniteSets

CONSTANTS QueueThreads,
          Programs,       \* which calls each thread makes: sets of functions
          maxQueueSize,
          MaxElements     \* bound on the elements pushed

ASSUME BoundedBlockingQueueAssumption ==
    /\ maxQueueSize \in Nat \ {0}
    /\ MaxElements \in Nat
    /\ IsFiniteSet(QueueThreads)
    /\ Programs \subseteq [QueueThreads -> SUBSET [side : {"put", "take"}, timed : BOOLEAN,
                                                  p : BOOLEAN, try : BOOLEAN]]

VARIABLES program,        \* the calls each thread may make; does not change
          queue,          \* queue_
          mutex,          \* the set of the thread that holds mutex_, or {}
          call,           \* of a thread: where it is, in which call
          closed,         \* what p() returns
          closing,        \* how far the thread is that closes the queue
          pushed, popped  \* history: elements pushed, elements popped

queueVars == <<program, queue, mutex, call, closed, closing, pushed, popped>>

(* The functions: put() has two overloads of each kind.                    *)
put == [side |-> "put", timed |-> FALSE, p |-> FALSE, try |-> FALSE]
take == [side |-> "take", timed |-> FALSE, p |-> FALSE, try |-> FALSE]
putUnless == [side |-> "put", timed |-> FALSE, p |-> TRUE, try |-> FALSE]
takeUnless == [side |-> "take", timed |-> FALSE, p |-> TRUE, try |-> FALSE]
putFor == [side |-> "put", timed |-> TRUE, p |-> FALSE, try |-> FALSE]
takeFor == [side |-> "take", timed |-> TRUE, p |-> FALSE, try |-> FALSE]
putForUnless == [side |-> "put", timed |-> TRUE, p |-> TRUE, try |-> FALSE]
takeForUnless == [side |-> "take", timed |-> TRUE, p |-> TRUE, try |-> FALSE]
tryPush == [put EXCEPT !.try = TRUE]
tryPop == [take EXCEPT !.try = TRUE]

Other(side) == IF side = "put" THEN "take" ELSE "put"

(* A thread in a call: pc, the function, and whether its time is over.     *)
NotCalling == [pc |-> "idle", op |-> put, expired |-> FALSE]
At(t, pc) == call' = [call EXCEPT ![t].pc = pc]
Returns(t) == call' = [call EXCEPT ![t] = NotCalling]

QueueInit == /\ program \in Programs
             /\ queue = << >>
             /\ mutex = {}
             /\ call = [t \in QueueThreads |-> NotCalling]
             /\ closed = FALSE
             /\ closing = "no"
             /\ pushed = 0
             /\ popped = << >>

(* A plausible mistake: off by one.                                        *)
isFullLate == Len(queue) > maxQueueSize

isFull == Len(queue) >= maxQueueSize
isEmpty == queue = << >>

Ready(side) == IF side = "put" THEN ~ isFull ELSE ~ isEmpty

-----------------------------------------------------------------------------
Call(t) == /\ call[t].pc = "idle"
           /\ \E op \in program[t] :
                 /\ ~ op.try
                 /\ op.side = "put" => pushed < MaxElements
                 /\ call' = [call EXCEPT ![t] = [pc |-> "lock", op |-> op, expired |-> FALSE]]
           /\ UNCHANGED <<program, queue, mutex, closed, closing, pushed, popped>>

(* A caller, or a thread whose wait() or wait_for() has ended, locks.      *)
Lock(t) == /\ call[t].pc = "lock"
           /\ mutex = {}
           /\ mutex' = {t}
           /\ At(t, "evaluate")
           /\ UNCHANGED <<program, queue, closed, closing, pushed, popped>>

(* The predicate of wait(): try the operation, give up, or block.          *)
Evaluate(t) ==
    /\ call[t].pc = "evaluate"
    /\ LET op == call[t].op
           go == Ready(op.side) \/ (op.p /\ closed)
       IN IF ~ go /\ call[t].expired
          THEN /\ Returns(t)
               /\ mutex' = {}
          ELSE /\ At(t, IF go THEN "operate" ELSE "block")
               /\ UNCHANGED mutex
    /\ UNCHANGED <<program, queue, closed, closing, pushed, popped>>

(* wait() and wait_for() let go of the mutex and sleep in one step.        *)
Block(t) == /\ call[t].pc = "block"
            /\ mutex' = {}
            /\ At(t, "waiting")
            /\ UNCHANGED <<program, queue, closed, closing, pushed, popped>>

(* The time is over, or the thread wakes up for no reason.                 *)
WakeUp(t) == /\ call[t].pc = "waiting"
             /\ \E expired \in {FALSE, call[t].op.timed} :
                   call' = [call EXCEPT ![t].pc = "lock", ![t].expired = expired]
             /\ UNCHANGED <<program, queue, mutex, closed, closing, pushed, popped>>

Push == /\ queue' = Append(queue, pushed + 1)
        /\ pushed' = pushed + 1
        /\ UNCHANGED popped

Pop == /\ queue' = Tail(queue)
       /\ popped' = Append(popped, Head(queue))
       /\ UNCHANGED pushed

(* The element is moved and the mutex released; p() is asked once more.    *)
Operate(t) ==
    /\ call[t].pc = "operate"
    /\ mutex' = {}
    /\ \/ /\ call[t].op.p /\ closed
          /\ Returns(t)
          /\ UNCHANGED <<queue, pushed, popped>>
       \/ /\ ~ (call[t].op.p /\ closed)
          /\ IF call[t].op.side = "put" THEN Push ELSE Pop
          /\ At(t, "notify")
    /\ UNCHANGED <<program, closed, closing>>

(* tryPush() and tryPop(): nothing happens when the mutex is taken.        *)
Try(t) ==
    /\ call[t].pc = "idle"
    /\ mutex = {}
    /\ \E op \in program[t] :
          /\ op.try /\ Ready(op.side)
          /\ op.side = "put" => pushed < MaxElements
          /\ IF op.side = "put" THEN Push ELSE Pop
          /\ call' = [call EXCEPT ![t].pc = "notify", ![t].op = op]
    /\ UNCHANGED <<program, mutex, closed, closing>>

Waiting(side) == {t \in QueueThreads : call[t].pc = "waiting" /\ call[t].op.side = side}

(* notify_all(): everyone who sleeps on the condition.                     *)
AllWoken(side) ==
    [t \in QueueThreads |-> IF t \in Waiting(side) THEN [call[t] EXCEPT !.pc = "lock"]
                            ELSE call[t]]

(* A plausible mistake: a put() wakes the other producers.                 *)
NotifyOneSameSide(t) ==
    /\ call[t].pc = "notify"
    /\ LET sleepers == Waiting(call[t].op.side)
       IN IF sleepers = {} THEN Returns(t)
          ELSE \E u \in sleepers :
                  call' = [call EXCEPT ![t] = NotCalling, ![u].pc = "lock"]
    /\ UNCHANGED <<program, queue, mutex, closed, closing, pushed, popped>>

(* notify_one() on the other side's condition, without the mutex.          *)
NotifyOne(t) ==
    /\ call[t].pc = "notify"
    /\ LET sleepers == Waiting(Other(call[t].op.side))
       IN IF sleepers = {} THEN Returns(t)
          ELSE \E u \in sleepers :
                  call' = [call EXCEPT ![t] = NotCalling, ![u].pc = "lock"]
    /\ UNCHANGED <<program, queue, mutex, closed, closing, pushed, popped>>

(* The owner of the queue makes p() true and wakes everyone.               *)
Close == /\ closing = "no"
         /\ closed' = TRUE
         /\ closing' = "notFull"
         /\ UNCHANGED <<program, queue, mutex, call, pushed, popped>>

notifyBlockingThread ==
    /\ \/ /\ closing = "notFull"
          /\ call' = AllWoken("put")
          /\ closing' = "notEmpty"
       \/ /\ closing = "notEmpty"
          /\ call' = AllWoken("take")
          /\ closing' = "done"
    /\ UNCHANGED <<program, queue, mutex, closed, pushed, popped>>

ThreadStep(t) == \/ Call(t) \/ Lock(t) \/ Evaluate(t) \/ Block(t) \/ WakeUp(t)
                 \/ Operate(t) \/ NotifyOne(t) \/ Try(t)

QueueNext == \/ \E t \in QueueThreads : ThreadStep(t)
             \/ Close \/ notifyBlockingThread

QueueSpec == QueueInit /\ [][QueueNext]_queueVars

-----------------------------------------------------------------------------
(* Elements leave the queue once each and in the order in which they came, *)
(* and there are never more than maxQueueSize, although a woken thread     *)
(* finds the queue changed again by others before it has the mutex.        *)
QueueKeepsElements ==
    /\ popped \o queue = [i \in 1 .. pushed |-> i]
    /\ Len(queue) <= maxQueueSize

(* While the queue is not closed, nobody sleeps for an element or for room *)
(* that is there, unless someone is still to be told: a signal to that     *)
(* side is on its way, or another thread of that side is awake and will    *)
(* take it.  A signal given to a thread whose time runs out at the same    *)
(* moment must not be lost with it.  (Once p() is true a thread may        *)
(* swallow a signal meant for another.)                                    *)
QueueSignalled ==
    \A side \in {"put", "take"} :
        ~ closed /\ Waiting(side) # {} /\ Ready(side) =>
            \E t \in QueueThreads :
                \/ call[t].pc = "notify" /\ call[t].op.side = Other(side)
                \/ call[t].pc \in {"lock", "evaluate", "operate"} /\ call[t].op.side = side
=============================================================================
