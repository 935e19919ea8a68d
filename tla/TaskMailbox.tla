---------------------------- MODULE TaskMailbox ----------------------------
(***************************************************************************)
(* What an event loop promises to the threads that hand it tasks: a FIFO   *)
(* mailbox.  A task is accepted once, accepted tasks are run one at a time *)
(* in the order they were accepted, none twice.  The promise ends when the *)
(* loop stops: tasks accepted later stay in the mailbox, and a task that   *)
(* throws takes the batch it was run in with it.                           *)
(***************************************************************************)
EXTENDS Naturals, Sequences

CONSTANT Tasks

VARIABLES queue,  \* accepted tasks that have not finished, oldest first
          done,   \* finished tasks, in the order they finished
          open    \* FALSE once nobody empties the mailbox any more

vars == <<queue, done, open>>

Init == /\ queue = << >>
        /\ done = << >>
        /\ open = TRUE

(* A thread, or a callback of the loop itself, hands over a task.          *)
Post(task) == /\ queue' = Append(queue, task)
              /\ UNCHANGED <<done, open>>

(* The oldest accepted task finishes.                                      *)
Deliver == /\ open
           /\ queue # << >>
           /\ done' = Append(done, Head(queue))
           /\ queue' = Tail(queue)
           /\ UNCHANGED open

(* The loop leaves its run() method.                                       *)
Stop == /\ open
        /\ open' = FALSE
        /\ UNCHANGED <<queue, done>>

(* A task throws: the loop dies and loses some of the oldest tasks.        *)
Crash == /\ open
         /\ \E k \in 1 .. Len(queue) : queue' = SubSeq(queue, k + 1, Len(queue))
         /\ open' = FALSE
         /\ UNCHANGED done

Next == \/ \E task \in Tasks : Post(task)
        \/ Deliver
        \/ Stop
        \/ Crash

Spec == Init /\ [][Next]_vars
=============================================================================
