---------------------------- MODULE MCEventLoop -----------------------------
(* The TLC instance of EventLoop.  The constants are in the .cfg file.     *)
(* Many tasks and threads meet few channels, no more than events_ has room *)
(* for with the notifier; many channels, more than it has room for, meet   *)
(* few tasks and threads.                                                  *)
EXTENDS EventLoop

CONSTANTS FewTasks, FewThreads, FewChannels

WithinBounds == \/ channels \subseteq FewChannels
                \/ /\ \A task \in Tasks : Posted(task) => task \in FewTasks
                   /\ \A t \in Threads : tpc[t] # "idle" => t \in FewThreads

(* Steps of the loop stay within the bounds: only callbacks and other      *)
(* threads are restricted, so the fairness of FairSpec is as it was.       *)
BoundedNext == Next /\ WithinBounds'

BoundedSpec == /\ Init /\ [][BoundedNext]_vars
               /\ WF_vars(LoopStep)
               /\ \A t \in Threads : WF_vars(Notify(t))
=============================================================================
