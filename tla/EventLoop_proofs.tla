-------------------------- MODULE EventLoop_proofs --------------------------
(***************************************************************************)
(* Proofs about EventLoop, for any number of threads, tasks and channels:  *)
(* the loop never sleeps over a task or an outside shutdown(), never       *)
(* touches a channel it destroyed, loses no task, and implements           *)
(* TaskMailbox.                                                            *)
(***************************************************************************)
EXTENDS EventLoop, SequenceTheorems, TLAPS

-----------------------------------------------------------------------------
(* Facts about sequences of tasks.                                         *)

(* Appending to the pending queue appends to everything that is queued.    *)
LEMMA AppendRight ==
    ASSUME NEW S, NEW s \in Seq(S), NEW t \in Seq(S), NEW e \in S
    PROVE  s \o Append(t, e) = Append(s \o t, e)
  <1>1. Append(t, e) = t \o <<e>> /\ <<e>> \in Seq(S)
    BY AppendIsConcat
  <1>2. s \o t \in Seq(S)
    BY ConcatProperties
  <1>3. Append(s \o t, e) = (s \o t) \o <<e>>
    BY <1>2, AppendIsConcat
  <1> QED
    BY <1>1, <1>3, ConcatAssociative

(* Finishing the oldest task of the batch moves it from one end to the     *)
(* other and leaves the concatenation as it is.                            *)
LEMMA MoveHead ==
    ASSUME NEW S, NEW s \in Seq(S), NEW t \in Seq(S), t # << >>
    PROVE  /\ Head(t) \in S
           /\ Tail(t) \in Seq(S)
           /\ Append(s, Head(t)) \o Tail(t) = s \o t
  <1>1. Head(t) \in S /\ Tail(t) \in Seq(S)
    BY HeadTailProperties
  <1>2. t = <<Head(t)>> \o Tail(t)
    <2>1. Len(t) >= 1 /\ Len(t) \in Nat
      BY EmptySeq, LenProperties
    <2>2. SubSeq(t, 1, Len(t)) = <<t[1]>> \o SubSeq(t, 2, Len(t))
      BY <2>1, SubSeqRecursiveFirst
    <2> QED
      BY <2>2, SubSeqFull, TailIsSubSeq
  <1>3. <<Head(t)>> \in Seq(S)
    BY <1>1
  <1>4. Append(s, Head(t)) = s \o <<Head(t)>>
    BY <1>1, AppendIsConcat
  <1>5. (s \o <<Head(t)>>) \o Tail(t) = s \o (<<Head(t)>> \o Tail(t))
    BY <1>1, <1>3, ConcatAssociative
  <1> QED
    BY <1>1, <1>2, <1>4, <1>5

(* Head and tail of a concatenation whose first part is not empty.         *)
LEMMA HeadTailConcat ==
    ASSUME NEW S, NEW s \in Seq(S), NEW t \in Seq(S), s # << >>
    PROVE  /\ s \o t # << >>
           /\ Head(s \o t) = Head(s)
           /\ Tail(s \o t) = Tail(s) \o t
  <1> DEFINE u == s \o t
  <1>1. Len(s) \in Nat /\ Len(s) >= 1 /\ Len(t) \in Nat
    BY EmptySeq, LenProperties
  <1>2. u \in Seq(S) /\ Len(u) = Len(s) + Len(t)
        /\ \A i \in 1 .. Len(s) + Len(t) :
               u[i] = IF i <= Len(s) THEN s[i] ELSE t[i - Len(s)]
    BY ConcatProperties
  <1>3. u # << >>
    BY <1>1, <1>2, EmptySeq
  <1>4. Head(u) = Head(s)
    BY <1>1, <1>2
  <1>5. /\ Tail(u) \in Seq(S)
        /\ Len(Tail(u)) = Len(u) - 1
        /\ \A i \in 1 .. Len(Tail(u)) : Tail(u)[i] = u[i + 1]
    BY <1>2, <1>3, HeadTailProperties
  <1>6. /\ Tail(s) \in Seq(S)
        /\ Len(Tail(s)) = Len(s) - 1
        /\ \A i \in 1 .. Len(Tail(s)) : Tail(s)[i] = s[i + 1]
    BY HeadTailProperties
  <1> DEFINE v == Tail(s) \o t
  <1>7. v \in Seq(S) /\ Len(v) = Len(Tail(s)) + Len(t)
        /\ \A i \in 1 .. Len(Tail(s)) + Len(t) :
               v[i] = IF i <= Len(Tail(s)) THEN Tail(s)[i] ELSE t[i - Len(Tail(s))]
    BY <1>6, ConcatProperties
  <1>8. Len(Tail(u)) = Len(v)
    BY <1>1, <1>2, <1>5, <1>6, <1>7
  <1>9. ASSUME NEW i \in 1 .. Len(Tail(u)) PROVE Tail(u)[i] = v[i]
    BY <1>1, <1>2, <1>5, <1>6, <1>7, <1>9
  <1>10. Tail(u) = v
    BY <1>5, <1>7, <1>8, <1>9, SeqEqual
  <1> QED
    BY <1>3, <1>4, <1>10

(* Dropping the first part of a concatenation.                             *)
LEMMA DropFirst ==
    ASSUME NEW S, NEW s \in Seq(S), NEW t \in Seq(S)
    PROVE  SubSeq(s \o t, Len(s) + 1, Len(s \o t)) = t
  <1>1. Len(s) \in Nat /\ Len(t) \in Nat /\ Len(s \o t) = Len(s) + Len(t)
    BY ConcatProperties, LenProperties
  <1>2. CASE t = << >>
    BY <1>1, <1>2, EmptySeq, SubSeqEmpty
  <1>3. CASE t # << >>
    <2>1. Len(t) >= 1
      BY <1>1, <1>3, EmptySeq
    <2>2. SubSeq(s \o t, Len(s) + 1, Len(s) + Len(t)) = SubSeq(t, 1, Len(t))
      BY <1>1, <2>1, SubSeqOfConcat2
    <2> QED
      BY <1>1, <2>2, SubSeqFull
  <1> QED
    BY <1>2, <1>3

-----------------------------------------------------------------------------
(* IInv is inductive: one lemma per conjunct that takes an argument.       *)

(* Every state component keeps its type.                                   *)
LEMMA TypeStep ==
    IInv /\ [Next]_vars => TypeOK'
  <1> SUFFICES ASSUME IInv, [Next]_vars PROVE TypeOK'
    OBVIOUS
  <1> USE EventLoopAssumption
  <1>t. TypeOK /\ (busy => tmpTasks # << >>)
    BY DEF IInv, Control
  <1>a. ASSUME NEW task \in Tasks, push_back(task)
        PROVE  pendingTasks' \in Seq(Tasks) /\ posted' \in Seq(Tasks)
    BY <1>t, <1>a DEF push_back, TypeOK
  <1>n. ASSUME notify PROVE eventFd' \in 0 .. EventFdMax
    BY <1>t, <1>n DEF notify, TypeOK
  <1>1. CASE StartRun
    BY <1>t, <1>1 DEF StartRun, TypeOK, LoopStates, queueVars, pollVars
  <1>2. CASE SwapPendingTasks
    BY <1>t, <1>2 DEF SwapPendingTasks, TypeOK, LoopStates, pollVars
  <1>3. CASE RunTask
    BY <1>t, <1>3 DEF RunTask, TypeOK, queueVars, pollVars
  <1>4. CASE FinishTask
    <2>1. Head(tmpTasks) \in Tasks /\ Tail(tmpTasks) \in Seq(Tasks)
      BY <1>t, <1>4, HeadTailProperties DEF FinishTask, TypeOK
    <2>2. executed' \in Seq(Tasks) /\ tmpTasks' \in Seq(Tasks)
      BY <1>t, <1>4, <2>1, AppendProperties DEF FinishTask, TypeOK
    <2>3. busy' \in BOOLEAN /\ UNCHANGED <<loopPc, running, runningPendingTasks, queueVars,
                                          eventFd, pollVars, tpc, selfStop>>
      BY <1>4 DEF FinishTask
    <2> QED
      BY <1>t, <2>2, <2>3 DEF TypeOK, queueVars, pollVars
  <1>5. CASE EndPendingTasks
    BY <1>t, <1>5 DEF EndPendingTasks, TypeOK, LoopStates, queueVars
  <1>6. CASE PollReady
    <2>1. activeChannels' \subseteq Channels \cup {Notifier}
      BY <1>t, <1>6 DEF PollReady, PollSome, Reports, ReadyChannels, TypeOK
    <2>2. eventsSize + eventsSize \div 2 \in Nat \ {0}
      BY <1>t DEF TypeOK
    <2>3. eventsSize' \in Nat \ {0}
      BY <1>t, <1>6, <2>2 DEF PollReady, PollSome, TypeOK
    <2>4. /\ loopPc' \in LoopStates
          /\ UNCHANGED <<running, runningPendingTasks, queueVars, tmpTasks, busy, eventFd,
                         channels, ready, handling, tpc, executed, selfStop>>
      BY <1>6 DEF PollReady, PollSome, LoopStates
    <2> QED
      BY <1>t, <2>1, <2>3, <2>4 DEF TypeOK, queueVars
  <1>7. CASE HandleNotify
    BY <1>t, <1>7 DEF HandleNotify, TypeOK, queueVars
  <1>8. ASSUME NEW c \in Channels, HandleEvent(c) PROVE TypeOK'
    BY <1>t, <1>8 DEF HandleEvent, TypeOK, queueVars
  <1>9. CASE EndHandleEvent
    BY <1>t, <1>9 DEF EndHandleEvent, TypeOK, queueVars
  <1>10. CASE LoopCondition
    BY <1>t, <1>10 DEF LoopCondition, TypeOK, LoopStates, queueVars, pollVars
  <1>11. CASE CallbackThrows
    <2>1. loopPc' \in LoopStates /\ handling' \subseteq Channels
      BY <1>11 DEF CallbackThrows, LoopStates
    <2>3. tmpTasks' \in Seq(Tasks)
      BY <1>11, EmptySeq DEF CallbackThrows
    <2>4. busy' \in BOOLEAN
      BY <1>11 DEF CallbackThrows
    <2>2. UNCHANGED <<running, runningPendingTasks, queueVars, eventFd, channels,
                      ready, activeChannels, tpc, executed, selfStop, eventsSize>>
      BY <1>11 DEF CallbackThrows
    <2> QED
      BY <1>t, <2>1, <2>2, <2>3, <2>4 DEF TypeOK, queueVars
  <1>12. CASE PollTimeout
    BY <1>t, <1>12 DEF PollTimeout, TypeOK, LoopStates, queueVars, pollVars
  <1>13. ASSUME NEW task \in Tasks, LoopAddTask(task) PROVE TypeOK'
    <2>1. eventFd' \in 0 .. EventFdMax
      BY <1>t, <1>n, <1>13 DEF LoopAddTask, TypeOK
    <2> QED
      BY <1>t, <1>a, <1>13, <2>1 DEF LoopAddTask, TypeOK, pollVars
  <1>14. CASE LoopShutdown
    BY <1>t, <1>14 DEF LoopShutdown, TypeOK, queueVars, pollVars
  <1>15. ASSUME NEW c \in Channels, LoopRegisterChannel(c) PROVE TypeOK'
    BY <1>t, <1>15 DEF LoopRegisterChannel, TypeOK, queueVars
  <1>16. ASSUME NEW c \in Channels, LoopDeregisterChannel(c) PROVE TypeOK'
    BY <1>t, <1>16 DEF LoopDeregisterChannel, TypeOK, queueVars
  <1>17. ASSUME NEW t \in Threads, NEW task \in Tasks, AddTask(t, task) PROVE TypeOK'
    BY <1>t, <1>a, <1>17 DEF AddTask, TypeOK, pollVars
  <1>18. ASSUME NEW t \in Threads, Shutdown(t) PROVE TypeOK'
    BY <1>t, <1>18 DEF Shutdown, TypeOK, queueVars, pollVars
  <1>19. ASSUME NEW t \in Threads, Notify(t) PROVE TypeOK'
    BY <1>t, <1>n, <1>19 DEF Notify, TypeOK, queueVars, pollVars
  <1>20. ASSUME NEW c \in Channels, BecomeReady(c) PROVE TypeOK'
    BY <1>t, <1>20 DEF BecomeReady, TypeOK, queueVars
  <1>21. CASE UNCHANGED vars
    BY <1>t, <1>21 DEF vars, pollVars, TypeOK
  <1> QED
    BY <1>1, <1>2, <1>3, <1>4, <1>5, <1>6, <1>7, <1>8, <1>9, <1>10, <1>11, <1>12,
       <1>13, <1>14, <1>15, <1>16, <1>17, <1>18, <1>19, <1>20, <1>21
       DEF Next, LoopStep, CallbackStep, ThreadStep

(* A write to the eventfd leaves its counter positive, also when it fails. *)
LEMMA NotifyPositive ==
    ASSUME TypeOK, notify PROVE eventFd' > 0
  BY EventLoopAssumption DEF TypeOK, notify

(* Where a batch, a handler and the flag of runPendingTasks can exist.     *)
LEMMA ControlStep ==
    IInv /\ [Next]_vars => Control'
  <1> SUFFICES ASSUME IInv, [Next]_vars PROVE Control'
    OBVIOUS
  <1> USE EventLoopAssumption
  <1>i. TypeOK /\ Control
    BY DEF IInv
  <1>1. CASE StartRun
    BY <1>i, <1>1 DEF StartRun, Control, queueVars, pollVars
  <1>2. CASE SwapPendingTasks
    BY <1>i, <1>2 DEF SwapPendingTasks, Control, pollVars
  <1>3. CASE RunTask
    BY <1>i, <1>3 DEF RunTask, Control, queueVars, pollVars
  <1>4. CASE FinishTask
    BY <1>i, <1>4 DEF FinishTask, Control, queueVars, pollVars
  <1>5. CASE EndPendingTasks
    BY <1>i, <1>5 DEF EndPendingTasks, Control, queueVars
  <1>6. CASE PollReady
    BY <1>i, <1>6 DEF PollReady, PollSome, Reports, Control, queueVars, ReadyChannels
  <1>7. CASE HandleNotify
    BY <1>i, <1>7 DEF HandleNotify, Control, queueVars
  <1>8. ASSUME NEW c \in Channels, HandleEvent(c)
       PROVE  Control'
    BY <1>i, <1>8 DEF HandleEvent, Control, queueVars
  <1>9. CASE EndHandleEvent
    BY <1>i, <1>9 DEF EndHandleEvent, Control, queueVars
  <1>10. CASE LoopCondition
    BY <1>i, <1>10 DEF LoopCondition, Control, queueVars, pollVars
  <1>11. CASE CallbackThrows
    BY <1>i, <1>11 DEF CallbackThrows, Control, queueVars, InCallback
  <1>12. CASE PollTimeout
    BY <1>i, <1>12 DEF PollTimeout, Control, queueVars, pollVars
  <1>13. ASSUME NEW task \in Tasks, LoopAddTask(task)
       PROVE  Control'
    BY <1>i, <1>13 DEF LoopAddTask, Control, pollVars, InCallback
  <1>14. CASE LoopShutdown
    BY <1>i, <1>14 DEF LoopShutdown, Control, queueVars, pollVars, InCallback
  <1>15. ASSUME NEW c \in Channels, LoopRegisterChannel(c)
       PROVE  Control'
    BY <1>i, <1>15 DEF LoopRegisterChannel, Control, queueVars, InCallback
  <1>16. ASSUME NEW c \in Channels, LoopDeregisterChannel(c)
       PROVE  Control'
    BY <1>i, <1>16 DEF LoopDeregisterChannel, Control, queueVars, InCallback
  <1>17. ASSUME NEW t \in Threads, NEW task \in Tasks, AddTask(t, task)
       PROVE  Control'
    BY <1>i, <1>17 DEF AddTask, Control, pollVars
  <1>18. ASSUME NEW t \in Threads, Shutdown(t)
       PROVE  Control'
    BY <1>i, <1>18 DEF Shutdown, Control, queueVars, pollVars
  <1>19. ASSUME NEW t \in Threads, Notify(t)
       PROVE  Control'
    BY <1>i, <1>19 DEF Notify, Control, queueVars, pollVars
  <1>20. ASSUME NEW c \in Channels, BecomeReady(c)
       PROVE  Control'
    BY <1>i, <1>20 DEF BecomeReady, Control, queueVars
  <1>21. CASE UNCHANGED vars
    BY <1>i, <1>21 DEF vars, pollVars, Control
  <1> QED
    BY <1>1, <1>2, <1>3, <1>4, <1>5, <1>6, <1>7, <1>8, <1>9, <1>10, <1>11, <1>12,
       <1>13, <1>14, <1>15, <1>16, <1>17, <1>18, <1>19, <1>20, <1>21
       DEF Next, LoopStep, CallbackStep, ThreadStep

(* What is still to be dispatched stays registered: only the channel being *)
(* handled is deregistered during dispatch.                                *)
LEMMA ActiveStep ==
    IInv /\ [Next]_vars => ActiveChannelsAlive'
  <1> SUFFICES ASSUME IInv, [Next]_vars PROVE ActiveChannelsAlive'
    OBVIOUS
  <1> USE EventLoopAssumption
  <1>i. TypeOK /\ Control /\ ActiveChannelsAlive
    BY DEF IInv
  <1>1. CASE StartRun
    BY <1>i, <1>1 DEF StartRun, ActiveChannelsAlive, TypeOK, Control, queueVars, pollVars
  <1>2. CASE SwapPendingTasks
    BY <1>i, <1>2 DEF SwapPendingTasks, ActiveChannelsAlive, TypeOK, Control, pollVars
  <1>3. CASE RunTask
    BY <1>i, <1>3 DEF RunTask, ActiveChannelsAlive, TypeOK, Control, queueVars, pollVars
  <1>4. CASE FinishTask
    BY <1>i, <1>4 DEF FinishTask, ActiveChannelsAlive, TypeOK, Control, queueVars, pollVars
  <1>5. CASE EndPendingTasks
    BY <1>i, <1>5 DEF EndPendingTasks, ActiveChannelsAlive, TypeOK, Control, queueVars
  <1>6. CASE PollReady
    BY <1>i, <1>6 DEF PollReady, PollSome, Reports, ActiveChannelsAlive, TypeOK, Control, queueVars, ReadyChannels
  <1>7. CASE HandleNotify
    BY <1>i, <1>7 DEF HandleNotify, ActiveChannelsAlive, TypeOK, Control, queueVars
  <1>8. ASSUME NEW c \in Channels, HandleEvent(c)
       PROVE  ActiveChannelsAlive'
    BY <1>i, <1>8 DEF HandleEvent, ActiveChannelsAlive, TypeOK, Control, queueVars
  <1>9. CASE EndHandleEvent
    BY <1>i, <1>9 DEF EndHandleEvent, ActiveChannelsAlive, TypeOK, Control, queueVars
  <1>10. CASE LoopCondition
    BY <1>i, <1>10 DEF LoopCondition, ActiveChannelsAlive, TypeOK, Control, queueVars, pollVars
  <1>11. CASE CallbackThrows
    BY <1>i, <1>11 DEF CallbackThrows, ActiveChannelsAlive, TypeOK, Control, queueVars, InCallback
  <1>12. CASE PollTimeout
    BY <1>i, <1>12 DEF PollTimeout, ActiveChannelsAlive, TypeOK, Control, queueVars, pollVars
  <1>13. ASSUME NEW task \in Tasks, LoopAddTask(task)
       PROVE  ActiveChannelsAlive'
    BY <1>i, <1>13 DEF LoopAddTask, ActiveChannelsAlive, TypeOK, Control, pollVars, InCallback
  <1>14. CASE LoopShutdown
    BY <1>i, <1>14 DEF LoopShutdown, ActiveChannelsAlive, TypeOK, Control, queueVars, pollVars, InCallback
  <1>15. ASSUME NEW c \in Channels, LoopRegisterChannel(c)
       PROVE  ActiveChannelsAlive'
    BY <1>i, <1>15 DEF LoopRegisterChannel, ActiveChannelsAlive, TypeOK, Control, queueVars, InCallback
  <1>16. ASSUME NEW c \in Channels, LoopDeregisterChannel(c)
       PROVE  ActiveChannelsAlive'
    BY <1>i, <1>16 DEF LoopDeregisterChannel, ActiveChannelsAlive, TypeOK, Control, queueVars, InCallback
  <1>17. ASSUME NEW t \in Threads, NEW task \in Tasks, AddTask(t, task)
       PROVE  ActiveChannelsAlive'
    BY <1>i, <1>17 DEF AddTask, ActiveChannelsAlive, TypeOK, Control, pollVars
  <1>18. ASSUME NEW t \in Threads, Shutdown(t)
       PROVE  ActiveChannelsAlive'
    BY <1>i, <1>18 DEF Shutdown, ActiveChannelsAlive, TypeOK, Control, queueVars, pollVars
  <1>19. ASSUME NEW t \in Threads, Notify(t)
       PROVE  ActiveChannelsAlive'
    BY <1>i, <1>19 DEF Notify, ActiveChannelsAlive, TypeOK, Control, queueVars, pollVars
  <1>20. ASSUME NEW c \in Channels, BecomeReady(c)
       PROVE  ActiveChannelsAlive'
    BY <1>i, <1>20 DEF BecomeReady, ActiveChannelsAlive, TypeOK, Control, queueVars
  <1>21. CASE UNCHANGED vars
    BY <1>i, <1>21 DEF vars, pollVars, ActiveChannelsAlive, TypeOK, Control
  <1> QED
    BY <1>1, <1>2, <1>3, <1>4, <1>5, <1>6, <1>7, <1>8, <1>9, <1>10, <1>11, <1>12,
       <1>13, <1>14, <1>15, <1>16, <1>17, <1>18, <1>19, <1>20, <1>21
       DEF Next, LoopStep, CallbackStep, ThreadStep

(* A task pushed after the last swap has its wake-up.                      *)
LEMMA TaskWakeupStep ==
    IInv /\ [Next]_vars => TaskWakeup'
  <1> SUFFICES ASSUME IInv, [Next]_vars PROVE TaskWakeup'
    OBVIOUS
  <1> USE EventLoopAssumption
  <1>i. TypeOK /\ Control /\ TaskWakeup
    BY DEF IInv
  <1>1. CASE StartRun
    BY <1>i, <1>1 DEF StartRun, TaskWakeup, WakeupComing, TypeOK, Control, queueVars, pollVars
  <1>2. CASE SwapPendingTasks
    BY <1>i, <1>2 DEF SwapPendingTasks, TaskWakeup, WakeupComing, TypeOK, Control, pollVars
  <1>3. CASE RunTask
    BY <1>i, <1>3 DEF RunTask, TaskWakeup, WakeupComing, TypeOK, Control, queueVars, pollVars
  <1>4. CASE FinishTask
    BY <1>i, <1>4 DEF FinishTask, TaskWakeup, WakeupComing, TypeOK, Control, queueVars, pollVars
  <1>5. CASE EndPendingTasks
    BY <1>i, <1>5 DEF EndPendingTasks, TaskWakeup, WakeupComing, TypeOK, Control, queueVars
  <1>6. CASE PollReady
    BY <1>i, <1>6 DEF PollReady, PollSome, TaskWakeup, WakeupComing, TypeOK, Control, queueVars, ReadyChannels
  <1>7. CASE HandleNotify
    BY <1>i, <1>7 DEF HandleNotify, TaskWakeup, WakeupComing, TypeOK, Control, queueVars
  <1>8. ASSUME NEW c \in Channels, HandleEvent(c)
       PROVE  TaskWakeup'
    BY <1>i, <1>8 DEF HandleEvent, TaskWakeup, WakeupComing, TypeOK, Control, queueVars
  <1>9. CASE EndHandleEvent
    BY <1>i, <1>9 DEF EndHandleEvent, TaskWakeup, WakeupComing, TypeOK, Control, queueVars
  <1>10. CASE LoopCondition
    BY <1>i, <1>10 DEF LoopCondition, TaskWakeup, WakeupComing, TypeOK, Control, queueVars, pollVars
  <1>11. CASE CallbackThrows
    BY <1>i, <1>11 DEF CallbackThrows, TaskWakeup, WakeupComing, TypeOK, Control, queueVars, InCallback
  <1>12. CASE PollTimeout
    BY <1>i, <1>12 DEF PollTimeout, TaskWakeup, WakeupComing, TypeOK, Control, queueVars, pollVars
  <1>13. ASSUME NEW task \in Tasks, LoopAddTask(task)
       PROVE  TaskWakeup'
    <2>1. CASE runningPendingTasks
      BY <1>i, <1>13, <2>1, NotifyPositive DEF LoopAddTask, TaskWakeup, WakeupComing
    <2>2. CASE ~ runningPendingTasks
      BY <1>i, <1>13, <2>2 DEF LoopAddTask, TaskWakeup, Control, InCallback
    <2> QED
      BY <2>1, <2>2
  <1>14. CASE LoopShutdown
    BY <1>i, <1>14 DEF LoopShutdown, TaskWakeup, WakeupComing, TypeOK, Control, queueVars, pollVars, InCallback
  <1>15. ASSUME NEW c \in Channels, LoopRegisterChannel(c)
       PROVE  TaskWakeup'
    BY <1>i, <1>15 DEF LoopRegisterChannel, TaskWakeup, WakeupComing, TypeOK, Control, queueVars, InCallback
  <1>16. ASSUME NEW c \in Channels, LoopDeregisterChannel(c)
       PROVE  TaskWakeup'
    BY <1>i, <1>16 DEF LoopDeregisterChannel, TaskWakeup, WakeupComing, TypeOK, Control, queueVars, InCallback
  <1>17. ASSUME NEW t \in Threads, NEW task \in Tasks, AddTask(t, task)
       PROVE  TaskWakeup'
    BY <1>i, <1>17 DEF AddTask, TaskWakeup, WakeupComing, TypeOK, Control, pollVars
  <1>18. ASSUME NEW t \in Threads, Shutdown(t)
       PROVE  TaskWakeup'
    BY <1>i, <1>18 DEF Shutdown, TaskWakeup, WakeupComing, TypeOK, Control, queueVars, pollVars
  <1>19. ASSUME NEW t \in Threads, Notify(t)
       PROVE  TaskWakeup'
    BY <1>i, <1>19, NotifyPositive DEF Notify, TaskWakeup, WakeupComing
  <1>20. ASSUME NEW c \in Channels, BecomeReady(c)
       PROVE  TaskWakeup'
    BY <1>i, <1>20 DEF BecomeReady, TaskWakeup, WakeupComing, TypeOK, Control, queueVars
  <1>21. CASE UNCHANGED vars
    BY <1>i, <1>21 DEF vars, pollVars, TaskWakeup, WakeupComing, TypeOK, Control
  <1> QED
    BY <1>1, <1>2, <1>3, <1>4, <1>5, <1>6, <1>7, <1>8, <1>9, <1>10, <1>11, <1>12,
       <1>13, <1>14, <1>15, <1>16, <1>17, <1>18, <1>19, <1>20, <1>21
       DEF Next, LoopStep, CallbackStep, ThreadStep

(* So does a shutdown() of another thread after the while condition.       *)
LEMMA StopWakeupStep ==
    IInv /\ [Next]_vars => StopWakeup'
  <1> SUFFICES ASSUME IInv, [Next]_vars PROVE StopWakeup'
    OBVIOUS
  <1> USE EventLoopAssumption
  <1>i. TypeOK /\ Control /\ StopWakeup
    BY DEF IInv
  <1>1. CASE StartRun
    BY <1>i, <1>1 DEF StartRun, StopWakeup, WakeupComing, TypeOK, Control, queueVars, pollVars
  <1>2. CASE SwapPendingTasks
    BY <1>i, <1>2 DEF SwapPendingTasks, StopWakeup, WakeupComing, TypeOK, Control, pollVars
  <1>3. CASE RunTask
    BY <1>i, <1>3 DEF RunTask, StopWakeup, WakeupComing, TypeOK, Control, queueVars, pollVars
  <1>4. CASE FinishTask
    BY <1>i, <1>4 DEF FinishTask, StopWakeup, WakeupComing, TypeOK, Control, queueVars, pollVars
  <1>5. CASE EndPendingTasks
    BY <1>i, <1>5 DEF EndPendingTasks, StopWakeup, WakeupComing, TypeOK, Control, queueVars
  <1>6. CASE PollReady
    BY <1>i, <1>6 DEF PollReady, PollSome, StopWakeup, WakeupComing, TypeOK, Control, queueVars, ReadyChannels
  <1>7. CASE HandleNotify
    BY <1>i, <1>7 DEF HandleNotify, StopWakeup, WakeupComing, TypeOK, Control, queueVars
  <1>8. ASSUME NEW c \in Channels, HandleEvent(c)
       PROVE  StopWakeup'
    BY <1>i, <1>8 DEF HandleEvent, StopWakeup, WakeupComing, TypeOK, Control, queueVars
  <1>9. CASE EndHandleEvent
    BY <1>i, <1>9 DEF EndHandleEvent, StopWakeup, WakeupComing, TypeOK, Control, queueVars
  <1>10. CASE LoopCondition
    BY <1>i, <1>10 DEF LoopCondition, StopWakeup, WakeupComing, TypeOK, Control, queueVars, pollVars
  <1>11. CASE CallbackThrows
    BY <1>i, <1>11 DEF CallbackThrows, StopWakeup, WakeupComing, TypeOK, Control, queueVars, InCallback
  <1>12. CASE PollTimeout
    BY <1>i, <1>12 DEF PollTimeout, StopWakeup, WakeupComing, TypeOK, Control, queueVars, pollVars
  <1>13. ASSUME NEW task \in Tasks, LoopAddTask(task)
       PROVE  StopWakeup'
    <2>1. CASE runningPendingTasks
      BY <1>i, <1>13, <2>1, NotifyPositive DEF LoopAddTask, StopWakeup, WakeupComing
    <2>2. CASE ~ runningPendingTasks
      BY <1>i, <1>13, <2>2 DEF LoopAddTask, StopWakeup, WakeupComing
    <2> QED
      BY <2>1, <2>2
  <1>14. CASE LoopShutdown
    BY <1>i, <1>14 DEF LoopShutdown, StopWakeup, WakeupComing, TypeOK, Control, queueVars, pollVars, InCallback
  <1>15. ASSUME NEW c \in Channels, LoopRegisterChannel(c)
       PROVE  StopWakeup'
    BY <1>i, <1>15 DEF LoopRegisterChannel, StopWakeup, WakeupComing, TypeOK, Control, queueVars, InCallback
  <1>16. ASSUME NEW c \in Channels, LoopDeregisterChannel(c)
       PROVE  StopWakeup'
    BY <1>i, <1>16 DEF LoopDeregisterChannel, StopWakeup, WakeupComing, TypeOK, Control, queueVars, InCallback
  <1>17. ASSUME NEW t \in Threads, NEW task \in Tasks, AddTask(t, task)
       PROVE  StopWakeup'
    BY <1>i, <1>17 DEF AddTask, StopWakeup, WakeupComing, TypeOK, Control, pollVars
  <1>18. ASSUME NEW t \in Threads, Shutdown(t)
       PROVE  StopWakeup'
    BY <1>i, <1>18 DEF Shutdown, StopWakeup, WakeupComing, TypeOK, Control, queueVars, pollVars
  <1>19. ASSUME NEW t \in Threads, Notify(t)
       PROVE  StopWakeup'
    BY <1>i, <1>19, NotifyPositive DEF Notify, StopWakeup, WakeupComing
  <1>20. ASSUME NEW c \in Channels, BecomeReady(c)
       PROVE  StopWakeup'
    BY <1>i, <1>20 DEF BecomeReady, StopWakeup, WakeupComing, TypeOK, Control, queueVars
  <1>21. CASE UNCHANGED vars
    BY <1>i, <1>21 DEF vars, pollVars, StopWakeup, WakeupComing, TypeOK, Control
  <1> QED
    BY <1>1, <1>2, <1>3, <1>4, <1>5, <1>6, <1>7, <1>8, <1>9, <1>10, <1>11, <1>12,
       <1>13, <1>14, <1>15, <1>16, <1>17, <1>18, <1>19, <1>20, <1>21
       DEF Next, LoopStep, CallbackStep, ThreadStep

(* Every accepted task stays accounted for, in order: the swap, the end of *)
(* a task and push_back only move the borders between the three parts.     *)
LEMMA NothingLostStep ==
    IInv /\ [Next]_vars => NothingLost'
  <1> SUFFICES ASSUME IInv, [Next]_vars, loopPc' # "dead"
               PROVE  posted' = executed' \o tmpTasks' \o pendingTasks'
    BY DEF NothingLost
  <1>i. TypeOK /\ Control
    BY DEF IInv
  <1>q. posted \in Seq(Tasks) /\ executed \in Seq(Tasks)
        /\ tmpTasks \in Seq(Tasks) /\ pendingTasks \in Seq(Tasks)
    BY <1>i DEF TypeOK
  <1>c. executed \o tmpTasks \in Seq(Tasks)
    BY <1>q, ConcatProperties
  <1>d. loopPc # "dead"
    BY DEF Next, LoopStep, CallbackStep, ThreadStep, StartRun, SwapPendingTasks, RunTask,
           FinishTask, EndPendingTasks, PollReady, PollSome, HandleNotify, HandleEvent,
           EndHandleEvent, LoopCondition, CallbackThrows, PollTimeout, LoopAddTask,
           LoopShutdown, LoopRegisterChannel, LoopDeregisterChannel, AddTask, Shutdown,
           Notify, BecomeReady, vars, pollVars
  <1>p. posted = executed \o tmpTasks \o pendingTasks
    BY <1>d DEF IInv, NothingLost
  <1>1. CASE UNCHANGED <<posted, executed, tmpTasks, pendingTasks>>
    BY <1>1, <1>p
  <1>2. CASE SwapPendingTasks
    <2>1. tmpTasks = << >>
      BY <1>i, <1>2 DEF SwapPendingTasks, Control
    <2>2. executed \o << >> \o pendingTasks = executed \o pendingTasks \o << >>
      <3>1. executed \o pendingTasks \in Seq(Tasks)
        BY <1>q, ConcatProperties
      <3> QED
        BY <1>q, <3>1, ConcatEmptySeq
    <2> QED
      BY <1>2, <1>p, <2>1, <2>2 DEF SwapPendingTasks
  <1>3. CASE FinishTask
    <2>1. tmpTasks # << >>
      BY <1>i, <1>3 DEF FinishTask, Control
    <2>2. Append(executed, Head(tmpTasks)) \o Tail(tmpTasks) = executed \o tmpTasks
      BY <1>q, <2>1, MoveHead
    <2> QED
      BY <1>3, <1>p, <2>2 DEF FinishTask, queueVars
  <1>4. ASSUME NEW task \in Tasks, push_back(task), UNCHANGED <<executed, tmpTasks>>
        PROVE  posted' = executed' \o tmpTasks' \o pendingTasks'
    <2>1. (executed \o tmpTasks) \o Append(pendingTasks, task)
              = Append((executed \o tmpTasks) \o pendingTasks, task)
      BY <1>q, <1>c, AppendRight
    <2> QED
      BY <1>4, <1>p, <2>1 DEF push_back
  <1> QED
    <2>1. ASSUME NEW task \in Tasks, LoopAddTask(task)
          PROVE  posted' = executed' \o tmpTasks' \o pendingTasks'
      BY <1>4, <2>1 DEF LoopAddTask
    <2>2. ASSUME NEW t \in Threads, NEW task \in Tasks, AddTask(t, task)
          PROVE  posted' = executed' \o tmpTasks' \o pendingTasks'
      BY <1>4, <2>2 DEF AddTask
    <2> QED
      BY <1>1, <1>2, <1>3, <2>1, <2>2
         DEF Next, LoopStep, CallbackStep, ThreadStep, StartRun, RunTask, EndPendingTasks,
             PollReady, PollSome, HandleNotify, HandleEvent, EndHandleEvent, LoopCondition,
             CallbackThrows, PollTimeout, LoopShutdown, LoopRegisterChannel,
             LoopDeregisterChannel, Shutdown, Notify, BecomeReady, vars, pollVars, queueVars

-----------------------------------------------------------------------------
(* The state of the loop always satisfies the inductive invariant.         *)
THEOREM Invariance == Spec => []IInv
  <1>1. Init => IInv
    <2> SUFFICES ASSUME Init PROVE IInv
      OBVIOUS
    <2> USE EventLoopAssumption
    <2>e. << >> \in Seq(Tasks)
      BY EmptySeq
    <2>f. /\ pendingTasks \in Seq(Tasks) /\ tmpTasks \in Seq(Tasks)
          /\ posted \in Seq(Tasks) /\ executed \in Seq(Tasks)
      BY <2>e, Zenon DEF Init
    <2>g. /\ loopPc \in LoopStates
          /\ running \in BOOLEAN /\ runningPendingTasks \in BOOLEAN
          /\ busy \in BOOLEAN /\ selfStop \in BOOLEAN
          /\ channels \subseteq Channels /\ ready \subseteq Channels
          /\ activeChannels \subseteq Channels \cup {Notifier} /\ handling \subseteq Channels
          /\ tpc \in [Threads -> {"idle", "notify"}]
      BY Zenon DEF Init, LoopStates
    <2>h. eventFd \in 0 .. EventFdMax /\ eventsSize \in Nat \ {0}
      BY DEF Init
    <2>1. TypeOK
      BY <2>f, <2>g, <2>h DEF TypeOK
    <2>2. << >> = << >> \o << >> \o << >>
      BY EmptySeq, ConcatEmptySeq
    <2>3. Control /\ TaskWakeup /\ StopWakeup /\ ActiveChannelsAlive
      BY DEF Init, Control, TaskWakeup, StopWakeup, ActiveChannelsAlive
    <2>4. NothingLost
      BY <2>2 DEF Init, NothingLost
    <2> QED
      BY <2>1, <2>3, <2>4 DEF IInv
  <1>2. IInv /\ [Next]_vars => IInv'
    BY TypeStep, ControlStep, ActiveStep, TaskWakeupStep, StopWakeupStep, NothingLostStep
       DEF IInv
  <1> QED
    BY <1>1, <1>2, PTL DEF Spec

(* Type correctness of the event loop's state.                             *)
THEOREM TypeCorrect == Spec => []TypeOK
  <1>1. IInv => TypeOK
    BY DEF IInv
  <1> QED
    BY <1>1, Invariance, PTL

(* addTask()'s rule for notifying is enough: whoever pushes a task, from   *)
(* whichever phase of run(), the loop is not left in epoll_wait over it.   *)
THEOREM TasksWakeTheLoop == Spec => []NoTaskSleeps
  <1>1. IInv => NoTaskSleeps
    BY DEF IInv, TaskWakeup, NoTaskSleeps
  <1> QED
    BY <1>1, Invariance, PTL

(* A shutdown() from another thread wakes the loop too.                    *)
THEOREM ShutdownWakesTheLoop == Spec => []NoStopSleeps
  <1>1. IInv => NoStopSleeps
    BY DEF IInv, StopWakeup, NoStopSleeps
  <1> QED
    BY <1>1, Invariance, PTL

(* run() never calls handleEvent through a pointer to a channel that       *)
(* deregisterChannel has destroyed.                                        *)
THEOREM NoDanglingChannel == Spec => []ActiveChannelsAlive
  <1>1. IInv => ActiveChannelsAlive
    BY DEF IInv
  <1> QED
    BY <1>1, Invariance, PTL

(* No task is lost, duplicated or overtaken while no callback throws.      *)
THEOREM TasksAccountedFor == Spec => []NothingLost
  <1>1. IInv => NothingLost
    BY DEF IInv
  <1> QED
    BY <1>1, Invariance, PTL

-----------------------------------------------------------------------------
(* The event loop implements the FIFO mailbox TaskMailbox.                 *)
THEOREM ImplementsMailbox == Spec => MailboxSpec
  <1>1. Init => Mailbox!Init
    BY EmptySeq, ConcatEmptySeq DEF Init, Mailbox!Init, Stopped
  <1>2. IInv /\ [Next]_vars => [Mailbox!Next]_(Mailbox!vars)
    <2> SUFFICES ASSUME IInv, [Next]_vars PROVE [Mailbox!Next]_(Mailbox!vars)
      OBVIOUS
    <2>i. TypeOK /\ Control
      BY DEF IInv
    <2>q. tmpTasks \in Seq(Tasks) /\ pendingTasks \in Seq(Tasks)
      BY <2>i DEF TypeOK
    <2>1. CASE UNCHANGED <<tmpTasks, pendingTasks, executed, Stopped>>
      BY <2>1 DEF Mailbox!vars
    <2>2. CASE SwapPendingTasks
      <3>1. tmpTasks = << >>
        BY <2>i, <2>2 DEF SwapPendingTasks, Control
      <3>2. << >> \o pendingTasks = pendingTasks \o << >>
        BY <2>q, ConcatEmptySeq
      <3> QED
        BY <2>2, <3>1, <3>2 DEF SwapPendingTasks, Mailbox!vars, Stopped
    <2>3. CASE FinishTask
      <3>1. tmpTasks # << >> /\ loopPc = "tasks"
        BY <2>i, <2>3 DEF FinishTask, Control
      <3>2. /\ tmpTasks \o pendingTasks # << >>
            /\ Head(tmpTasks \o pendingTasks) = Head(tmpTasks)
            /\ Tail(tmpTasks \o pendingTasks) = Tail(tmpTasks) \o pendingTasks
        BY <2>q, <3>1, HeadTailConcat
      <3>3. Mailbox!Deliver
        BY <2>3, <3>1, <3>2 DEF FinishTask, Mailbox!Deliver, Stopped, queueVars
      <3> QED
        BY <3>3 DEF Mailbox!Next
    <2>4. CASE LoopCondition
      BY <2>4 DEF LoopCondition, queueVars, Stopped, Mailbox!Next, Mailbox!Stop, Mailbox!vars
    <2>5. CASE CallbackThrows
      <3>1. ~ Stopped /\ Stopped'
        BY <2>i, <2>5 DEF CallbackThrows, InCallback, Control, Stopped
      <3>2. tmpTasks' = << >> /\ UNCHANGED <<pendingTasks, executed>>
        BY <2>5 DEF CallbackThrows, queueVars
      <3>3. << >> \o pendingTasks = pendingTasks
        BY <2>q, ConcatEmptySeq
      <3>4. CASE tmpTasks = << >>
        BY <3>1, <3>2, <3>4 DEF Mailbox!Next, Mailbox!Stop
      <3>5. CASE tmpTasks # << >>
        <4>1. Len(tmpTasks) \in 1 .. Len(tmpTasks \o pendingTasks)
          BY <2>q, <3>5, EmptySeq, ConcatProperties, LenProperties
        <4>2. pendingTasks = SubSeq(tmpTasks \o pendingTasks, Len(tmpTasks) + 1,
                                    Len(tmpTasks \o pendingTasks))
          BY <2>q, DropFirst
        <4>3. Mailbox!Crash
          BY <3>1, <3>2, <3>3, <4>1, <4>2 DEF Mailbox!Crash
        <4> QED
          BY <4>3 DEF Mailbox!Next
      <3> QED
        BY <3>4, <3>5
    <2>6. ASSUME NEW task \in Tasks, push_back(task),
                 UNCHANGED <<tmpTasks, executed, loopPc>>
          PROVE  Mailbox!Next
      <3>1. Mailbox!Post(task)
        BY <2>6, <2>q, AppendRight DEF push_back, Mailbox!Post, Stopped
      <3> QED
        BY <3>1 DEF Mailbox!Next
    <2>7. ASSUME NEW task \in Tasks, LoopAddTask(task) PROVE Mailbox!Next
      BY <2>6, <2>7 DEF LoopAddTask
    <2>8. ASSUME NEW t \in Threads, NEW task \in Tasks, AddTask(t, task)
          PROVE  Mailbox!Next
      BY <2>6, <2>8 DEF AddTask
    <2> QED
      BY <2>1, <2>2, <2>3, <2>4, <2>5, <2>7, <2>8
         DEF Next, LoopStep, CallbackStep, ThreadStep, StartRun, RunTask, EndPendingTasks,
             PollReady, PollSome, HandleNotify, HandleEvent, EndHandleEvent, PollTimeout,
             LoopShutdown, LoopRegisterChannel, LoopDeregisterChannel, Shutdown, Notify,
             BecomeReady, vars, pollVars, queueVars, Stopped
  <1> QED
    BY <1>1, <1>2, Invariance, PTL DEF Spec, MailboxSpec, Mailbox!Spec
=============================================================================
