----------------------------- MODULE EventLoop -----------------------------
(***************************************************************************)
(* nets::EventLoop: one thread that alternates between timers, the tasks   *)
(* other threads handed over, and the channels epoll reports.              *)
(*                                                                         *)
(* The loop thread is the control variable loopPc, which follows run():    *)
(*   constructed -> timers -> tasks -> poll -> dispatch -> timers ...      *)
(* Any other thread is in tpc: it calls addTask/execute/submit or          *)
(* shutdown, and between the shared write (push_back, running_ = false)    *)
(* and NotifyChannel::notify it can be preempted ("notify").               *)
(*                                                                         *)
(* Code that the loop calls back (task bodies, timer callbacks, channel    *)
(* handlers) may itself call addTask, shutdown and (de)registerChannel;    *)
(* the Loop* actions are those calls, made on the loop thread.             *)
(***************************************************************************)
EXTENDS Naturals, Sequences, FiniteSets

CONSTANTS Threads,      \* threads other than the loop's own
          Tasks,        \* task objects; each one is handed over at most once
          Submitted,    \* those made by submit(): exceptions go to the promise
          Channels,     \* channels other than the notifier
          Notifier,     \* the NotifyChannel
          EventFdMax,   \* largest value of the eventfd counter
          kEpollEventInitialSize  \* of events_, the buffer for epoll_wait

ASSUME EventLoopAssumption ==
    /\ Submitted \subseteq Tasks
    /\ Notifier \notin Channels
    /\ EventFdMax \in Nat \ {0}
    /\ kEpollEventInitialSize \in Nat \ {0, 1}

VARIABLES loopPc, running, runningPendingTasks, pendingTasks, tmpTasks,
          busy,            \* a task of tmpTasks is being run (its Head)
          eventFd,         \* counter of the notifier's eventfd
          channels,        \* channels_, without the notifier
          ready,           \* channels the kernel would report
          eventsSize,      \* events_.size() of the poller
          activeChannels,  \* what is still to be handled of activeChannels_
          handling,        \* the channel whose handleEvent is running
          tpc,             \* the other threads
          posted,          \* history: tasks in the order of push_back
          executed,        \* history: tasks in the order they finished
          selfStop         \* history: shutdown() was called on the loop thread

queueVars == <<pendingTasks, posted>>
pollVars  == <<channels, ready, eventsSize, activeChannels, handling>>
vars == <<loopPc, running, runningPendingTasks, pendingTasks, tmpTasks, busy,
          eventFd, pollVars, tpc, posted, executed, selfStop>>

LoopStates == {"constructed", "timers", "tasks", "poll", "dispatch", "exited", "dead"}

(* run() has been left, by its while condition or by an exception.         *)
Stopped == loopPc \in {"exited", "dead"}

(* Code supplied by the user is on the loop thread's stack.                *)
InCallback == loopPc = "timers" \/ busy \/ handling # {}

Posted(task) == \E i \in 1 .. Len(posted) : posted[i] = task

(***************************************************************************)
(* NotifyChannel::notify and handleReadEvent.  The write fails (and is     *)
(* only logged) when the counter is at its maximum; the read returns the   *)
(* counter and resets it.                                                  *)
(***************************************************************************)
notify == eventFd' = IF eventFd < EventFdMax THEN eventFd + 1 ELSE eventFd

(* The queue operation of addTask, under mutex_.                           *)
push_back(task) == /\ ~ Posted(task)
                   /\ pendingTasks' = Append(pendingTasks, task)
                   /\ posted' = Append(posted, task)

Init == /\ loopPc = "constructed"
        /\ running = FALSE
        /\ runningPendingTasks = FALSE
        /\ pendingTasks = << >>
        /\ tmpTasks = << >>
        /\ busy = FALSE
        /\ eventFd = 0
        /\ channels = {}
        /\ ready = {}
        /\ eventsSize = kEpollEventInitialSize
        /\ activeChannels = {}
        /\ handling = {}
        /\ tpc = [t \in Threads |-> "idle"]
        /\ posted = << >>
        /\ executed = << >>
        /\ selfStop = FALSE

-----------------------------------------------------------------------------
(* run(), one action per step that another thread can tell apart.          *)

StartRun == /\ loopPc = "constructed"
            /\ running' = TRUE
            /\ loopPc' = "timers"
            /\ UNCHANGED <<runningPendingTasks, queueVars, tmpTasks, busy, eventFd,
                           pollVars, tpc, executed, selfStop>>

(* timerManager_.update() has returned; runPendingTasks() sets its flag    *)
(* and swaps the whole queue out under the mutex.                          *)
SwapPendingTasks ==
    /\ loopPc = "timers"
    /\ loopPc' = "tasks"
    /\ runningPendingTasks' = TRUE
    /\ tmpTasks' = pendingTasks
    /\ pendingTasks' = << >>
    /\ UNCHANGED <<running, posted, busy, eventFd, pollVars, tpc, executed, selfStop>>

RunTask == /\ loopPc = "tasks"
           /\ tmpTasks # << >>
           /\ ~ busy
           /\ busy' = TRUE
           /\ UNCHANGED <<loopPc, running, runningPendingTasks, queueVars, tmpTasks,
                          eventFd, pollVars, tpc, executed, selfStop>>

FinishTaskLastFirst ==
    /\ busy
    /\ busy' = FALSE
    /\ executed' = Append(executed, tmpTasks[Len(tmpTasks)])
    /\ tmpTasks' = SubSeq(tmpTasks, 1, Len(tmpTasks) - 1)
    /\ UNCHANGED <<loopPc, running, runningPendingTasks, queueVars, eventFd, pollVars,
                   tpc, selfStop>>

FinishTask == /\ busy
              /\ busy' = FALSE
              /\ executed' = Append(executed, Head(tmpTasks))
              /\ tmpTasks' = Tail(tmpTasks)
              /\ UNCHANGED <<loopPc, running, runningPendingTasks, queueVars, eventFd,
                             pollVars, tpc, selfStop>>

(* An exception thrown by a callback leaves run(), unless the callback is  *)
(* a task that submit() wrapped.  Neither running_ nor the flag of         *)
(* runPendingTasks() is reset, and the rest of the local tmpTasks goes.    *)
CallbackThrows == /\ InCallback
                  /\ busy => Head(tmpTasks) \notin Submitted
                  /\ loopPc' = "dead"
                  /\ busy' = FALSE
                  /\ handling' = {}
                  /\ tmpTasks' = << >>
                  /\ UNCHANGED <<running, runningPendingTasks, queueVars, eventFd, channels,
                                 ready, activeChannels, tpc, executed,
                                 selfStop, eventsSize>>

(* The batch is finished: reset the flag, clear activeChannels_, poll.     *)
EndPendingTasks == /\ loopPc = "tasks"
                   /\ tmpTasks = << >>
                   /\ runningPendingTasks' = FALSE
                   /\ activeChannels' = {}
                   /\ loopPc' = "poll"
                   /\ UNCHANGED <<running, queueVars, tmpTasks, busy, eventFd, channels,
                                  ready, handling, tpc, executed, selfStop, eventsSize>>

ReadyChannels == (ready \cap channels) \cup (IF eventFd > 0 THEN {Notifier} ELSE {})

(* epoll_wait returns because something is ready.  It tells as many        *)
(* channels as events_ has room for, whichever those are; when events_ is  *)
(* full, it is made larger by half for the next time (the limit of         *)
(* INT32_MAX entries is out of reach and left out).                        *)
Reports == {some \in SUBSET ReadyChannels :
                Cardinality(some) = IF Cardinality(ReadyChannels) < eventsSize
                                    THEN Cardinality(ReadyChannels) ELSE eventsSize}

PollSome(newSize) ==
    /\ loopPc = "poll"
    /\ ReadyChannels # {}
    /\ activeChannels' \in Reports
    /\ eventsSize' = IF Cardinality(activeChannels') >= eventsSize
                     THEN newSize ELSE eventsSize
    /\ loopPc' = "dispatch"
    /\ UNCHANGED <<running, runningPendingTasks, queueVars, tmpTasks, busy, eventFd,
                   channels, ready, handling, tpc, executed, selfStop>>

(* Two plausible mistakes: events_ stays as it is, or is set to the half   *)
(* that was to be added.                                                   *)
PollReadyFixedSize == PollSome(eventsSize)
PollReadyHalvesSize == PollSome(eventsSize \div 2)

PollReady == PollSome(eventsSize + eventsSize \div 2)

(* ... or because the timeout (1 .. 3000 ms) passed or a signal came.      *)
PollTimeoutInfinite == /\ loopPc = "poll"
                       /\ ReadyChannels # {}
                       /\ loopPc' = "dispatch"
                       /\ UNCHANGED <<running, runningPendingTasks, queueVars, tmpTasks,
                                      busy, eventFd, pollVars, tpc, executed, selfStop>>

PollTimeout == /\ loopPc = "poll"
               /\ loopPc' = "dispatch"
               /\ UNCHANGED <<running, runningPendingTasks, queueVars, tmpTasks, busy,
                              eventFd, pollVars, tpc, executed, selfStop>>

HandleNotify == /\ loopPc = "dispatch"
                /\ handling = {}
                /\ Notifier \in activeChannels
                /\ activeChannels' = activeChannels \ {Notifier}
                /\ eventFd' = 0
                /\ UNCHANGED <<loopPc, running, runningPendingTasks, queueVars, tmpTasks,
                               busy, channels, ready, handling, tpc, executed,
                               selfStop, eventsSize>>

HandleEvent(c) == /\ loopPc = "dispatch"
                  /\ handling = {}
                  /\ c \in activeChannels
                  /\ handling' = {c}
                  /\ activeChannels' = activeChannels \ {c}
                  /\ UNCHANGED <<loopPc, running, runningPendingTasks, queueVars, tmpTasks,
                                 busy, eventFd, channels, ready, tpc, executed,
                                 selfStop, eventsSize>>

(* A handler returns; it may have left the channel ready (level trigger).  *)
EndHandleEvent == /\ handling # {}
                  /\ handling' = {}
                  /\ ready' \in {ready, ready \ handling}
                  /\ UNCHANGED <<loopPc, running, runningPendingTasks, queueVars, tmpTasks,
                                 busy, eventFd, channels, activeChannels, tpc, executed,
                                 selfStop, eventsSize>>

(* while (running_)                                                        *)
LoopCondition == /\ loopPc = "dispatch"
                 /\ handling = {}
                 /\ activeChannels = {}
                 /\ loopPc' = IF running THEN "timers" ELSE "exited"
                 /\ UNCHANGED <<running, runningPendingTasks, queueVars, tmpTasks, busy,
                                eventFd, pollVars, tpc, executed, selfStop>>

-----------------------------------------------------------------------------
(* Calls that callbacks make on the loop thread.                           *)

(* addTask(): the loop wakes itself only while it runs pending tasks.      *)
LoopAddTaskSilent(task) ==
    /\ InCallback
    /\ push_back(task)
    /\ UNCHANGED <<loopPc, running, runningPendingTasks, tmpTasks, busy, eventFd,
                   pollVars, tpc, executed, selfStop>>

LoopAddTask(task) ==
    /\ InCallback
    /\ push_back(task)
    /\ IF runningPendingTasks THEN notify ELSE UNCHANGED eventFd
    /\ UNCHANGED <<loopPc, running, runningPendingTasks, tmpTasks, busy, pollVars, tpc,
                   executed, selfStop>>

(* shutdown() on the loop thread does not notify.                          *)
LoopShutdown ==
    /\ InCallback
    /\ running' = FALSE
    /\ selfStop' = TRUE
    /\ UNCHANGED <<loopPc, runningPendingTasks, queueVars, tmpTasks, busy, eventFd,
                   pollVars, tpc, executed>>

LoopRegisterChannel(c) ==
    /\ InCallback
    /\ c \notin channels
    /\ channels' = channels \cup {c}
    /\ UNCHANGED <<loopPc, running, runningPendingTasks, queueVars, tmpTasks, busy,
                   eventFd, ready, activeChannels, handling, tpc, executed,
                   selfStop, eventsSize>>

(* deregisterChannel() destroys the channel (channels_ owns it).  During   *)
(* dispatch the channel classes call it only on the channel whose handler  *)
(* is running; otherwise they leave it to a task ("wait next loop          *)
(* deregister").                                                           *)
LoopDeregisterAnyChannel(c) ==
    /\ InCallback
    /\ c \in channels
    /\ channels' = channels \ {c}
    /\ ready' = ready \ {c}
    /\ UNCHANGED <<loopPc, running, runningPendingTasks, queueVars, tmpTasks, busy,
                   eventFd, activeChannels, handling, tpc, executed,
                   selfStop, eventsSize>>

LoopDeregisterChannel(c) ==
    /\ InCallback
    /\ loopPc = "dispatch" => c \in handling
    /\ c \in channels
    /\ channels' = channels \ {c}
    /\ ready' = ready \ {c}
    /\ UNCHANGED <<loopPc, running, runningPendingTasks, queueVars, tmpTasks, busy,
                   eventFd, activeChannels, handling, tpc, executed,
                   selfStop, eventsSize>>

-----------------------------------------------------------------------------
(* Calls of other threads.                                                 *)

(* addTask(), and execute() and submit(), which call it off the loop.      *)
AddTaskSilent(t, task) ==
    /\ tpc[t] = "idle"
    /\ push_back(task)
    /\ UNCHANGED <<loopPc, running, runningPendingTasks, tmpTasks, busy, eventFd,
                   pollVars, tpc, executed, selfStop>>

AddTask(t, task) ==
    /\ tpc[t] = "idle"
    /\ push_back(task)
    /\ tpc' = [tpc EXCEPT ![t] = "notify"]
    /\ UNCHANGED <<loopPc, running, runningPendingTasks, tmpTasks, busy, eventFd,
                   pollVars, executed, selfStop>>

ShutdownSilent(t) ==
    /\ tpc[t] = "idle"
    /\ running' = FALSE
    /\ UNCHANGED <<loopPc, runningPendingTasks, queueVars, tmpTasks, busy, eventFd,
                   pollVars, tpc, executed, selfStop>>

Shutdown(t) ==
    /\ tpc[t] = "idle"
    /\ running' = FALSE
    /\ tpc' = [tpc EXCEPT ![t] = "notify"]
    /\ UNCHANGED <<loopPc, runningPendingTasks, queueVars, tmpTasks, busy, eventFd,
                   pollVars, executed, selfStop>>

Notify(t) ==
    /\ tpc[t] = "notify"
    /\ notify
    /\ tpc' = [tpc EXCEPT ![t] = "idle"]
    /\ UNCHANGED <<loopPc, running, runningPendingTasks, queueVars, tmpTasks, busy,
                   pollVars, executed, selfStop>>

(* The kernel finds a registered channel ready.                            *)
BecomeReady(c) ==
    /\ c \in channels
    /\ c \notin ready
    /\ ready' = ready \cup {c}
    /\ UNCHANGED <<loopPc, running, runningPendingTasks, queueVars, tmpTasks, busy,
                   eventFd, channels, activeChannels, handling, tpc, executed,
                   selfStop, eventsSize>>

-----------------------------------------------------------------------------
LoopStep == \/ StartRun
            \/ SwapPendingTasks
            \/ RunTask
            \/ FinishTask
            \/ EndPendingTasks
            \/ PollReady
            \/ HandleNotify
            \/ \E c \in Channels : HandleEvent(c)
            \/ EndHandleEvent
            \/ LoopCondition

CallbackStep == \/ \E task \in Tasks : LoopAddTask(task)
                \/ LoopShutdown
                \/ \E c \in Channels : LoopRegisterChannel(c) \/ LoopDeregisterChannel(c)

ThreadStep(t) == \/ \E task \in Tasks : AddTask(t, task)
                 \/ Shutdown(t)
                 \/ Notify(t)

Next == \/ LoopStep
        \/ CallbackThrows
        \/ PollTimeout
        \/ CallbackStep
        \/ \E t \in Threads : ThreadStep(t)
        \/ \E c \in Channels : BecomeReady(c)

Spec == Init /\ [][Next]_vars

(***************************************************************************)
(* Fairness.  The loop thread keeps running and callbacks return           *)
(* (LoopStep); a thread that has written the shared state reaches its      *)
(* notify().  Nothing is assumed of PollTimeout here: what is live under   *)
(* this specification is live because of the notifier.                     *)
(***************************************************************************)
FairSpec == Spec /\ WF_vars(LoopStep) /\ \A t \in Threads : WF_vars(Notify(t))

-----------------------------------------------------------------------------
TypeOK == /\ loopPc \in LoopStates
          /\ running \in BOOLEAN
          /\ runningPendingTasks \in BOOLEAN
          /\ pendingTasks \in Seq(Tasks)
          /\ tmpTasks \in Seq(Tasks)
          /\ busy \in BOOLEAN
          /\ eventFd \in 0 .. EventFdMax
          /\ channels \subseteq Channels
          /\ ready \subseteq Channels
          /\ eventsSize \in Nat \ {0}
          /\ activeChannels \subseteq Channels \cup {Notifier}
          /\ handling \subseteq Channels
          /\ tpc \in [Threads -> {"idle", "notify"}]
          /\ posted \in Seq(Tasks)
          /\ executed \in Seq(Tasks)
          /\ selfStop \in BOOLEAN

(* A wake-up is on its way: counted by the eventfd, or a thread is about   *)
(* to write it.                                                            *)
WakeupComing == eventFd > 0 \/ \E t \in Threads : tpc[t] = "notify"

(* The loop never sits in epoll_wait over a task that nobody will wake it  *)
(* for: the rule of addTask (notify off the loop, or while pending tasks   *)
(* run) covers every place a task can be pushed from.                      *)
NoTaskSleeps == loopPc = "poll" /\ pendingTasks # << >> => WakeupComing

(* The same for a shutdown() from another thread.  One made by a task or a *)
(* timer callback is not covered: it waits for the poll timeout.           *)
NoStopSleeps == loopPc = "poll" /\ ~ running /\ ~ selfStop => WakeupComing

(* poll() hands out raw Channel pointers; none of those still to be        *)
(* handled belongs to a channel that deregisterChannel destroyed.          *)
ActiveChannelsAlive == activeChannels \ {Notifier} \subseteq channels

(* Every task addTask() accepted is finished, in the batch runPendingTasks *)
(* is working on, or pending, in the order of push_back: none is lost,     *)
(* run twice or overtaken.  Only an exception makes tasks disappear.       *)
NothingLost == loopPc # "dead" => posted = executed \o tmpTasks \o pendingTasks

(***************************************************************************)
(* The inductive invariant behind NoTaskSleeps, NoStopSleeps,              *)
(* ActiveChannelsAlive and NothingLost.  Control tells where a batch, a    *)
(* handler and the flag can exist; TaskWakeup and StopWakeup extend the    *)
(* two sleeping properties back to the points of run() from which the next *)
(* poll can no longer be avoided.                                          *)
(***************************************************************************)
Control == /\ loopPc = "tasks" => runningPendingTasks
           /\ runningPendingTasks => loopPc \in {"tasks", "dead"}
           /\ busy => tmpTasks # << >>
           /\ tmpTasks # << >> => loopPc = "tasks"
           /\ handling # {} => loopPc = "dispatch"
           /\ activeChannels # {} => loopPc \in {"dispatch", "dead"}
           /\ handling \cap activeChannels = {}

TaskWakeup == loopPc \in {"tasks", "poll"} /\ pendingTasks # << >> => WakeupComing

StopWakeup == loopPc \in {"timers", "tasks", "poll"} /\ ~ running /\ ~ selfStop
                  => WakeupComing

IInv == /\ TypeOK
        /\ Control
        /\ TaskWakeup
        /\ StopWakeup
        /\ ActiveChannelsAlive
        /\ NothingLost

(* A task handed to a loop that is running is run, unless the loop stops   *)
(* first; the notifier alone sees to that.                                 *)
TaskEventuallyRuns ==
    \A task \in Tasks :
        Posted(task) ~> (Stopped \/ \E i \in 1 .. Len(executed) : executed[i] = task)

(* run() never passes epoll_wait more than kDefaultPollTimeout, so a poll  *)
(* returns by itself; given that, any shutdown() after run() has started   *)
(* ends run(), also one made by a callback, which does not notify.         *)
StopEventually ==
    WF_vars(PollTimeout) => ((loopPc # "constructed" /\ ~ running) ~> Stopped)

(* The kernel does not let epoll_wait time out over a channel that is      *)
(* ready; given that, a channel that has something to report is handled,   *)
(* unless it goes or the loop stops: neither tasks that post further ones, *)
(* nor other channels that are ready all the time keep it out, although    *)
(* events_ may be too small for all of them at first.                      *)
EventEventuallyHandled ==
    SF_vars(PollReady) =>
        \A c \in Channels :
            c \in ready ~> (c \in handling \/ c \notin channels \/ Stopped)

(* The mailbox that EventLoop implements.                                  *)
Mailbox == INSTANCE TaskMailbox WITH queue <- tmpTasks \o pendingTasks,
                                     done <- executed,
                                     open <- ~ Stopped
MailboxSpec == Mailbox!Spec
=============================================================================
