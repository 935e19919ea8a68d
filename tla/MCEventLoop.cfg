SPECIFICATION BoundedSpec
CONSTANTS
    Threads = {t1, t2}
    Tasks = {a, b, c}
    Submitted = {c}
    Channels = {ch1, ch2, ch3}
    Notifier = notifier
    EventFdMax = 2
    kEpollEventInitialSize = 2
    FewTasks = {a}
    FewThreads = {t1}
    FewChannels = {ch1}
INVARIANTS TypeOK NoTaskSleeps NoStopSleeps ActiveChannelsAlive
PROPERTIES MailboxSpec TaskEventuallyRuns StopEventually EventEventuallyHandled
