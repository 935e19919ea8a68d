SPECIFICATION FairSpec
CONSTANTS
    Clients = {c1, c2}
    Stoppers = {s1, s2}
    Workers = {w1, w2}
    Tasks = {a, b, c}
    NoOne = NoOne
    corePoolSize = 1
    maximumPoolSize = 2
    maxQueueSize = 1
INVARIANTS CountIsExact RunOnceIfAccepted
PROPERTY AcceptedTaskRuns
CHECK_DEADLOCK FALSE
