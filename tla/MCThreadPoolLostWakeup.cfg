SPECIFICATION FairSpec
CONSTANTS
    Clients = {c1, c2}
    Stoppers = {s1}
    Workers = {w1, w2}
    Tasks = {a, b}
    NoOne = NoOne
    corePoolSize = 1
    maximumPoolSize = 2
    maxQueueSize = 1
PROPERTY ShutdownTerminates
CHECK_DEADLOCK FALSE
