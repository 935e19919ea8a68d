SPECIFICATION Spec
CONSTANTS
    Clients = {c1, c2}
    Stoppers = {s1}
    Workers = {w1, w2}
    Tasks = {a, b, c}
    NoOne = NoOne
    corePoolSize = 1
    maximumPoolSize = 2
    maxQueueSize = 1
SYMMETRY Symmetry
INVARIANT QueueEmptyAfterDrain
CHECK_DEADLOCK FALSE
