SPECIFICATION LibrarySpec
CONSTANTS
    Ids = {t1, t2}
    End = End
    Delays = {0, 2}
    Intervals = {1}
    Millis = 2
    kDefaultPollTimeout = 2
    MaxTime = 4
    Buffers = {b1, b2}
    Capacities = {4}
    kMaxCapacity = 4
    DataLengths = {1, 3}
    IntSizes = {2}
    MaxProduced = 4
    QueueThreads = {1, 2, 3}
    Programs <- QueuePrograms
    maxQueueSize = 2
    MaxElements = 3
    StackBuffers = {s1, s2}
    SIZE = 7
    kMaximumNumberLimit = 3
    TextLengths = {0, 2}
    Numbers <- LogNumbers
    Pointers = {10}
    Handlers = {"h1", "h2", "h3", "h4"}
    nullptr = "nullptr"
    handlerName <- Names
    HandlerNames = {"", "a", "b", "c"}
    DatagramOptions = {{}, {"BROADCAST"}, {"BACKLOG"}, {"wrongType"}}
    PacketLengths = {0, 2, 4}
    kRecvPacketSize = 3
    MaxDatagrams = 3
INVARIANTS TimersInPlace NoOversleep QueueKeepsElements QueueSignalled TextIsWhole
PROPERTIES CancelledNeverFires DueTimerFires FifoSpec ListSpec DatagramsDelivered
CHECK_DEADLOCK FALSE
