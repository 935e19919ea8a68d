SPECIFICATION FairSpec
CONSTANTS
    Connectors = {c1, c2, c3}
    Fds = {f1, f2}
    kInvalidFd = kInvalidFd
    NoChannel = NoChannel
    SocketChannel = SocketChannel
INVARIANTS OneOwner ChannelsMatchEpoll HandedOverEstablished OneAttempt
PROPERTIES AttemptEnds
CHECK_DEADLOCK FALSE
