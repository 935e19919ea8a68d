SPECIFICATION Spec
CONSTANTS
    Main = main
    l1 = l1
    l2 = l2
    c1 = c1
    c2 = c2
    Children = {l1, l2}
    Connections = {c1, c2}
    Fds = {3, 4, 5, 6}
    Setups <- ClientsAndLoops
INVARIANT ChannelsExclusive
CHECK_DEADLOCK FALSE
