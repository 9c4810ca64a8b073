SPECIFICATION FairSpec
CONSTANTS
    c1 = c1
    c2 = c2
    c3 = c3
    k1 = k1
    k2 = k2
    None = None
    Conns = {c1}
    Closers = {k1, k2}
    MaxConns = 1
    Configurations = {{}, {"read"}, {"write"}, {"read", "write"}}
    MaxInbox = 1
CHECK_DEADLOCK FALSE
PROPERTIES
    CloseReturns
    GoneIsForgotten
    SlowIsDropped
