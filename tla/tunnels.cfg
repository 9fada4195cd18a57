SPECIFICATION TunnelFairSpec
CONSTANTS
    a1 = a1
    Conn = {c1, c2}
    Grant = {g1, g2}
    TunnelUser = {u1, u2}
    Addr = {a1}
    Home <- MCHome
    MaxStreams = 1
CHECK_DEADLOCK FALSE
INVARIANTS
    ChildrenBounded
    
    
PROPERTIES
    ImplementsSlotPool
    EveryStreamEnds
