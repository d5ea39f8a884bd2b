SPECIFICATION FairSpec
CONSTANTS
    c1 = c1
    Conns = {c1}
    NoConn = NoConn
    MaxStarts = 2
INVARIANT ThreadsJoined
PROPERTY StopReturns
CHECK_DEADLOCK FALSE
