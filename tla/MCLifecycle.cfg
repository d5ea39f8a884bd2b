SPECIFICATION Spec
CONSTANTS
    c1 = c1
    c2 = c2
    Conns = {c1, c2}
    NoConn = NoConn
    MaxStarts = 1
INVARIANTS RegisteredPairsOpen StopReachesEveryPair
SYMMETRY Symmetry
CHECK_DEADLOCK FALSE
