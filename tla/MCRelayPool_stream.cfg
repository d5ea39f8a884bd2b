SPECIFICATION StreamSpec
CONSTANTS
    c1 = c1
    w1 = w1
    w2 = w2
    Conns = {c1}
    Workers = {w1, w2}
    BufSize = 8
    PoolKeep = 1
    MaxBytes = 2
    NoDir = NoDir
    Exited = Exited
INVARIANTS IdleHoldsNoBuffer Prefix EofAfterAllData
PROPERTIES EofKeepsReverse StopTerminates AllDelivered
