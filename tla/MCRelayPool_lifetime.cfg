SPECIFICATION LifetimeSpec
CONSTANTS
    c1 = c1
    c2 = c2
    w1 = w1
    w2 = w2
    Conns = {c1, c2}
    Workers = {w1, w2}
    BufSize = 8
    PoolKeep = 1
    MaxBytes = 1
    NoDir = NoDir
    Exited = Exited
INVARIANTS NoUseAfterFree DoneIsExact  BuffersConserved
 
SYMMETRY Symmetry
ACTION_CONSTRAINT OneWithFaults
