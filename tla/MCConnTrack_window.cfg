SPECIFICATION WindowSpec
CONSTANTS
    k1 = k1
    k2 = k2
    k3 = k3
    Keys = {k1, k2, k3}
    UdpKeys = {k2}
    UdpTimeout = 0
    Buckets = {1, 2}
    Bucket <- KeyBucket
    n1 = n1
    n2 = n2
    n3 = n3
    Cells = {n1, n2, n3}
    d1 = d1
    d2 = d2
    Dests = {d1, d2}
    Null = Null
    FinTimeout = 0
    StaleTimeout = 1
    MaxTime = 2
    TickMod = 256
INVARIANTS TablesConsistent NothingLeaked PassIsComplete
SYMMETRY Symmetry
