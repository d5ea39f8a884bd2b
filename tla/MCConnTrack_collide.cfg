SPECIFICATION Spec
CONSTANTS
    k1 = k1
    k2 = k2
    k3 = k3
    Keys = {k1, k2}
    UdpKeys = {k2}
    UdpTimeout = 1
    Buckets = {1, 2}
    Bucket <- KeyBucket
    n1 = n1
    n2 = n2
    n3 = n3
    Cells = {n1, n2, n3}
    d1 = d1
    Dests = {d1}
    Null = Null
    FinTimeout = 1
    StaleTimeout = 2
    MaxTime = 3
    TickMod = 256
INVARIANT TablesConsistent
SYMMETRY Symmetry
