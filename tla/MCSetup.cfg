SPECIFICATION MCSpec
CONSTANTS
    MaxRules = 3
    MaxConfigs = 2
    Bodies <- SomeBodies
    Requests <- AllRequests
    Null = Null
    i1 = i1
    i2 = i2
    i3 = i3
    i4 = i4
    Items = {i1, i2, i3, i4}
    NoItem = NoItem
    Cap = 2
    MaxClears = 2
    DomainLens = {0, 3}
    HostLen = 2
    DstLen = 10
    MaxJumps = 3
    Buckets = 2
    TTL = 2
    MaxTime = 3
    NoName = NoName
INVARIANTS
    FlagsExact MatchIsFirst
    ListBounded
    InBounds StoresExactly LookupExact
    TunnelUntouched VerdictExact
PROPERTIES
     
    Answered
CHECK_DEADLOCK FALSE
