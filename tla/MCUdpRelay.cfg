CONSTANTS
    p4 = p4
    p6 = p6
    d1 = d1
    d2 = d2
    d6 = d6
    hA = hA
    None = None
    Ports = {p4, p6}
    Dests = {d1, d2, d6}
    V6 = {p6, d6}
    Hosts = {hA}
    Handles = {1, 2, 3, 4}
    Decide <- MCDecide
    NStart = 2
    MaxConfigs = 2
    MaxCalls = 1
SPECIFICATION PartSpec
INVARIANTS NeverStalls   ReplySourceExact
