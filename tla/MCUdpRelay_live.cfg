CONSTANTS
    p4 = p4
    p6 = p6
    d1 = d1
    d2 = d2
    d6 = d6
    hA = hA
    None = None
    Ports = {p4}
    Dests = {d1}
    V6 = {p6, d6}
    Hosts = {hA}
    Handles = {1, 2, 3}
    Decide <- LiveDecide
    NStart = 1
    MaxConfigs = 1
    MaxCalls = 1
SPECIFICATION LiveSpec
PROPERTIES Reconnects StopEnds
