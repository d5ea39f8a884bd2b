SPECIFICATION MCSpec
CONSTANTS
    d1 = d1
    d2 = d2
    Dests = {d1, d2}
    Slot <- SharedSlot
    Layers = {"SOCKET", "FLOW"}
    MaxEdits = 2
    MaxEndpoints = 2
    Fams = {4, 6}
    MaxToggles = 1
INVARIANTS
    PolicyFresh DestinationExact ReusedPortForgotten
    TrackedNeverDirect ReuseStartsAfresh
