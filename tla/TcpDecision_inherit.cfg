SPECIFICATION Spec
CONSTANTS
    Fams = {4, 6}
    MaxToggles = 0
INVARIANTS InheritsNoVerdict
