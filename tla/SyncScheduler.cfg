CONSTANTS
    w1 = w1
    w2 = w2
    Windows <- TwoWindows
    NoWindow = none
    MaxWrites = 1
    MaxAsks = 1
    MaxFaults = 1
    Consents = {"backup", "shared", "none"}
SPECIFICATION Spec
CHECK_DEADLOCK FALSE
SYMMETRY Symmetric
INVARIANTS OnePass PassCovers
PROPERTIES DrainedOnLeave
