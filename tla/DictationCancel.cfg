SPECIFICATION Spec
CONSTANTS
    MaxActs = 2
    MaxOthers = 1
    MaxFaults = 0
INVARIANTS
    CancelledIsOver
CHECK_DEADLOCK FALSE
