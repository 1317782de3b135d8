CONSTANTS
    n1 = n1
    n2 = n2
    s1 = s1
    Note = {n1, n2}
    NoNote = NoNote
    Id = {1, 2}
    Slot = {s1}
    Pass = pass
    Prompt = {n1}
    Foreign = {n1, n2}
    ForkThreshold = 1
    MaxActs = 2
    MaxFaults = 1
SPECIFICATION Spec
CHECK_DEADLOCK FALSE
INVARIANTS
    TypeOK
    LinkedRowsHaveCopies
PROPERTIES
    TombstonesStay
