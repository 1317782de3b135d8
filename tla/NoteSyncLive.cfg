CONSTANTS
    n1 = n1
    n2 = n2
    s1 = s1
    Note = {n1, n2}
    NoNote = NoNote
    Id = {1}
    Slot = {}
    Pass = pass
    Prompt = {}
    Foreign = {}
    ForkThreshold = 1
    MaxActs = 4
    MaxFaults = 1
SPECIFICATION FairSpec
CHECK_DEADLOCK FALSE
PROPERTIES
    UnpushedTextResolves
