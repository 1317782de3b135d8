SPECIFICATION FairSpec
CONSTANTS
    MaxActs = 3
    MaxOthers = 1
    MaxFaults = 1
INVARIANTS
    TimersMatch
    PressedMeansHeld
    StatusAgrees
    MicAccounted
PROPERTIES
    GestureEnds
    StopIsHonoured
CHECK_DEADLOCK FALSE
