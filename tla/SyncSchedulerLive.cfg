CONSTANTS
    Windows = {w1, w2}
    NoWindow = none
    MaxWrites = 1
    MaxAsks = 0
    MaxFaults = 1
    Consents = {"backup"}
SPECIFICATION FairSpec
PROPERTIES WritesReachCloud
