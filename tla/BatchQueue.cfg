SPECIFICATION Spec
CONSTANTS
    File = {f1}
    Url = {u1}
    None = None
    Provider = {"cloud", "local", "byok"}
    Speakers = {FALSE, TRUE}
    MaxRuns = 2
    MaxRetries = 1
INVARIANTS
    DrainIsCurrent
    CancelReaches
PROPERTIES
    CancelHolds
    TempsGo
CHECK_DEADLOCK FALSE
