CONSTANTS
    n1 = n1
    n2 = n2
    s1 = s1
    Note = {n1, n2}
    NoNote = NoNote
    Id = {1}
    Slot = {s1}
    Pass = pass
    Prompt = {n1, n2}
    Foreign = {n1, n2}
    ForkThreshold = 1
    MaxActs = 3
    MaxFaults = 0
SPECIFICATION Spec
SYMMETRY NoteSymmetry
CHECK_DEADLOCK FALSE
INVARIANTS
    SettledTextWasDelivered
PROPERTIES
    NoUnseenOverwrite
    UnpushedTextSurvives
    AnswersAdvanceBase
