SPECIFICATION FairSpec
CONSTANTS
    plain = plain
    upper = upper
    lower = lower
    Window = {w1, w2}
    Word = {plain, upper, lower}
    Key <- KeyMap
    Id = {1, 2, 3}
    Ident = {n1, n2}
    NoIdent = NoIdent
    MaxEvents = 4
INVARIANTS
    TypeOK
    OneRowPerWord
    TombstonesQueued
    NoOrphan
PROPERTIES PendingResolves CONSTRAINT Bounded
