SPECIFICATION Spec
CONSTANTS
    Caller = {c1, c2, c3}
    Model = {m1, m2}
    None = None
    Kind = "llama"
    Rungs = 2
    MaxSpawns = 3
    MaxCrashes = 0
INVARIANTS
    OneServer
