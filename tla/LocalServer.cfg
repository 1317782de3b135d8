SPECIFICATION Spec
CONSTANTS
    Caller = {c1, c2, c3}
    Model = {m1, m2}
    None = None
    Kind = "parakeet"
    Rungs = 1
    MaxSpawns = 2
    MaxCrashes = 1
INVARIANTS
    TypeOK
    OneServer
    ReadyIsTrue
    ServesRequest
PROPERTIES
    CallsSettle
