CONSTANTS
    Session = {s1, s2, s3}
    None = None
    MaxCrashes = 1
SPECIFICATION Spec
INVARIANTS
    NoOrphanCapture
    MicAccounted
    RecordingIsLive
    DetectionGated
    StartIsAccepted
PROPERTIES
    SingleCapture
    Released
CHECK_DEADLOCK FALSE
