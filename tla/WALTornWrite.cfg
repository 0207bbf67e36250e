SPECIFICATION Spec
CONSTANTS
    Usage = {u1, u2}
    Metadata = {m1}
    Unknown = {x1}
    Fragment = Fragment
    FlushMaxEvents = 2
    AdvisoryQueueSize = 1
    MaxCrashes = 1
    TornWrites = TRUE
    CrashOnStaleCheckpoint = FALSE
INVARIANT
    AtLeastOnce
