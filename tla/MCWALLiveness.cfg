SPECIFICATION FairSpec
CONSTANTS
    Usage = {u1, u2}
    Metadata = {}
    Unknown = {}
    Fragment = Fragment
    FlushMaxEvents = 2
    AdvisoryQueueSize = 1
    MaxCrashes = 2
    TornWrites = TRUE
    CrashOnStaleCheckpoint = FALSE
PROPERTIES
    EventuallyStored
    ImplementsOutboundLog
