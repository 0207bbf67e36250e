SPECIFICATION FairSpec
CONSTANTS
    Handler = {h1}
    Token = {t1}
    Artifact = {a1}
    Index = {i1}
    NoTarget = NoTarget
    Absent = Absent
    AllowTTL = 1
    TokenBlockTTL = 1
    CheckTimeout = 0
    MaxEntries = 2
    MaxTime = 1
INVARIANTS
    EvictionOrder
    AuditTrail
PROPERTY
    EveryRequestAnswered
