SPECIFICATION Spec
CONSTANTS
    Handler = {h1, h2}
    Token = {t1}
    Artifact = {a1}
    Index = {}
    NoTarget = NoTarget
    Absent = Absent
    AllowTTL = 1
    TokenBlockTTL = 2
    CheckTimeout = 1
    MaxEntries = 2
    MaxTime = 1
SYMMETRY Symmetry
INVARIANT
    UpstreamErrorsAreRecorded
