SPECIFICATION Spec
CONSTANTS
    Handler = {h1, h2}
    Token = {t1}
    Artifact = {}
    Index = {i1}
    NoTarget = NoTarget
    Absent = Absent
    AllowTTL = 1
    TokenBlockTTL = 1
    CheckTimeout = 1
    MaxEntries = 2
    MaxTime = 3
SYMMETRY Symmetry
INVARIANT
    TypeOK
PROPERTIES
    ReadmissionWindow
    AllowIsRecent
