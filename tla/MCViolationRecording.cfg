SPECIFICATION FairSpec
CONSTANTS
    Recorder = {c1, c2, c3}
    MaxRows = 3
    MaxSup = 2
INVARIANT
    TypeOK
PROPERTY
    StatusSettles
