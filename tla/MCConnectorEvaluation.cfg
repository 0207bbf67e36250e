SPECIFICATION FairSpec
CONSTANTS
    Check = {c1, c2}
    CacheTTL = 2
    ResponseTimeout = 1
    BackgroundTimeout = 2
    DbTime = 1
    OthersTime = 1
INVARIANTS
    TypeOK
    AllowIsVetted
PROPERTIES
    EveryCheckAnswered
