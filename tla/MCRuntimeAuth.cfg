SPECIFICATION FairSpec
CONSTANTS
    Inactive = {"disabled"}
    Request = {Probe, r1}
    Loop = Loop
    Probe = Probe
    TTL = 4
    RefreshAge = 1
    Timeout = 1
    MinWait = 1
    MaxBackoff = 1
    Grace = 1
    MaxExchanges = 1
INVARIANTS
    TypeOK
    RevocationTakesEffect
    HealthzTruthful
PROPERTIES
    LateAnswerCostsOneExchange
    HealthzRecovers
