SPECIFICATION FairSpec
CONSTANTS
    u1 = u1
    u2 = u2
    k = k
    x = x
    Artifacts = {u1, u2}
    CacheKeys = {k}
    Payloads = {x}
    Nobody = Nobody
    Collector = Collector
    PoolSize = 3
    MaxAttempts = 1
    MaxPrunes = 1
    MaxAborts = 1
INVARIANTS
    NoDanglingReference
PROPERTIES
    UploadsFinish
    OrphansReclaimed
CHECK_DEADLOCK FALSE
