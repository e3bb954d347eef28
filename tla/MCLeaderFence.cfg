SPECIFICATION FairSpec
CONSTANTS
    p = p
    q = q
    t1 = t1
    t2 = t2
    Replicas = {p, q}
    NoReplica = NoReplica
    Txns = {t1, t2}
    MaxSessions = 2
INVARIANTS
    TypeOK
    FencedTransactionsExclusive
    LockHolderIsCurrent
PROPERTIES
    ReignsDoNotInterleave
    CurrentEpochNotClobbered
    DeadSessionDropped
    LockNotOrphaned
