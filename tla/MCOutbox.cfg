SPECIFICATION FairSpec
CONSTANTS
    p = p
    q = q
    check = check
    c1 = c1
    c2 = c2
    Replicas = {p, q}
    FirstLeader = p
    NoReplica = NoReplica
    Checks = {check}
    MaxVersion = 2
    Contents = {c1, c2}
    Payloads <- LastRefreshed
    NoContent = NoContent
    MaxAttempts = 2
    Budget = 2
    MaxDisruptions = 1
INVARIANTS
    TypeOK
    OneCheckRun
    AcceptedStateKept
PROPERTIES
    RemoteNeverRegresses
    PendingStateResolves
CHECK_DEADLOCK FALSE
