SPECIFICATION FairSpec
CONSTANTS
    p = p
    q = q
    nightly = nightly
    Replicas = {p, q}
    FirstLeader = p
    Schedules = {nightly}
    Cron <- EveryMinute
    MaxDues = 2
    MaxScan = 2
    ClockSkew = 1
    Horizon = 2
    MaxFailures = 1
    MaxTriggers = 1
    MaxEdits = 1
    MaxDisruptions = 1
INVARIANTS
    TypeOK
    OneRunPerOccurrence
    PassedOccurrencesAccounted
PROPERTIES
    RunsOnlyWhileEligible
    DueOccurrenceSettled
CHECK_DEADLOCK FALSE
