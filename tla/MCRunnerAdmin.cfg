SPECIFICATION FairSpec
CONSTANTS
    job1 = job1
    job2 = job2
    h1 = h1
    h2 = h2
    Jobs = {job1, job2}
    Capacity = 1
    Handlers = {h1, h2}
    MaxIncarnations = 2
    RequireIncarnation = FALSE
    Headerless = {2}
    LegacyRow = TRUE
    MaxWrites = 4
INVARIANTS
    TypeOK
    ActiveJobsMatchLeases
PROPERTIES
    DisabledClearedByEnable
    SupersededLeaseEnds
CHECK_DEADLOCK FALSE
