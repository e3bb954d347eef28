SPECIFICATION FairSpec
CONSTANTS
    a = a
    b = b
    c = c
    d = d
    e = e
    run1 = run1
    run2 = run2
    r1 = r1
    r2 = r2
    Jobs = {a, b, c}
    Runs = {run1}
    RunOf <- ChainRunOf
    Needs <- ChainNeeds
    Condition <- TailCondition
    Runners = {r1}
    NoRunner = NoRunner
    Administered = {r1}
    Results = {"success", "failure"}
    ApprovalRequired = {b}
    BranchDenied = {}
    HasDeadline = {b}
    RequiresArtifact = {}
    Environment <- ChainEnvironment
    EnvConcurrency = 0
    CancelInProgress = {}
    Capacity <- OneSlot
    Request <- ChainRequest
    ResourceCapacity <- Unconstrained
    RepoConcurrency = 0
    RepoQueueDepth = 0
    MaxInfraRetries = 1
    LeaseTTL = 1
    MaxPolls = 1
INVARIANTS
    ApprovalBeforeExecution
PROPERTIES
    RunsTerminate
    ExpiredLeaseRecovered
CHECK_DEADLOCK FALSE
