SPECIFICATION FairSpec
CONSTANTS
    a = a
    b = b
    c = c
    d = d
    e = e
    run1 = run1
    run2 = run2
    r1 = r1
    r2 = r2
    Jobs = {a, b, c}
    Runs = {run1}
    RunOf <- ChainRunOf
    Needs <- ChainNeeds
    Condition <- ChainCondition
    Runners = {r1}
    NoRunner = NoRunner
    Administered = {}
    Results = {"success", "failure"}
    ApprovalRequired = {}
    BranchDenied = {}
    HasDeadline = {}
    RequiresArtifact = {}
    Environment <- ChainEnvironment
    EnvConcurrency = 0
    CancelInProgress = {}
    Capacity <- OneSlot
    Request <- ChainRequest
    ResourceCapacity <- Unconstrained
    RepoConcurrency = 0
    RepoQueueDepth = 0
    MaxInfraRetries = 0
    LeaseTTL = 1
    MaxPolls = 1
PROPERTIES
    RejectedJobSettles
CHECK_DEADLOCK FALSE
