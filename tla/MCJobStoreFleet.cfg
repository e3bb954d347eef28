SPECIFICATION Spec
CONSTANTS
    a = a
    b = b
    c = c
    d = d
    e = e
    run1 = run1
    run2 = run2
    r1 = r1
    r2 = r2
    Jobs = {a, b, c}
    Runs = {run1, run2}
    RunOf <- FleetRunOf
    Needs <- FleetNeeds
    Condition <- ChainCondition
    Runners = {r1, r2}
    NoRunner = NoRunner
    Administered = {r1}
    Results = {"success"}
    ApprovalRequired = {}
    BranchDenied = {}
    HasDeadline = {}
    RequiresArtifact = {}
    Environment <- FleetEnvironment
    EnvConcurrency = 1
    CancelInProgress = {}
    Capacity <- FleetCapacity
    Request <- FleetRequest
    ResourceCapacity <- FleetResources
    RepoConcurrency = 2
    RepoQueueDepth = 2
    MaxInfraRetries = 0
    LeaseTTL = 1
    MaxPolls = 1
INVARIANTS
    LimitsRespected
    QuotaAccountsForJobs
PROPERTIES
    ImplementsLifecycle
CHECK_DEADLOCK FALSE
