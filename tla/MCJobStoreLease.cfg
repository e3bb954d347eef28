SPECIFICATION Spec
CONSTANTS
    a = a
    b = b
    c = c
    d = d
    e = e
    run1 = run1
    run2 = run2
    r1 = r1
    r2 = r2
    Jobs = {a}
    Runs = {run1}
    RunOf <- LeaseRunOf
    Needs <- LeaseNeeds
    Condition <- LeaseCondition
    Runners = {r1, r2}
    NoRunner = NoRunner
    Administered = {r1, r2}
    Results = {"success", "failure"}
    ApprovalRequired = {}
    BranchDenied = {}
    HasDeadline = {}
    RequiresArtifact = {a}
    Environment <- LeaseEnvironment
    EnvConcurrency = 0
    CancelInProgress = {}
    Capacity <- LeaseCapacity
    Request <- LeaseRequest
    ResourceCapacity <- LeaseResources
    RepoConcurrency = 0
    RepoQueueDepth = 0
    MaxInfraRetries = 2
    LeaseTTL = 2
    MaxPolls = 1
INVARIANTS
    QuotaAccountsForJobs
    AckMatchesOutcome
    RetryBudgetRespected
PROPERTIES
    ExpiredLeaseIsDead
    LiveLeaseUndisturbed
SYMMETRY LeaseSymmetry
CHECK_DEADLOCK FALSE
