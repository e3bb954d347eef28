SPECIFICATION Spec
CONSTANTS
    a = a
    b = b
    c = c
    d = d
    e = e
    run1 = run1
    run2 = run2
    r1 = r1
    r2 = r2
    Jobs = {a, b, c, d, e}
    Runs = {run1, run2}
    RunOf <- GraphRunOf
    Needs <- GraphNeeds
    Condition <- GraphCondition
    Runners = {r1}
    NoRunner = NoRunner
    Administered = {}
    Results = {"success", "failure"}
    ApprovalRequired = {d}
    BranchDenied = {e}
    HasDeadline = {c}
    RequiresArtifact = {}
    Environment <- GraphEnvironment
    EnvConcurrency = 1
    CancelInProgress = {run2}
    Capacity <- GraphCapacity
    Request <- GraphRequest
    ResourceCapacity <- GraphResources
    RepoConcurrency = 2
    RepoQueueDepth = 4
    MaxInfraRetries = 0
    LeaseTTL = 1
    MaxPolls = 1
INVARIANTS
    TypeOK
    ReservationsMatchLeases
    QuotaAccountsForJobs
PROPERTIES
    ImplementsLifecycle
CHECK_DEADLOCK FALSE
