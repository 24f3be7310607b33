CONSTANTS
    cpu = cpu
    mlx = mlx
    c1 = c1
    c2 = c2
    t1 = t1
    t2 = t2
    t3 = t3
    plan1 = plan1
    None = None
    Clients = {c1, c2}
    Workers = {w1}
    Cancellers = {x1}
    Pipelines = {p1}
    Tokens = {t1}
    Ranks = {1, 2}
    MaxRequests = 2
    Slack = 0
    ResIds <- MCResIds
    Backends = {cpu, mlx}
    CPU = cpu
    GPUs <- MCGPUs
    ANEs = {}
    MaxBytes = 2
    Capacity <- MCCapacity
    Bytes <- MCBytes
    Batch <- MCBatch
    Phase <- MCPhase
    Rank <- MCRank
    Chain <- MCChain
    FallbackJobs = {c1}
    Stages <- MCStages
    StageBytes = 1
    Pressures = {0, 2}
    Thermals = {0}
    LowPowers = {FALSE, TRUE}
    Preferences = {"automatic", "high_performance"}
    Plans = {plan1, plan2}
    PlanBatch <- MCPlanBatch
    Placements = {place1}
    PlacedOn <- MCPlacedOn
    Dispatchers <- MCDispatcherChoices
    Owners = {o1, o2}
    AppleSilicon = TRUE
SPECIFICATION Spec
INVARIANTS
    MaintenanceExcludesRequests
    UsedIsLiveDemand
    NoOvercommit
PROPERTIES
    StrandedByRollbackOnly
    AdmissionKeepsCoRunning
CHECK_DEADLOCK FALSE
