CONSTANTS
    cpu = cpu
    mlx = mlx
    c1 = c1
    c2 = c2
    t1 = t1
    t2 = t2
    t3 = t3
    plan1 = plan1
    None = None
    Clients = {c1}
    Workers = {w1, w2}
    Cancellers = {x1}
    Pipelines = {}
    Tokens = {t1, t2, t3}
    Ranks = {1, 2}
    MaxRequests = 2
    Slack = 0
    ResIds <- MCResIds
    Backends = {cpu, mlx}
    CPU = cpu
    GPUs <- MCGPUs
    ANEs = {}
    MaxBytes = 2
    Capacity <- MCCapacity
    Bytes <- MCBytes
    Batch <- MCBatch
    Phase <- MCPhase
    Rank <- MCRank
    Chain <- MCChain
    FallbackJobs = {t1}
    Stages <- MCStages
    StageBytes = 1
    Pressures = {0}
    Thermals = {0}
    LowPowers = {FALSE}
    Preferences = {"automatic"}
    Plans = {plan1}
    PlanBatch <- MCPlanBatch
    Placements = {}
    PlacedOn <- MCPlacedOn
    Dispatchers <- MCDispatchers
    Owners = {}
    AppleSilicon = TRUE
SPECIFICATION Spec
INVARIANTS
    ReservationsOwned
    OneClaimer
    WaitingIsReachable
PROPERTY ServedInOrder
CHECK_DEADLOCK FALSE
