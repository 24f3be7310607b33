CONSTANTS
    cpu = cpu
    mlx = mlx
    t1 = t1
    t2 = t2
    None = None
    Stopper = stopper
    Clients = {}
    Workers = {w1, w2}
    Cancellers = {x1, stopper}
    Pipelines = {}
    Tokens = {t1, t2}
    Ranks = {1, 2}
    MaxRequests = 2
    Slack = 0
    ResIds = {t1, t2}
    Backends = {cpu, mlx}
    CPU = cpu
    GPUs <- MCGPUs
    ANEs = {}
    MaxBytes = 1
    Capacity <- MCCapacity
    Bytes <- MCBytes
    Batch <- MCBatch
    Phase <- MCPhase
    Rank <- MCRank
    Chain <- MCChain
    FallbackJobs = {t1}
    Stages <- MCStages
    StageBytes = 0
    Pressures = {0}
    Thermals = {0}
    LowPowers = {FALSE}
    Preferences = {"automatic"}
    Plans = {}
    PlanBatch <- MCPlanBatch
    Placements = {}
    PlacedOn <- MCPlacedOn
    Dispatchers <- MCDispatchers
    Owners = {}
    AppleSilicon = TRUE
SPECIFICATION SubSpec
INVARIANT CancelHonoured
CHECK_DEADLOCK FALSE
