CONSTANTS
    Workers = {w1, w2}
    Plans = {p1, p2}
    Workspaces = {s1, s2, s3, s4}
    MaxFaults = 2
    None = None
    Threads = {a, b}
    Keys = {k1, k2}
    Handles = {1, 2, 3}
    Size <- MCSize
    NormalEntries = 2
    NormalBytes = 3
    Levels = {"normal", "warning"}
    MaxPendingReleases = 1
    Nothing = Nothing
    stream1 = stream1
    numeric2 = numeric2
    plain1 = plain1
    plain2 = plain2
    unload2 = unload2
    retry2 = retry2
    stop2 = stop2
    cancel1 = cancel1
    status2 = status2
    art = art
    c1 = c1
    c2 = c2
    Connections = {c1, c2}
    Commands = {stream1, numeric2, plain1, plain2, unload2, retry2, status2, stop2, cancel1}
    Op <- MCOp
    Sequence <- MCSequence
    Subject <- MCSubject
    Artifacts = {art}
    ArtifactOf <- MCArtifactOf
    Needs <- MCNeeds
    Keeps <- MCKeeps
    PoolBytes = 3
    MaxCached = 1
    MaxCommands = 2
    Agendas <- MCAgendas
    NoCommand = NoCommand
SPECIFICATION MCSpec
INVARIANTS
    PublishedIsWhole
    CompletedIsPublished
    OnePlanCompletes
    WithinBudget
    HandlesOwned
    LoadsOnce
    AnswersAgree
    MemoryAccounted
    SessionOverHoldsNothing
PROPERTIES
    OutputImmutable
    JobsComplete
    SessionEnds
CHECK_DEADLOCK FALSE
