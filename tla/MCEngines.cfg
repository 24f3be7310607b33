CONSTANTS
    Requests = {r1, r2}
    Idle = {r2}
    Diags = {d1}
    Oversized = {}
    MaxQueued = 1
    MaxPending = 2
    None = None
    Planners = {p1, p2}
    MaximumRestarts = 2
    Nobody = Nobody
SPECIFICATION MCSpec
INVARIANTS
    FinishedOnce
    ChildWithinTable
    NoLostBackend
    WatchdogSparesLiving
    StoppedStaysDown
PROPERTIES
    ThreadKeepsLease
    ProcessKeepsLease
    LeaseReturns
    BackendRecovers
CHECK_DEADLOCK FALSE
