SPECIFICATION FairSpec
CONSTANTS
    i1 = i1
    i2 = i2
    i3 = i3
    i4 = i4
    d1 = d1
    d2 = d2
    t1 = t1
    t2 = t2
    p1 = p1
    Requests = {r1, r2}
    Streams = {}
    Installers = {i1, i2, i3, i4}
    Task <- MCTune
    Monitors = {}
    Readers = {}
    Tunings = {t1, t2}
    Dispatchers = {d1, d2}
    Placements = {p1}
    Plans = {}
    MayExpire = {}
    Levels <- MCLevels
    MaxReports = 1
    None = None
INVARIANTS
    TuningHasApplier
PROPERTIES
    TuningSwitches
    CompletionEnds
CHECK_DEADLOCK FALSE
