SPECIFICATION Spec
CONSTANTS
    i1 = i1
    i2 = i2
    i3 = i3
    i4 = i4
    d1 = d1
    d2 = d2
    t1 = t1
    t2 = t2
    p1 = p1
    Requests = {r1}
    Streams = {}
    Installers = {i1, i2, i3}
    Task <- MCPlace
    Monitors = {}
    Readers = {}
    Tunings = {t1, t2}
    Dispatchers = {d1, d2}
    Placements = {p1}
    Plans = {}
    MayExpire = {p1}
    Levels <- MCLevels
    MaxReports = 1
    None = None
INVARIANT TuningHasApplier
CHECK_DEADLOCK FALSE
