SPECIFICATION SpecQueries
CONSTANTS
    p1 = p1
    snap = snap
    s1 = s1
    k1 = k1
    k2 = k2
    t1 = t1
    t2 = t2
    Partitions = {p1}
    SnapshotPartition = snap
    Instances = {s1}
    Owner <- SoleOwner
    Keys = {k1, k2}
    EveryNChanges = 2
    EveryMinutes = 1
    Attempts = 2
    PruneCutoffs = {2}
    MinTimeStep = 1
    MaxEvents = 2
    MaxTime = 2
    MaxFaults = 0
    MaxCrashes = 0
    Threads = {t1, t2}
    QueryTimes = {1, 2}
    Ttl = 0
    CacheSize = 1
    MaxTicks = 1
    MaxRequests = 3
CHECK_DEADLOCK FALSE
SYMMETRY Alike
INVARIANTS
    AnswerIsUpToDate
    AnswersAreFresh
    CacheIsBounded
