SPECIFICATION Spec
CONSTANTS
    p1 = p1
    p2 = p2
    snap = snap
    s1 = s1
    s2 = s2
    k1 = k1
    k2 = k2
    Partitions = {p1}
    SnapshotPartition = snap
    Instances = {s1}
    Owner <- SoleOwnerOnePartition
    Keys = {k1}
    EveryNChanges = 2
    EveryMinutes = 2
    Attempts = 2
    PruneCutoffs = {0}
    MinTimeStep = 1
    MaxEvents = 2
    MaxTime = 2
    MaxFaults = 2
    MaxCrashes = 0
CHECK_DEADLOCK FALSE
INVARIANT
    CommitOnlyAfterStorage
