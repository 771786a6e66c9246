SPECIFICATION FairSpec
CONSTANTS
    p1 = p1
    p2 = p2
    snap = snap
    s1 = s1
    s2 = s2
    k1 = k1
    k2 = k2
    Partitions = {p1, p2}
    SnapshotPartition = snap
    Instances = {s1, s2}
    Owner <- SharedOwner
    Keys = {k1}
    EveryNChanges = 2
    EveryMinutes = 3
    Attempts = 2
    PruneCutoffs = {0}
    MinTimeStep = 0
    MaxEvents = 2
    MaxTime = 1
    MaxFaults = 2
    MaxCrashes = 1
CHECK_DEADLOCK FALSE
INVARIANTS
    CommittedIsHandled
    DuplicatesAreExplained
    SnapshotsAreBacked
PROPERTIES
    ImplementsEventLog
    EventuallyHandled
