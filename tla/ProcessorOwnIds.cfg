SPECIFICATION FairSpec
CONSTANTS
    r1 = r1
    r2 = r2
    a1 = a1
    a2 = a2
    nobody = nobody
    Partitions = {r1}
    Instances = {a1, a2}
    TransactionalId <- OwnId
    Nobody = nobody
    BatchSize = 2
    MaxArticles = 2
    MaxFaults = 2
    MaxCrashes = 2
CHECK_DEADLOCK FALSE
INVARIANT
    OutputMatchesOffsets
PROPERTIES
    ImplementsExactlyOnce
    EventuallyProcessed
