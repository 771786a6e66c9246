SPECIFICATION FairSpec
CONSTANTS
    w = w
    x = x
    y = y
    z = z
    Names = {w, x, y, z}
    Messages <- Sentences
    Deltas = {0, 1}
    Interval = 2
    MaxUpdates = 4
    MaxFaults = 1
CHECK_DEADLOCK FALSE
INVARIANTS
    TypeOK
    LocalOptimum
    CommunitiesAreConnected
    ReaderFollows

    
