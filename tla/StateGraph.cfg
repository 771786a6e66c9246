SPECIFICATION FairSpec
CONSTANTS
    q1 = q1
    q2 = q2
    A = A
    B = B
    C = C
    Entities = {A, B, C}
    Partitions = {q1}
    StreamResults <- TwoResults
    Posts <- HandMade
    Unit = 10000
    Hour = 1
    BatchSize = 2
    FreshGroup = TRUE
    MaxArticles = 3
    MaxTime = 3
    MaxPosts = 1
    MaxFaults = 1
    MaxCrashes = 1
CHECK_DEADLOCK FALSE
INVARIANTS
    StructuresAgree
    CentralityNeverTooLow
    HourlyRateIsTheWindow

    
