SPECIFICATION Spec
CONSTANTS
    q1 = q1
    q2 = q2
    A = A
    B = B
    C = C
    Entities = {A, B, C}
    Partitions = {q1, q2}
    StreamResults <- FourResults
    Posts <- NoPosts
    Unit = 10000
    Hour = 1
    BatchSize = 2
    FreshGroup = TRUE
    MaxArticles = 2
    MaxTime = 1
    MaxPosts = 0
    MaxFaults = 0
    MaxCrashes = 1
CHECK_DEADLOCK FALSE
INVARIANTS
    TypeOK
    CountsAreTheHistory
    
