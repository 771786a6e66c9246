SPECIFICATION FairSpec
CONSTANTS
    a = a
    b = b
    c = c
    noid = noid
    Articles = {a, b, c}
    Accepted = {a, b}
    NoId = noid
    MaxMessages <- Messages
    RawMessages = 2
    EntityMessages = 2
    GraphMessages = 1
    MaxRestarts = 1
    MaxFaults = 1
CHECK_DEADLOCK FALSE
INVARIANTS
    AnnouncedOnceInOrder
    OneArticleAtATime
    IndexFollowsTheTopic
PROPERTIES
    ThreadsEnd
    EveryArticleEnds
