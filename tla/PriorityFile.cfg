SPECIFICATION FairSpec
CONSTANTS
    producer = producer
    t1 = t1
    t2 = t2
    x = x
    y = y
    z = z
    Threads = {t1, t2}
    Worker = producer
    Topics = {x, y, z}
    DefaultTerms = {}
    Ttl = 2
    MaxTopics = 2
    MaxRequests = 3
    MaxTicks = 1
    MaxFaults = 1
CHECK_DEADLOCK FALSE
INVARIANT
    AnswersSurvive
PROPERTIES
    
    EventuallySearched
