SPECIFICATION FairSpec
CONSTANTS
    w1 = w1
    w2 = w2
    g1 = g1
    g2 = g2
    c1 = c1
    c2 = c2
    k1 = k1
    k2 = k2
    Instances = {w1, w2}
    Clients = {}
    Keys = {k1}
    Home <- HomeOf
    Partitions = {g1}
    Owner <- FirstOwnsAll
    InstanceId <- OwnIds
    SseClients = {}
    RedisEnabled = TRUE
    Topic <- Everything
    QueueSize = 1
    MaxBatch = 2
    RateLimit = 1
    SseQueueSize = 1
    MaxEvents = 2
    MaxFaults = 1
    MaxCrashes = 0
CHECK_DEADLOCK FALSE
INVARIANT
    BroadcastOnceInOrder
PROPERTY
    EventuallyBroadcast
