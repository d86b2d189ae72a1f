SPECIFICATION FairSpec
CONSTANTS
    p1 = p1
    p2 = p2
    m1 = m1
    m2 = m2
    k1 = k1
    k2 = k2
    c1 = c1
    c2 = c2
    c3 = c3
    c4 = c4
    t1 = t1
    t2 = t2
    t3 = t3
    Procs <- TwoProcs
    Listening <- None
    Msgs <- OneMsg
    Crons <- None
    Inactive <- None
    Undecodable <- None
    Copies <- TwoCopies
    Tasks <- ThreeTasks
    Nil = Nil
    Prefetch = 2
    MaxRetries = 2
    UseRedis = FALSE
    LastTick = 0
    MaxPublish = 2
    MaxDrops = 0
    MaxTorn = 0
    MaxCrashes = 2
    MaxExpiries = 0
    MaxRedisErrors = 0
INVARIANTS
    TypeOK
    OneRunPerProcess
    NoWorkLost
    LockOwned
PROPERTIES
    KeepsPromise
    DeliveryEnds
CHECK_DEADLOCK FALSE
