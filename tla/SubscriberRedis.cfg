SPECIFICATION Spec
CONSTANTS
    p1 = p1
    p2 = p2
    m1 = m1
    m2 = m2
    k1 = k1
    k2 = k2
    c1 = c1
    c2 = c2
    c3 = c3
    c4 = c4
    t1 = t1
    t2 = t2
    t3 = t3
    Procs <- TwoProcs
    Listening <- OneProc
    Msgs <- GoodAndBad
    Crons <- None
    Inactive <- None
    Undecodable <- BadMsg
    Copies <- TwoCopies
    Tasks <- ThreeTasks
    Nil = Nil
    Prefetch = 2
    MaxRetries = 1
    UseRedis = TRUE
    LastTick = 0
    MaxPublish = 2
    MaxDrops = 0
    MaxTorn = 0
    MaxCrashes = 1
    MaxExpiries = 1
    MaxRedisErrors = 1
SYMMETRY OneListensSymmetry
INVARIANTS
    LostOnlyOnRefusalOrEnd
    SharedLockOwned
    RefusedByRedisError
CHECK_DEADLOCK FALSE
