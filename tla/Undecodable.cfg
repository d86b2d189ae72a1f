SPECIFICATION Spec
CONSTANTS
    p1 = p1
    p2 = p2
    m1 = m1
    m2 = m2
    k1 = k1
    k2 = k2
    c1 = c1
    c2 = c2
    c3 = c3
    c4 = c4
    t1 = t1
    t2 = t2
    t3 = t3
    Procs <- OneProc
    Listening <- OneProc
    Msgs <- OneMsg
    Crons <- None
    Inactive <- None
    Undecodable <- OneMsg
    Copies <- TwoCopies
    Tasks <- ThreeTasks
    Nil = Nil
    Prefetch = 2
    MaxRetries = 1
    UseRedis = FALSE
    LastTick = 0
    MaxPublish = 1
    MaxDrops = 0
    MaxTorn = 0
    MaxCrashes = 0
    MaxExpiries = 0
    MaxRedisErrors = 0
SYMMETRY Symmetry
INVARIANTS
    DeliveryAnswered
CHECK_DEADLOCK FALSE
