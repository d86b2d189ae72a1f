SPECIFICATION Spec
CONSTANTS
    p1 = p1
    p2 = p2
    m1 = m1
    m2 = m2
    k1 = k1
    k2 = k2
    c1 = c1
    c2 = c2
    c3 = c3
    c4 = c4
    t1 = t1
    t2 = t2
    t3 = t3
    Procs <- OneProc
    Listening <- None
    Msgs <- TwoCrons
    Crons <- TwoCrons
    Inactive <- InactiveCron
    Undecodable <- None
    Copies <- FourCopies
    Tasks <- TwoTasks
    Nil = Nil
    Prefetch = 2
    MaxRetries = 1
    UseRedis = FALSE
    LastTick = 3
    MaxPublish = 2
    MaxDrops = 1
    MaxTorn = 1
    MaxCrashes = 0
    MaxExpiries = 0
    MaxRedisErrors = 0
SYMMETRY Symmetry
INVARIANTS
    ChainUnbroken
    OneNextExecution
    LockOwned
    DeliveryAnswered
CHECK_DEADLOCK FALSE
