SPECIFICATION FairSpec
CONSTANTS
    s1 = s1
    w1 = w1
    fast = fast
    slow = slow
    off = off
    Servers <- OneServer
    Workers <- OneWorker
    Crons <- FastAndOff
    Order <- InactiveLast
    Active <- OnlyFast
    Period <- Periods
    MaxTime = 1
    MaxBoots = 2
    MaxFaults = 1
    MaxMeanwhile = 2
INVARIANTS
    CronsTypeOK
    ChainAlive
    
PROPERTIES
    BootEnds
CHECK_DEADLOCK FALSE
