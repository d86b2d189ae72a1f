SPECIFICATION FairSpec
CONSTANTS
    p1 = p1
    p2 = p2
    qa = qa
    qb = qb
    m1 = m1
    m2 = m2
    o1 = o1
    o2 = o2
    None = None
    Procs <- TwoProcs
    Queues <- TwoQueues
    Msgs <- TwoMsgs
    Spares <- OneSpare
    Options <- TwoOptions
    Deployments <- ThreeDeployments
    Redis = TRUE
    MaxBoots = 2
    MaxCalls = 1
    MaxFaults = 1
INVARIANTS
    SetupTypeOK
    OnePlace
    OptionsKnown
PROPERTIES
    LostOnlyByFailure
    OrphansUnused
    DrainsEnd
CHECK_DEADLOCK FALSE
