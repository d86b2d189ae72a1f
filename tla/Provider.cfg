SPECIFICATION FairProvSpec
CONSTANTS
    k1 = k1
    Calls <- OneCall
    MaxConns = 3
    Enabled = TRUE
    MaxAttempts = 2
    MaxSetupErrors = 1
    MaxChannelErrors = 1
INVARIANTS
    ProvTypeOK
    OneConnection
    LossHandled
    ReadyMeansUsable
    ConfirmedTaken
    ChannelCurrent
    Restored
    RetriedOnce
PROPERTIES
    LossEnds
    WaitEnds
    CallsEnd
CHECK_DEADLOCK FALSE
