SPECIFICATION ProvSpec
CONSTANTS
    k1 = k1
    Calls <- OneCall
    MaxConns = 2
    Enabled = TRUE
    MaxAttempts = 2
    MaxSetupErrors = 1
    MaxChannelErrors = 0
INVARIANTS
    FailedRecoveryRetried
CHECK_DEADLOCK FALSE
