SPECIFICATION ConnSpec
CONSTANTS
    MaxConns = 2
    Enabled = TRUE
    MaxAttempts = 1
INVARIANTS
    StaysClosed
CHECK_DEADLOCK FALSE
