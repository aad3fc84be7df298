SPECIFICATION FairSpec
CONSTANTS
    MaxAttempts = 3
    MaxTries = 2
    Reconnects = TRUE
    Heartbeats = TRUE
    ConnectAgain = "never"
    Failures = {"error"}
PROPERTIES
    LossIsRepaired
CHECK_DEADLOCK FALSE
