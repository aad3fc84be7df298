SPECIFICATION FairSpec
CONSTANTS
    MaxAttempts = 4
    MaxTries = 3
    Reconnects = TRUE
    Heartbeats = FALSE
    ConnectAgain = "afterCleanup"
    Failures = {"error"}
INVARIANTS
    AttemptsCoalesce
    ConsumersReleased
PROPERTIES
    LossIsRepaired
CHECK_DEADLOCK FALSE
