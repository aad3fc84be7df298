SPECIFICATION Spec
CONSTANTS
    MaxAttempts = 3
    MaxTries = 2
    Reconnects = TRUE
    Heartbeats = FALSE
    ConnectAgain = "anytime"
    Failures = {"error"}
INVARIANTS
    AttemptsCoalesce
CHECK_DEADLOCK FALSE
