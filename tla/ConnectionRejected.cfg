SPECIFICATION Spec
CONSTANTS
    MaxAttempts = 3
    MaxTries = 2
    Reconnects = TRUE
    Heartbeats = FALSE
    ConnectAgain = "never"
    Failures = {"rejected"}
INVARIANTS
    ConsumersReleased
CHECK_DEADLOCK FALSE
