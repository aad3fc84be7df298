SPECIFICATION Spec
CONSTANTS
    MaxAttempts = 3
    MaxTries = 2
    Reconnects = TRUE
    Heartbeats = TRUE
    ConnectAgain = "anytime"
    Failures = {"error", "rejected", "version"}
INVARIANTS
    AuthenticatedOwnsSession
    GenerationNamesSession
    CloseStopsEverything
PROPERTIES
    ClosedIsFinal
CHECK_DEADLOCK FALSE
