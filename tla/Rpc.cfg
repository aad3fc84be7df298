CONSTANTS
    MaxGeneration = 2
    Calls = {c1}
    BufferSize = 1
    MaxFrames = 2
    Parents = {1, 2}
    NoParent = 0
    Requests = {1, 2}
    Workers = {1, 2}
    Nobody = Nobody
    MaxHandlers = 1
    HandlerQueue = 1
    MaxConcurrency = 1
    MaxActivities = 3
    MaxFaults = 2
    MaxEvents = 4
SPECIFICATION Spec
INVARIANTS
    CleanEndIsComplete
    AckAfterCleanup
    AnsweredOnce
    DispatcherExact
PROPERTIES
    ServesByContract
    OutcomesResolve
    RequestsSettle
CHECK_DEADLOCK FALSE
