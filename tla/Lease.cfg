CONSTANTS
    MaxGeneration = 3
    Acquirers = {1, 2, 3}
    Nobody = 0
    MaxChanges = 3
    InboxSize = 1
    MaxFaults = 2
SPECIFICATION Spec
INVARIANTS
    TypeOK
    GrantReachesItsCaller
    AcquireLockExact
    ReadyViewIsCurrent
PROPERTIES
    LossFreesTheLock
    ViewConverges
CHECK_DEADLOCK FALSE
