CONSTANTS
    MaxGeneration = 2
    Owner = t1
    Other = t2
    Nobody = nobody
    MaxOps = 5
    MaxFaults = 3
SPECIFICATION Spec
INVARIANTS
    Fenced
    ExitLeavesNothing
PROPERTIES
    NothingAfterFinish
CHECK_DEADLOCK FALSE
