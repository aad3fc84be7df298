CONSTANTS
    Tasks = {t1, t2, t3, t4, t5}
    Maximum = 2
    QueueSize = 2
SPECIFICATION FairSpec
INVARIANTS
    QueueConsistent
    NoIdleCapacity
    NoSlotLeak
    ExactUnlessRaced
PROPERTIES
    NoAdmissionAfterClose
    NoOvertaking
    WaiterProgress
CHECK_DEADLOCK FALSE
