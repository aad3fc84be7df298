CONSTANTS
    Tasks = {t1, t2, t3, t4}
    Maximum = 1
    QueueSize = 2
SPECIFICATION Spec
INVARIANTS
    AdmissionBounded
CHECK_DEADLOCK FALSE
