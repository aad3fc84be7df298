CONSTANTS
    Flavours = {"registry", "notice"}
    Consumers = {c1, c2}
    Registrations = {r1, r2}
    Nobody = Nobody
    Capacity = 1
    MaxId = 3
    MaxItems = 2
    MaxFaults = 2
SPECIFICATION Spec
INVARIANTS
    TypeOK
    IndexConsistent
    BrokerAgrees
    NothingLost
    NoForgottenConsumer
PROPERTIES
    ReleasedUnlessFailed
CHECK_DEADLOCK FALSE
SYMMETRY Symmetry
CONSTRAINT Bounded
