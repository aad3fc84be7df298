CONSTANTS
    Requests = {r1, r2}
    MaxId = 3
    MaxGen = 2
    MaxCancels = 2
    NoRequest = NoRequest
SPECIFICATION FairSpec
INVARIANTS
    ReplyMatchesRequest
    PendingIsRegistered
    LateReplyIsExpected
PROPERTIES
    KeepsContract
CHECK_DEADLOCK FALSE
