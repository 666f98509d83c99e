CONSTANTS
    r1 = r1
    r2 = r2
    r3 = r3
    bad = bad
    NoReply = NoReply
    MaxData = 2
    Requests <- MCRequests
    Posts <- MCPosts
    Malformed <- MCMalformed
    Silent <- MCSilent
SPECIFICATION Spec
INVARIANTS
    TypeOK
    RunningIffListening
    NoneLost
    InOrder
    OwnBytes
    IdleQueueIsStranded
PROPERTIES
    OutcomesFinal
    Served
CHECK_DEADLOCK FALSE
