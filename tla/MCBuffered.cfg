SPECIFICATION FairSpec
CONSTANTS
    r1 = r1
    r2 = r2
    c1 = c1
    c2 = c2
    Requests <- TwoRequests
    Connections <- TwoConnections
    MaxActiveGenerations = 1
    MaxQueueDepth = 1
    BoundedWait = TRUE
    Carriers <- SharedOrNot
    Priorities = {"interactive"}
INVARIANTS
    GpuUnderSlot
    AnswerIsHonest
    WholeAnswer
PROPERTIES
    DisconnectEndsTheNewest
