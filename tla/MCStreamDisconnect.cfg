SPECIFICATION FairSpec
CONSTANTS
    r1 = r1
    r2 = r2
    Requests <- TwoRequests
    MaxActiveGenerations = 1
    MaxQueueDepth = 1
    BoundedWait = FALSE
    MaxItems = 0
PROPERTIES
    DisconnectFreesSlot
