SPECIFICATION ActorFairSpec
CONSTANTS
    r1 = r1
    r2 = r2
    r3 = r3
    r4 = r4
    Requests <- ThreeRequests
    MaxActiveGenerations = 1
    MaxQueueDepth = 2
    BoundedWait = TRUE
PROPERTIES
    SettledOnce
    
