SPECIFICATION Spec
CONSTANTS
    r1 = r1
    r2 = r2
    Requests <- TwoRequests
    MaxActiveGenerations = 1
    MaxQueueDepth = 1
    BoundedWait = TRUE
    MaxItems = 1
SYMMETRY RequestSymmetry
INVARIANTS
    GpuUnderSlot
    WireWellFormed
    NoFalseSuccess
    
