SPECIFICATION Spec
CONSTANTS
    r1 = r1
    r2 = r2
    r3 = r3
    r4 = r4
    Requests <- FourRequests
    MaxActiveGenerations = 2
    MaxQueueDepth = 1
    BoundedWait = FALSE
SYMMETRY RequestSymmetry
INVARIANTS
    Ledger
    QueueIsTheWaiting
    SlotAccounting
    WorkConserving
PROPERTIES
    CancelledInQueueNeverRuns
