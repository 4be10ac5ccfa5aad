SPECIFICATION Spec
CONSTANTS
    r1 = r1
    r2 = r2
    r3 = r3
    r4 = r4
    Requests <- Connections
    MaxActive = 1
    MaxQueueDepth = 2
SYMMETRY ConnectionSymmetry
CONSTRAINT Small
PROPERTIES
    StubImplementsContract
CHECK_DEADLOCK FALSE
