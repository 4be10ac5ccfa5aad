SPECIFICATION CycleSpec
CONSTANTS
    DriverBound = 2
    CellCount = 2
    SweepRows = 1
    CeilingRows = 2
INVARIANTS
    RowsBelongToCell
CHECK_DEADLOCK FALSE
