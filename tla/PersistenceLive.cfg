SPECIFICATION Spec
CONSTANTS
    r1 = r1
    r2 = r2
    r3 = r3
    Torn = Torn
    Absent = Absent
    Requests <- MCRequests
    Flagged <- MCTwo
    Poison <- MCThird
    MaxAttempts = 2
    MaxRows = 1
    Threads = 2
    Faults <- FaultKinds
    DrainMode = "live"
CHECK_DEADLOCK FALSE
INVARIANTS AckedRecoverable RowsComplete
PROPERTY ReplayChangesNothing
SYMMETRY MCSymmetry
