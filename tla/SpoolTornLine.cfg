SPECIFICATION Spec
CONSTANTS
    r1 = r1
    r2 = r2
    r3 = r3
    Torn = Torn
    Absent = Absent
    Requests <- MCTwo
    Flagged <- MCTwo
    Poison <- NoPoison
    MaxAttempts = 2
    MaxRows = 2
    Threads = 2
    Faults <- DbAndTear
    DrainMode = "quiesced"
CHECK_DEADLOCK FALSE
INVARIANT AckedDurable
