SPECIFICATION RunSpec
CONSTANTS
    l1 = l1
    l2 = l2
    s1 = s1
    s2 = s2
    torn = torn
    Leases <- MCLeases
    Reapers <- NoReapers
    Named <- MCLeases
    Faults <- RunFaults
    Commands <- MCCommands
    Splits <- MCSplits
    Torn <- torn
SYMMETRY RunSymmetry
CHECK_DEADLOCK FALSE
INVARIANTS TrainedAsStaged RunKept
PROPERTIES OnlyRacers
