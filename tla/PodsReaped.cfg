SPECIFICATION FairSpec
CONSTANTS
    l1 = l1
    l2 = l2
    t1 = t1
    Leases <- MCLeases
    Reapers <- MCReapers
    Named <- MCOne
    Faults <- FaultKinds
INVARIANTS NoOrphan DoneMeansGone
PROPERTIES Reaped
