SPECIFICATION Spec
CONSTANTS
    s1 = s1
    s2 = s2
    t1 = t1
    t2 = t2
    t3 = t3
    Labels <- MCLabels
    Annotated <- MCAnnotated
    Rows = 3
    Texts <- MCTexts
    Folds = 2
    PairBudget = 1
    Samples = 3
    GridSize = 4
    Weights <- MCWeights
    Design = 4
    ParityRows <- MCRows
    Outputs <- MCOutputs
    Checkpoints <- MCCheckpoints
    Sigmoid <- MCSigmoid
    Cut <- MCCut
    TorchAtol = 0
    LogitAtol = 25
    LogitMeanAtol = 5
    ProbAtol = 3
    FlipPerMille = 5
    FlipMin = 1
    RankMargin = 5
    MaxParityAtol = 5
    Declared <- MCDeclared
    MaxVersions = 1
    None = None
    Splits <- MCSplits
    OuterFolds = 2
    Revisions <- OneRevision
    Faults <- Killed
    Absent = Absent
    Torn = Torn
SYMMETRY MCSymmetry
INVARIANTS LabelsKept NoLeak TunerSound ComparedAlike TotalsUnbiased GatesHold
    TunedOutOfFold HeldOutOnce ScoredOwnSplit PublishedIsMeasured ResultKept
CHECK_DEADLOCK FALSE
