SPECIFICATION ConsoleSpec
CONSTANTS
    r1 = r1
    r2 = r2
    p1 = p1
    p2 = p2
    w1 = w1
    w2 = w2
    c1 = c1
    Purger = Purger
    Nobody = Nobody
    NoItem = NoItem
    Requests <- MCRequests
    Intent <- MCDrawn
    Reviewers <- TwoReviewers
    Rescorers <- OneRescorer
    Consoles <- OneConsole
    BatchSize = 2
    FeedbackDays = 0
    TextDays = 0
    TtlDays = 0
    SnapshotDays = 0
    MaxDay = 1
INVARIANTS OneJudgement StrayFromTop
PROPERTY LifecycleSpec
SYMMETRY MCWorkers
