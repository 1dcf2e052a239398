SPECIFICATION FairSpec
CONSTANTS
    r1 = r1
    r2 = r2
    p1 = p1
    p2 = p2
    w1 = w1
    w2 = w2
    Purger = Purger
    Nobody = Nobody
    Requests <- MCRequests
    Intent <- MCIntent
    Reviewers <- OneReviewer
    Rescorers <- TwoRescorers
    BatchSize = 1
    FeedbackDays = 0
    TextDays = 1
    TtlDays = 0
    SnapshotDays = 1
    MaxDay = 2
INVARIANTS OpenReadable ScoredOnText SnapshotsPurged StrataAsDrawn
PROPERTIES Rescored
