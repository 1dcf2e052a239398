SPECIFICATION FSpec
CONSTANTS
    r1 = r1
    r2 = r2
    r3 = r3
    c1 = c1
    c2 = c2
    w1 = w1
    s1 = s1
    Purger = Purger
    Nobody = Nobody
    Anonymous = Anonymous
    Requests <- MCRequests
    Intent <- NoneDrawn
    Clicks <- MCClicks
    Reviewers <- Absentees
    Rescorers <- OneRescorer
    Senders <- MCSenders
    Sender <- OneSender
    MaxVotes = 1
    MaxPending = 1
    MaxPerSource = 3
    MaxPerWindow = 2
    BatchSize = 1
    FeedbackDays = 0
    TextDays = 1
    TtlDays = 0
    SnapshotDays = 0
    MaxDay = 1
INVARIANTS ReferredOnDisagreement QuotasBounded
PROPERTY QueueSpec
SYMMETRY MCSymmetry
