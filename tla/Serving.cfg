SPECIFICATION MCSpec
CONSTANTS
    Idle = Idle
    Watched = k1
    k1 = k1
    k2 = k2
    k3 = k3
    c1 = c1
    c2 = c2
    frontend = frontend
    outsider = outsider
    s1 = s1
    Keys <- MCKeys
    Callers <- MCCallers
    Burst = 2
    Rate = 3
    Cost = 2
    MaxTracked = 2
    MaxTick = 2
    MaxCount = 6
    Peers <- MCPeers
    Public <- MCPublic
    Sessions <- MCSessions
    Absent = Absent
    CallerBurst = 1
    CallerRate = 1
    TokenCost = 1
    Multiplier = 2
    TrackedLimit = 5
    Arriving <- MCArriving
    LastTime = 1
    LastDay = 1
    Labels <- MCLabels
    Annotated <- MCAnnotated
    One = 20
    BlockLabels <- MCBlockLabels
    BlockMargin = 3
    ReviewMargin = 2
    Scores <- MCScores
    Thresholds <- MCThresholds
    sha1 = sha1
    sha2 = sha2
    Commits <- MCCommits
    Order <- MCOrder
    Needs <- MCNeeds
    MaxLate = 1
    MaxRuns = 3
    Unset = Unset
INVARIANTS Accounting WindowBounded CeilingIsAdmissions DecisionSound OneRule DeploySound
SYMMETRY MCSymmetry
CHECK_DEADLOCK FALSE
