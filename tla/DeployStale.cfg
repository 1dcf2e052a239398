SPECIFICATION DeploySpec
CONSTANTS
    sha1 = sha1
    sha2 = sha2
    Commits <- MCCommits
    Order <- MCOrder
    Needs <- MCNeeds
    MaxLate = 1
    MaxRuns = 3
    Unset = Unset
INVARIANT PayloadArrived
CHECK_DEADLOCK FALSE
