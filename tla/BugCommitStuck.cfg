SPECIFICATION FairRequestSpec
CONSTANTS
    N = 4
    Keys = {"a", "b", "c", "d"}
    Key <- DistinctKeys
    Valid = {1, 2}
    Refused = {}
    Foreign = {}
    Unique = TRUE
    CommitInTransaction = FALSE
    ReplicaSet = FALSE
    Elections = FALSE
    StoreFaults = FALSE
    Crashes = TRUE
    BatchSize = 2
    Limit = 0
    MaxCalls = 3
    Runs = {r1, r2}
    r1 = r1
    r2 = r2
    r3 = r3
    Requests = {r1, r2}
    Threshold <- MixedThreshold
    Overlapping = FALSE
    Doomed = {r1}
PROPERTY BegunIsFinished
CHECK_DEADLOCK FALSE
