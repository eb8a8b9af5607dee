SPECIFICATION RequestSpec
CONSTANTS
    N = 4
    Keys = {"a", "b", "c", "d"}
    Key <- DistinctKeys
    Valid = {1, 2, 4}
    Refused = {2}
    Foreign = {"d"}
    Unique = TRUE
    CommitInTransaction = FALSE
    ReplicaSet = FALSE
    Elections = FALSE
    StoreFaults = TRUE
    Crashes = TRUE
    BatchSize = 2
    Limit = 0
    MaxCalls = 3
    Runs = {r1, r2, r3}
    r1 = r1
    r2 = r2
    r3 = r3
    Requests = {r1, r2}
    Threshold <- MixedThreshold
    Overlapping = FALSE
    Doomed = {r1, r2, r3}
INVARIANTS RequestTypeOK CountsTruthful CompletedMeansCommitted EventsAgreeWithJob
PROPERTY FinishedIsFinal
CHECK_DEADLOCK FALSE
