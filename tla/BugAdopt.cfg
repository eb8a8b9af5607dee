SPECIFICATION Spec
CONSTANTS
    N = 3
    Keys = {"a", "b", "c"}
    Key <- SharedKey
    Valid = {1, 2, 3}
    Refused = {}
    Foreign = {}
    Unique = TRUE
    CommitInTransaction = FALSE
    ReplicaSet = FALSE
    Elections = FALSE
    StoreFaults = FALSE
    Crashes = TRUE
    Runs = {r1}
    r1 = r1
    BatchSize = 3
    Limit = 0
    MaxCalls = 2
INVARIANT CommittedRowWroteIt
CHECK_DEADLOCK FALSE
