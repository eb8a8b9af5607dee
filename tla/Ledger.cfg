SPECIFICATION Spec
CONSTANTS
    N = 5
    Keys = {"a", "b", "c", "d", "e"}
    Key <- DistinctKeys
    Valid = {1, 2, 4, 5}
    Refused = {2}
    Foreign = {}
    Unique = TRUE
    CommitInTransaction = FALSE
    ReplicaSet = FALSE
    Elections = FALSE
    StoreFaults = FALSE
    Crashes = TRUE
    Runs = {r1}
    r1 = r1
    BatchSize = 2
    Limit = 3
    MaxCalls = 4
INVARIANTS
    TypeOK
    ReturnMeansDrained
    LimitRespected
PROPERTY ImplementsLedger
CHECK_DEADLOCK FALSE
