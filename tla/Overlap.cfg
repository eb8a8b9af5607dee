SPECIFICATION Spec
CONSTANTS
    N = 3
    Keys = {"a", "b", "c"}
    Key <- SharedKey
    Valid = {1, 2, 3}
    Refused = {}
    Foreign = {"b"}
    Unique = TRUE
    CommitInTransaction = TRUE
    ReplicaSet = TRUE
    Elections = TRUE
    StoreFaults = TRUE
    Crashes = TRUE
    Runs = {r1, r2}
    r1 = r1
    r2 = r2
    BatchSize = 1
    Limit = 0
    MaxCalls = 3
SYMMETRY RunSymmetry
INVARIANTS CommittedRowHasEntity LinkedRowHasOwnEntity
CHECK_DEADLOCK FALSE
