SPECIFICATION FairWorkerSpec
CONSTANTS
    N = 4
    Keys = {"a", "b", "c", "d"}
    Key <- DistinctKeys
    Valid = {1, 2, 3, 4}
    Refused = {2}
    Foreign = {"d"}
    Unique = TRUE
    CommitInTransaction = FALSE
    ReplicaSet = FALSE
    Elections = FALSE
    StoreFaults = TRUE
    Crashes = TRUE
    BatchSize = 2
    Limit = 2
    MaxCalls = 12
    Runs = {r1}
    r1 = r1
    r2 = r2
    Messages = {m1}
    m1 = m1
    m2 = m2
    MaxAttempts = 2
    MaxStalls = 1
    LockLoss = TRUE
    NoMessage = NoMessage
INVARIANTS WorkerTypeOK FinishedIsDrained CompletedMeansCommitted CountsNeverAhead
PROPERTY MessagesEnd
CHECK_DEADLOCK FALSE
