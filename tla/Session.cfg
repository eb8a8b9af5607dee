SPECIFICATION Spec
CONSTANTS
    j1 = j1
    j2 = j2
    j3 = j3
    run1 = run1
    run2 = run2
    c1 = c1
    c2 = c2
    JobIds = {j1, j2, j3}
    Entities = {"orgunit", "employee"}
    EntityOf <- EntityOfJob
    Dependencies <- EmployeeNeedsUnit
    Registered = {"orgunit", "employee"}
    Missing = {j3}
    Runners = {run1, run2}
    Clients = {c1, c2}
    MaxRequests = 3
    MaxStaleReads = 1
    None = None
INVARIANTS
    SessionTypeOK
    LinkedIsListed
    EntriesAgreeWithJobs
    CountsTruthful
    ParentsFirst
    ParentsAreKnown
    ReturnedMeansFinal
SYMMETRY Alike
CHECK_DEADLOCK FALSE
