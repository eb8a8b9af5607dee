SPECIFICATION FairSpec
CONSTANTS
    j1 = j1
    j2 = j2
    j3 = j3
    run1 = run1
    run2 = run2
    c1 = c1
    c2 = c2
    JobIds = {j1, j2, j3}
    Entities = {"orgunit", "employee"}
    EntityOf <- EntityOfJob
    Dependencies <- EmployeeNeedsUnit
    Registered = {"orgunit", "employee"}
    Missing = {j3}
    Runners = {run1}
    Clients = {c1}
    MaxRequests = 2
    MaxStaleReads = 0
    None = None
PROPERTY SessionRuns
CHECK_DEADLOCK FALSE
