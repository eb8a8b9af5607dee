SPECIFICATION Spec
CONSTANTS
    j1 = j1
    j2 = j2
    j3 = j3
    j4 = j4
    JobIds = {j1, j2, j3, j4}
    Entities = {"orgunit", "role", "employee"}
    EntityOf <- EntityOfJob
    MaxJobs = 3
INVARIANTS
    SortTypeOK
    RefusedMeansCircular
    OrderIsRight
CHECK_DEADLOCK FALSE
