------------------------- MODULE MCMigrationSession -------------------------
(* Instances of MigrationSession for TLC: employees refer to org units. *)
EXTENDS MigrationSession, TLC

CONSTANTS j1, j2, j3, run1, run2, c1, c2

EntityOfJob == [j \in JobIds |-> IF j = j2 THEN "orgunit" ELSE "employee"]
Alike == Permutations(Runners) \cup Permutations(Clients)
EmployeeNeedsUnit == ("orgunit" :> {}) @@ ("employee" :> {"orgunit"})

=============================================================================
