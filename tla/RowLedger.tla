------------------------------ MODULE RowLedger ------------------------------
(***************************************************************************)
(* What committing an import promises to its user, row by row: a valid     *)
(* row's business document is created at most once, the row is reported    *)
(* "committed" only if it was created and "failed" only if it was not, and *)
(* a report is final.  Nothing is said of cursors, calls or crashes.       *)
(***************************************************************************)
EXTENDS Naturals

CONSTANTS Rows, Eligible

VARIABLES
    report,   \* "open" until the row's outcome is recorded
    effect    \* how many documents the row has created

ledger == <<report, effect>>

Init ==
    /\ report = [x \in Rows |-> "open"]
    /\ effect = [x \in Rows |-> 0]

Create(x) ==
    /\ report[x] = "open" /\ effect[x] = 0
    /\ effect' = [effect EXCEPT ![x] = 1]
    /\ UNCHANGED report

ReportCommitted(x) ==
    /\ report[x] = "open" /\ effect[x] = 1
    /\ report' = [report EXCEPT ![x] = "committed"]
    /\ UNCHANGED effect

CreateAndReport(x) ==
    /\ report[x] = "open" /\ effect[x] = 0
    /\ effect' = [effect EXCEPT ![x] = 1]
    /\ report' = [report EXCEPT ![x] = "committed"]

ReportFailed(x) ==
    /\ report[x] = "open" /\ effect[x] = 0
    /\ report' = [report EXCEPT ![x] = "failed"]
    /\ UNCHANGED effect

Next == \E x \in Eligible : \/ Create(x)
                            \/ ReportCommitted(x)
                            \/ CreateAndReport(x)
                            \/ ReportFailed(x)

Spec == Init /\ [][Next]_ledger

=============================================================================
