---------------------------- MODULE CommitRequest ----------------------------
(***************************************************************************)
(* The two callers that commit a whole job in one call of commitBatch:     *)
(* the API request (core/commit/commitBatch.js::commitImportJob) and the   *)
(* last step of a Cloud Run execution (worker/importPipeline.js::          *)
(* stepCommit).  Both read the job, require status "validated", and write  *)
(* the status back unconditionally, so what they read may be stale by the  *)
(* time they write.  A run of CommitBatch is one such caller; its life     *)
(* outside commitBatch is the variable step.                               *)
(***************************************************************************)
EXTENDS CommitBatch

CONSTANTS
    Requests,     \* the runs that are API requests; the others are executions
    Threshold,    \* MIGRATION_SYNC_COMMIT_THRESHOLD of each process
    Overlapping,  \* may a caller start while another is still at work?
    Doomed        \* the runs whose process may die

ASSUME CommitRequestAssumption ==
    /\ Requests \subseteq Runs
    /\ Threshold \in [Runs -> Nat]
    /\ Overlapping \in BOOLEAN
    /\ Doomed \subseteq Runs
    /\ Limit = 0          \* both callers pass limit: null

VARIABLES
    jobStatus,  \* the job's status
    counts,     \* the job's committedRows, commitFailedRows and skippedRows
    step,       \* where each caller is
    events      \* the MIGRATION_IMPORT_COMPLETED events emitted

jobDoc == <<jobStatus, counts>>
requestVars == <<vars, jobDoc, step, events>>

\* What the user is told of the job and its rows, and what there is of them.
outcome == <<commitStatus, entity, jobStatus, counts>>

Terminal == {"completed", "completed_with_errors"}
Counts == [committed : Nat, failed : Nat, skipped : Nat]
Step == {"idle", "mark", "enqueue", "batch", "emit", "answered", "refused",
         "threw", "dead"}

\* A caller between its start and its answer.
AtWork(q) == step[q] \in {"mark", "enqueue", "batch", "emit"}

\* job.counts.validRows, what validation counted.
ValidCount == Cardinality(Valid)

RequestInit ==
    /\ Init
    /\ jobStatus = "validated"
    /\ counts = [committed |-> 0, failed |-> 0, skipped |-> 0]
    /\ step = [q \in Runs |-> "idle"]
    /\ events = {}

-----------------------------------------------------------------------------
\* Slip: only a running commit turns a request away.
ReadJobLoosely(q) ==
    /\ step[q] = "idle"
    /\ Overlapping \/ \A p \in Runs : ~AtWork(p)
    /\ step' = [step EXCEPT ![q] = IF jobStatus # "committing" THEN "mark"
                                                               ELSE "refused"]
    /\ UNCHANGED <<vars, jobDoc, events>>

\* getJob and the status check; an execution skips its step, a request gets 409.
ReadJob(q) ==
    /\ step[q] = "idle"
    /\ Overlapping \/ \A p \in Runs : ~AtWork(p)
    /\ step' = [step EXCEPT ![q] = IF jobStatus = "validated" THEN "mark"
                                                              ELSE "refused"]
    /\ UNCHANGED <<vars, jobDoc, events>>

\* Slip: a job at the threshold is deferred too.
MarkCommittingAtThreshold(q) ==
    /\ step[q] = "mark"
    /\ jobStatus' = "committing"
    /\ step' = [step EXCEPT ![q] =
                  IF q \in Requests /\ ValidCount >= Threshold[q] THEN "enqueue"
                                                               ELSE "batch"]
    /\ UNCHANGED <<vars, counts, events>>

\* Only a request defers a large job to the queue; an execution never does.
MarkCommitting(q) ==
    /\ step[q] = "mark"
    /\ jobStatus' = "committing"
    /\ step' = [step EXCEPT ![q] =
                  IF q \in Requests /\ ValidCount > Threshold[q] THEN "enqueue"
                                                              ELSE "batch"]
    /\ UNCHANGED <<vars, counts, events>>

\* enqueueMigrationCommit calls add on the promise getQueue returns: it throws.
EnqueueThrows(q) ==
    /\ step[q] = "enqueue"
    /\ step' = [step EXCEPT ![q] = "threw"]
    /\ UNCHANGED <<vars, jobDoc, events>>

OpenBatch(q) ==
    /\ step[q] = "batch"
    /\ pc[q] = "idle"
    /\ CallBatch(q)
    /\ UNCHANGED <<jobDoc, step, events>>

CommitRows(q) ==
    /\ step[q] = "batch"
    /\ BatchStep(q)
    /\ UNCHANGED <<jobDoc, step, events>>

\* commitBatch rejects, and nothing between it and the caller's caller catches.
BatchFails(q) ==
    /\ step[q] = "batch"
    /\ BatchThrows(q)
    /\ step' = [step EXCEPT ![q] = "threw"]
    /\ UNCHANGED <<jobDoc, events>>

\* Slip: failed rows count as skipped.
SkippedWithFailed(q) == ValidCount - committed[q]

Skipped(q) ==
    LET done == committed[q] + failed[q]
    IN  IF done < ValidCount THEN ValidCount - done ELSE 0

Tally(q) == [committed |-> committed[q], failed |-> failed[q],
             skipped |-> Skipped(q)]

\* Slip: only skipped rows make it "completed_with_errors".
FinalStatusIgnoresFailed(q) == IF Skipped(q) > 0 THEN "completed_with_errors"
                                                 ELSE "completed"

\* Slip: a commit without a single success gets a status of its own.
FinalStatusAllFailed(q) == IF failed[q] = ValidCount THEN "commit_failed"
                           ELSE IF failed[q] > 0 THEN "completed_with_errors"
                           ELSE "completed"

FinalStatus(q) == IF failed[q] > 0 \/ Skipped(q) > 0
                  THEN "completed_with_errors" ELSE "completed"

\* The final update, from the caller's own tally whatever the job says by now.
WriteResult(q) ==
    /\ step[q] = "batch"
    /\ pc[q] = "done"
    /\ jobStatus' = FinalStatus(q)
    /\ counts' = Tally(q)
    /\ step' = [step EXCEPT ![q] = IF q \in Requests THEN "emit"
                                                     ELSE "answered"]
    /\ UNCHANGED <<vars, events>>

\* Slip: the event always announces success.
EmitEventSuccess(q) ==
    /\ step[q] = "emit"
    /\ events' = events \cup {[status |-> "completed", counts |-> Tally(q)]}
    /\ step' = [step EXCEPT ![q] = "answered"]
    /\ UNCHANGED <<vars, jobDoc>>

\* emitImportCompletedEvent swallows its own errors: the event may be lost.
EmitEvent(q) ==
    /\ step[q] = "emit"
    /\ \/ events' = events \cup {[status |-> FinalStatus(q), counts |-> Tally(q)]}
       \/ StoreFaults /\ UNCHANGED events
    /\ step' = [step EXCEPT ![q] = "answered"]
    /\ UNCHANGED <<vars, jobDoc>>

\* A status update of the caller's own rejects, and may have landed.
UpdateThrows(q) ==
    /\ StoreFaults
    /\ \/ /\ step[q] = "mark"
          /\ jobStatus' \in {jobStatus, "committing"}
          /\ UNCHANGED counts
       \/ /\ step[q] = "batch" /\ pc[q] = "done"
          /\ UNCHANGED jobDoc \/ (jobStatus' = FinalStatus(q) /\ counts' = Tally(q))
    /\ step' = [step EXCEPT ![q] = "threw"]
    /\ UNCHANGED <<vars, events>>

\* The process dies between two awaits, inside commitBatch or outside.
CallerDies(q) ==
    /\ q \in Doomed
    /\ AtWork(q)
    /\ Die(q) \/ (~Active(q) /\ UNCHANGED vars)
    /\ step' = [step EXCEPT ![q] = "dead"]
    /\ UNCHANGED <<jobDoc, events>>

OtherWriters ==
    /\ Election \/ \E k \in Keys : ForeignInsert(k)
    /\ UNCHANGED <<jobDoc, step, events>>

-----------------------------------------------------------------------------
CallerStep(q) ==
    \/ ReadJob(q)
    \/ MarkCommitting(q)
    \/ EnqueueThrows(q)
    \/ OpenBatch(q)
    \/ CommitRows(q)
    \/ WriteResult(q)
    \/ EmitEvent(q)

RequestNext ==
    \/ \E q \in Runs : CallerStep(q) \/ BatchFails(q) \/ UpdateThrows(q)
                                     \/ CallerDies(q)
    \/ OtherWriters

RequestSpec == RequestInit /\ [][RequestNext]_requestVars

\* A live process keeps running, and every user who wants to commit asks.
FairRequestSpec ==
    RequestSpec /\ \A q \in Runs : WF_requestVars(CallerStep(q))

-----------------------------------------------------------------------------
(* Properties. *)

\* The shape of the job document and of its callers.
RequestTypeOK ==
    /\ jobStatus \in {"validated", "committing"} \cup Terminal
    /\ counts \in Counts
    /\ step \in [Runs -> Step]
    /\ \A e \in events : e.status \in Terminal /\ e.counts \in Counts

RowsReported(s) == {x \in Valid : commitStatus[x] = s}

\* The counts the user is shown are the counts of the rows themselves, and
\* nothing is skipped, once the job is finished (commitBatch.js:187-193).
CountsTruthful ==
    jobStatus \in Terminal =>
        counts = [committed |-> Cardinality(RowsReported("committed")),
                  failed |-> Cardinality(RowsReported("failed")),
                  skipped |-> 0]

\* A job reported "completed" has every valid row committed
\* (ImportJob.model.js:91).
CompletedMeansCommitted ==
    jobStatus = "completed" => Valid = RowsReported("committed")

\* An event never says anything but what the finished job says
\* (commitBatch.js:195).
EventsAgreeWithJob ==
    \A e \in events : e.status = jobStatus /\ e.counts = counts

\* Once the job is finished nothing more happens to its rows or to its report:
\* a second request is turned away at the status check (commitBatch.js:164).
FinishedIsFinal ==
    [][(jobStatus \in Terminal) => UNCHANGED outcome]_requestVars

\* However the callers overlap, when they have all answered the job is finished
\* and stays so, with no row left open.
CommitSettles == <>[](jobStatus \in Terminal /\ OpenRows = {})

\* A commit that was begun is finished, by a later request if its own caller
\* died: "resumes from the last persisted status" (docs/ARCHITECTURE.md:78-79),
\* "Crash mid-commit? Re-run" (README.md:65).
BegunIsFinished == jobStatus = "committing" ~> jobStatus \in Terminal

=============================================================================
