---------------------------- MODULE CommitWorker ----------------------------
(***************************************************************************)
(* The asynchronous commit, worker/bullmqCommitWorker.js: a BullMQ worker  *)
(* commits a large job in chunks, one call of commitBatch per chunk, until *)
(* a call processes fewer rows than the chunk size.  BullMQ (external)     *)
(* gives a failed message another attempt, and one whose lock expired      *)
(* (its worker died, or only stalled) another delivery.  A run of          *)
(* CommitBatch is one of the worker's slots; Limit is its CHUNK_SIZE.      *)
(***************************************************************************)
EXTENDS CommitBatch

CONSTANTS
    Messages,     \* queued messages for the one import job
    MaxAttempts,  \* defaultJobOptions.attempts
    MaxStalls,    \* BullMQ's maxStalledCount
    LockLoss,     \* may a live worker lose its lock?
    NoMessage     \* a model value outside Messages

ASSUME CommitWorkerAssumption ==
    /\ MaxAttempts \in Nat \ {0}
    /\ MaxStalls \in Nat
    /\ LockLoss \in BOOLEAN
    /\ NoMessage \notin Messages
    /\ Limit > 0

VARIABLES
    jobStatus,  \* the import job's status
    counts,     \* its committedRows, commitFailedRows and skippedRows
    slot,       \* where each slot's processor is
    task,       \* the message each slot is processing
    total,      \* the processor's totalCommitted and totalFailed
    message,    \* BullMQ's state of each message
    holder,     \* the slot that holds each active message's lock
    attempts,   \* failed attempts of each message
    stalls      \* how often each message's lock has expired

jobDoc == <<jobStatus, counts>>
bullVars == <<message, holder, attempts, stalls>>
workerVars == <<vars, jobDoc, slot, task, total, bullVars>>

\* What the user is told of the job and its rows, and what there is of them.
outcome == <<commitStatus, entity, jobStatus, counts>>

Terminal == {"completed", "completed_with_errors"}
Slot == {"idle", "open", "chunk", "final", "return"}
MessageState == {"waiting", "active", "completed", "failed"}
Nothing == [committed |-> 0, failed |-> 0]

\* job.counts.validRows, what validation counted.
ValidCount == Cardinality(Valid)

WorkerInit ==
    /\ Init
    /\ jobStatus = "committing"
    /\ counts = [committed |-> 0, failed |-> 0, skipped |-> 0]
    /\ slot = [q \in Runs |-> "idle"]
    /\ task = [q \in Runs |-> NoMessage]
    /\ total = [q \in Runs |-> Nothing]
    /\ message = [m \in Messages |-> "waiting"]
    /\ holder \in [Messages -> Runs]     \* meaningless until active
    /\ attempts = [m \in Messages |-> 0]
    /\ stalls = [m \in Messages |-> 0]

-----------------------------------------------------------------------------
(* The processor. *)

\* A delivery: the processor reads the job and starts its totals from zero.
Take(q, m) ==
    /\ slot[q] = "idle"
    /\ message[m] = "waiting"
    /\ message' = [message EXCEPT ![m] = "active"]
    /\ holder' = [holder EXCEPT ![m] = q]
    /\ task' = [task EXCEPT ![q] = m]
    /\ total' = [total EXCEPT ![q] = Nothing]
    /\ slot' = [slot EXCEPT ![q] = "open"]
    /\ UNCHANGED <<vars, jobDoc, attempts, stalls>>

OpenChunk(q) ==
    /\ slot[q] = "open"
    /\ CallBatch(q)
    /\ slot' = [slot EXCEPT ![q] = "chunk"]
    /\ UNCHANGED <<jobDoc, task, total, bullVars>>

CommitRows(q) ==
    /\ slot[q] = "chunk"
    /\ BatchStep(q)
    /\ UNCHANGED <<jobDoc, slot, task, total, bullVars>>

Add(t, q) == [committed |-> t.committed + committed[q],
              failed |-> t.failed + failed[q]]

\* Slip: a full chunk ends the loop.
CountChunkOnce(q) ==
    /\ slot[q] = "chunk" /\ pc[q] = "done"
    /\ total' = [total EXCEPT ![q] = Add(@, q)]
    /\ counts' = [counts EXCEPT !.committed = total'[q].committed,
                                !.failed = total'[q].failed]
    /\ slot' = [slot EXCEPT ![q] = IF committed[q] + failed[q] <= Limit
                                   THEN "final" ELSE "open"]
    /\ UNCHANGED <<vars, jobStatus, task, bullVars>>

\* Slip: the running totals are added to the counts instead of replacing them.
CountChunkTwice(q) ==
    /\ slot[q] = "chunk" /\ pc[q] = "done"
    /\ total' = [total EXCEPT ![q] = Add(@, q)]
    /\ counts' = [counts EXCEPT !.committed = @ + total'[q].committed,
                                !.failed = @ + total'[q].failed]
    /\ slot' = [slot EXCEPT ![q] = IF committed[q] + failed[q] < Limit
                                   THEN "final" ELSE "open"]
    /\ UNCHANGED <<vars, jobStatus, task, bullVars>>

\* commitBatch returned: add up, publish the running counts, and go round
\* again unless the chunk was short.
CountChunk(q) ==
    /\ slot[q] = "chunk"
    /\ pc[q] = "done"
    /\ total' = [total EXCEPT ![q] = Add(@, q)]
    /\ counts' = [counts EXCEPT !.committed = total'[q].committed,
                                !.failed = total'[q].failed]
    /\ slot' = [slot EXCEPT ![q] = IF committed[q] + failed[q] < Limit
                                   THEN "final" ELSE "open"]
    /\ UNCHANGED <<vars, jobStatus, task, bullVars>>

\* Slip: rows an earlier attempt failed are forgotten.
SkippedForgotten(q) == 0

Skipped(q) ==
    LET done == total[q].committed + total[q].failed
    IN  IF done < ValidCount THEN ValidCount - done ELSE 0

\* The final update, then an event, whose loss nobody notices.
WriteFinal(q) ==
    /\ slot[q] = "final"
    /\ jobStatus' = IF total[q].failed > 0 \/ Skipped(q) > 0
                    THEN "completed_with_errors" ELSE "completed"
    /\ counts' = [committed |-> total[q].committed, failed |-> total[q].failed,
                  skipped |-> Skipped(q)]
    /\ slot' = [slot EXCEPT ![q] = "return"]
    /\ UNCHANGED <<vars, task, total, bullVars>>

-----------------------------------------------------------------------------
(* BullMQ, as far as the worker relies on it. *)

Leave(q) ==
    /\ slot' = [slot EXCEPT ![q] = "idle"]
    /\ task' = [task EXCEPT ![q] = NoMessage]

\* Only the holder of a message's lock decides what becomes of it.
Holds(q, m) == task[q] = m /\ message[m] = "active" /\ holder[m] = q

Complete(q) ==
    /\ slot[q] = "return"
    /\ Leave(q)
    /\ message' = [m \in Messages |-> IF Holds(q, m) THEN "completed"
                                                     ELSE message[m]]
    /\ UNCHANGED <<vars, jobDoc, total, holder, attempts, stalls>>

\* Slip: one attempt too many.
AttemptFailsLate(q) ==
    /\ StoreFaults
    /\ slot[q] # "idle"
    /\ BatchThrows(q) \/ (~Active(q) /\ UNCHANGED vars)
    /\ Leave(q)
    /\ attempts' = [m \in Messages |-> IF Holds(q, m) THEN attempts[m] + 1
                                                      ELSE attempts[m]]
    /\ message' = [m \in Messages |->
                     IF ~Holds(q, m) THEN message[m]
                     ELSE IF attempts[m] <= MaxAttempts THEN "waiting"
                     ELSE "failed"]
    /\ UNCHANGED <<jobDoc, total, holder, stalls>>

\* The processor rejects: another attempt, if there is one left.
AttemptFails(q) ==
    /\ StoreFaults
    /\ slot[q] # "idle"
    /\ BatchThrows(q) \/ (~Active(q) /\ UNCHANGED vars)
    /\ Leave(q)
    /\ attempts' = [m \in Messages |-> IF Holds(q, m) THEN attempts[m] + 1
                                                      ELSE attempts[m]]
    /\ message' = [m \in Messages |->
                     IF ~Holds(q, m) THEN message[m]
                     ELSE IF attempts[m] + 1 < MaxAttempts THEN "waiting"
                     ELSE "failed"]
    /\ UNCHANGED <<jobDoc, total, holder, stalls>>

WorkerDies(q) ==
    /\ Crashes
    /\ slot[q] # "idle"
    /\ Die(q) \/ (~Active(q) /\ UNCHANGED vars)
    /\ Leave(q)
    /\ UNCHANGED <<jobDoc, total, bullVars>>

\* The lock of an active message expires: its worker is gone, or too slow.
Stalled(m) ==
    /\ message[m] = "active"
    /\ task[holder[m]] # m \/ LockLoss
    /\ stalls' = [stalls EXCEPT ![m] = @ + 1]
    /\ message' = [message EXCEPT ![m] = IF stalls[m] < MaxStalls THEN "waiting"
                                                                  ELSE "failed"]
    /\ UNCHANGED <<vars, jobDoc, slot, task, total, holder, attempts>>

OtherWriters ==
    /\ Election \/ \E k \in Keys : ForeignInsert(k)
    /\ UNCHANGED <<jobDoc, slot, task, total, bullVars>>

-----------------------------------------------------------------------------
WorkerStep(q) ==
    \/ \E m \in Messages : Take(q, m)
    \/ OpenChunk(q)
    \/ CommitRows(q)
    \/ CountChunk(q)
    \/ WriteFinal(q)
    \/ Complete(q)

WorkerNext ==
    \/ \E q \in Runs : WorkerStep(q) \/ AttemptFails(q) \/ WorkerDies(q)
    \/ \E m \in Messages : Stalled(m)
    \/ OtherWriters

WorkerSpec == WorkerInit /\ [][WorkerNext]_workerVars

\* A live worker keeps working and a dead worker's lock expires.
FairWorkerSpec ==
    /\ WorkerSpec
    /\ \A q \in Runs : WF_workerVars(WorkerStep(q))
    /\ \A m \in Messages : WF_workerVars(Stalled(m) /\ task[holder[m]] # m)

-----------------------------------------------------------------------------
(* Properties. *)

\* The shape of the worker's, the job's and the queue's state.
WorkerTypeOK ==
    /\ jobStatus \in {"committing"} \cup Terminal
    /\ counts \in [committed : Nat, failed : Nat, skipped : Nat]
    /\ slot \in [Runs -> Slot]
    /\ task \in [Runs -> Messages \cup {NoMessage}]
    /\ total \in [Runs -> [committed : Nat, failed : Nat]]
    /\ message \in [Messages -> MessageState]
    /\ holder \in [Messages -> Runs]
    /\ attempts \in [Messages -> 0..MaxAttempts]
    /\ stalls \in [Messages -> 0..(MaxStalls + 1)]

\* A finished job has no row left to commit, however its attempts ended
\* (bullmqCommitWorker.js:69-84).
FinishedIsDrained == jobStatus \in Terminal => OpenRows = {}

\* A job reported "completed" has every valid row committed
\* (ImportJob.model.js:91).
CompletedMeansCommitted ==
    jobStatus = "completed" => \A x \in Valid : commitStatus[x] = "committed"

\* The counts published while the job runs never claim a row that has not been
\* processed (bullmqCommitWorker.js:64-67).
CountsNeverAhead ==
    /\ counts.committed <= Cardinality({x \in Valid : commitStatus[x] = "committed"})
    /\ counts.failed <= Cardinality({x \in Valid : commitStatus[x] = "failed"})

\* Every message ends, and one that completes leaves a finished job.
MessagesEnd ==
    \A m \in Messages : <>[](message[m] = "failed"
                              \/ (message[m] = "completed" /\ jobStatus \in Terminal))

=============================================================================
