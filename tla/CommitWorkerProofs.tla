------------------------- MODULE CommitWorkerProofs -------------------------
(***************************************************************************)
(* Proofs about CommitWorker: the chunked worker is one use of the commit  *)
(* engine among others, so what is proved of the engine holds of it, and   *)
(* as long as one slot at a time has the job it is only finished when it   *)
(* is drained, with counts that are true.                                  *)
(***************************************************************************)
EXTENDS CommitWorker, CommitBatchProofs

(* A step of the worker or of its queue is a step of the engine, or none. *)
LEMMA WorkerStepIsEngineStep ==
  ASSUME [WorkerNext]_workerVars
  PROVE  [Next]_vars
<1>1. ASSUME NEW q \in Runs, WorkerStep(q)
      PROVE  [Next]_vars
  BY <1>1 DEF WorkerStep, Take, OpenChunk, CommitRows, CountChunk, WriteFinal,
              Complete, Next
<1>2. ASSUME NEW q \in Runs, AttemptFails(q) \/ WorkerDies(q)
      PROVE  [Next]_vars
  BY <1>2 DEF AttemptFails, WorkerDies, Next
<1>3. ASSUME NEW m \in Messages, Stalled(m)
      PROVE  [Next]_vars
  BY <1>3 DEF Stalled
<1>4. CASE OtherWriters
  BY <1>4 DEF OtherWriters, Next
<1>5. CASE UNCHANGED workerVars
  BY <1>5 DEF workerVars
<1> QED
  BY <1>1, <1>2, <1>3, <1>4, <1>5 DEF WorkerNext

(* The worker implements the engine: everything proved of the engine's        *)
(* behaviours holds of the worker's, however messages are lost and redelivered *)
(* (bullmqCommitWorker.js:57).                                                 *)
THEOREM WorkerIsEngine == WorkerSpec => Spec
<1>1. WorkerInit => Init
  BY DEF WorkerInit
<1>2. [WorkerNext]_workerVars => [Next]_vars
  BY WorkerStepIsEngineStep
<1> QED
  BY <1>1, <1>2, PTL DEF WorkerSpec, Spec

(* Whatever its attempts, its crashes and its redeliveries, the worker never *)
(* has a row reported "committed" for which there is no document.            *)
THEOREM WorkerReportsAreBacked == WorkerSpec => []CommittedRowHasEntity
BY WorkerIsEngine, ReportsAreBacked, PTL

-----------------------------------------------------------------------------
(* The shape of its state.                                                 *)

\* The queue's counters end where it gives a message up.
AttemptsLeft ==
    \A m \in Messages : message[m] \in {"waiting", "active"} =>
        attempts[m] < MaxAttempts /\ stalls[m] <= MaxStalls

(* The worker's, the job's and the queue's state keep their shape: no message *)
(* gets more attempts or deliveries than BullMQ allows it.                    *)
THEOREM WorkerTypeCorrect == WorkerSpec => []WorkerTypeOK
<1> USE CommitWorkerAssumption
<1>1. WorkerInit => WorkerTypeOK /\ AttemptsLeft
  BY DEF WorkerInit, WorkerTypeOK, AttemptsLeft, Slot, MessageState, Nothing
<1>2. TypeOK /\ WorkerTypeOK /\ AttemptsLeft /\ [WorkerNext]_workerVars
      => WorkerTypeOK' /\ AttemptsLeft'
  <2> SUFFICES ASSUME TypeOK, WorkerTypeOK, AttemptsLeft, [WorkerNext]_workerVars
               PROVE  WorkerTypeOK' /\ AttemptsLeft'
    OBVIOUS
  <2> USE DEF WorkerTypeOK, AttemptsLeft, Slot, MessageState, jobDoc, bullVars
  <2>1. ASSUME NEW q \in Runs, NEW m \in Messages, Take(q, m)
        PROVE  WorkerTypeOK' /\ AttemptsLeft'
    BY <2>1 DEF Take, Nothing
  <2>2. ASSUME NEW q \in Runs, OpenChunk(q) \/ CommitRows(q)
        PROVE  WorkerTypeOK' /\ AttemptsLeft'
    BY <2>2 DEF OpenChunk, CommitRows
  <2>3. ASSUME NEW q \in Runs, CountChunk(q)
        PROVE  WorkerTypeOK' /\ AttemptsLeft'
    <3>1. Add(total[q], q) \in [committed : Nat, failed : Nat]
      BY DEF Add, TypeOK
    <3>2. total' \in [Runs -> [committed : Nat, failed : Nat]]
      BY <2>3, <3>1 DEF CountChunk
    <3>3. total'[q] \in [committed : Nat, failed : Nat]
      BY <3>2
    <3>4. counts' \in [committed : Nat, failed : Nat, skipped : Nat]
      BY <2>3, <3>3 DEF CountChunk
    <3> QED
      BY <2>3, <3>2, <3>4 DEF CountChunk
  <2>4. ASSUME NEW q \in Runs, WriteFinal(q)
        PROVE  WorkerTypeOK' /\ AttemptsLeft'
    <3>1. Skipped(q) \in Nat
      <4>1. ValidCount \in Nat
        BY RowsCount, CommitBatchAssumption DEF ValidCount
      <4> QED
        BY <4>1 DEF Skipped
    <3> QED
      BY <2>4, <3>1 DEF WriteFinal, Terminal
  <2>5. ASSUME NEW q \in Runs, Complete(q)
        PROVE  WorkerTypeOK' /\ AttemptsLeft'
    BY <2>5 DEF Complete, Leave
  <2>6. ASSUME NEW q \in Runs, AttemptFails(q)
        PROVE  WorkerTypeOK' /\ AttemptsLeft'
    BY <2>6 DEF AttemptFails, Leave, Holds
  <2>7. ASSUME NEW q \in Runs, WorkerDies(q)
        PROVE  WorkerTypeOK' /\ AttemptsLeft'
    BY <2>7 DEF WorkerDies, Leave
  <2>8. ASSUME NEW m \in Messages, Stalled(m)
        PROVE  WorkerTypeOK' /\ AttemptsLeft'
    BY <2>8 DEF Stalled
  <2>9. CASE OtherWriters \/ UNCHANGED workerVars
    BY <2>9 DEF OtherWriters, workerVars
  <2> QED
    BY <2>1, <2>2, <2>3, <2>4, <2>5, <2>6, <2>7, <2>8, <2>9
       DEF WorkerNext, WorkerStep
<1> QED
  BY <1>1, <1>2, TypeCorrect, WorkerIsEngine, PTL DEF Spec, WorkerSpec

-----------------------------------------------------------------------------
(* One slot at a time.                                                     *)

\* There is one slot, or there is one message and only the death of its holder
\* makes it lose its lock.
OneSlotAtATime ==
    \/ \A p, q \in Runs : p = q
    \/ ~LockLoss /\ \A m, n \in Messages : m = n

\* A slot is inside commitBatch only when its processor is in a chunk, and it
\* works on a message whose lock it holds.
LockInv ==
    /\ \A q \in Runs : Active(q) => slot[q] = "chunk"
    /\ ~LockLoss => \A q \in Runs : slot[q] # "idle" =>
         task[q] \in Messages /\ Holds(q, task[q])

LEMMA LockInvStep ==
  ASSUME TypeOK, WorkerTypeOK, LockInv, [WorkerNext]_workerVars
  PROVE  LockInv'
<1> USE DEF TypeOK, WorkerTypeOK, LockInv, Active, Holds, Slot, bullVars
<1>1. ASSUME NEW q \in Runs, NEW m \in Messages, Take(q, m)
      PROVE  LockInv'
  BY <1>1 DEF Take, vars
<1>2. ASSUME NEW q \in Runs, OpenChunk(q)
      PROVE  LockInv'
  BY <1>2 DEF OpenChunk, CallBatch
<1>3. ASSUME NEW q \in Runs, CommitRows(q)
      PROVE  LockInv'
  <2>1. \A r \in Runs \ {q} : pc'[r] = pc[r]
    BY <1>3 DEF CommitRows, BatchStep, FetchBatch, RowStep, Reserve, RowWritten,
                RowDuplicate, RowThrows, Link, LinkThrows, Adopt, Reject, TxnCommits,
                TxnAborts, Advance
  <2> QED
    BY <1>3, <2>1 DEF CommitRows
<1>4. ASSUME NEW q \in Runs, CountChunk(q) \/ WriteFinal(q)
      PROVE  LockInv'
  BY <1>4 DEF CountChunk, WriteFinal, vars
<1>5. ASSUME NEW q \in Runs, Complete(q)
      PROVE  LockInv'
  BY <1>5 DEF Complete, Leave, vars
<1>6. ASSUME NEW q \in Runs, AttemptFails(q)
      PROVE  LockInv'
  <2>1. \A r \in Runs : Active(r)' => r # q /\ Active(r)
    BY <1>6 DEF AttemptFails, BatchThrows, Stop, vars
  <2> QED
    BY <1>6, <2>1 DEF AttemptFails, Leave
<1>7. ASSUME NEW q \in Runs, WorkerDies(q)
      PROVE  LockInv'
  <2>1. \A r \in Runs : Active(r)' => r # q /\ Active(r)
    BY <1>7 DEF WorkerDies, Die, Stop, vars
  <2> QED
    BY <1>7, <2>1 DEF WorkerDies, Leave
<1>8. ASSUME NEW m \in Messages, Stalled(m)
      PROVE  LockInv'
  BY <1>8 DEF Stalled, vars
<1>9. CASE OtherWriters \/ UNCHANGED workerVars
  BY <1>9 DEF OtherWriters, Election, ForeignInsert, workerVars, vars
<1> QED
  BY <1>1, <1>2, <1>3, <1>4, <1>5, <1>6, <1>7, <1>8, <1>9 DEF WorkerNext, WorkerStep

(* One slot at a time makes calls that do not overlap. *)
LEMMA SlotsDoNotOverlap ==
  ASSUME OneSlotAtATime
  PROVE  WorkerSpec => []NoOverlap
<1>1. WorkerInit => LockInv
  BY DEF WorkerInit, Init, LockInv, Active
<1>2. TypeOK /\ WorkerTypeOK /\ LockInv /\ [WorkerNext]_workerVars => LockInv'
  BY LockInvStep
<1>3. LockInv => NoOverlap
  BY DEF OneSlotAtATime, LockInv, NoOverlap, Holds
<1> QED
  BY <1>1, <1>2, <1>3, TypeCorrect, WorkerTypeCorrect, WorkerIsEngine, PTL DEF WorkerSpec

(* With any number of workers, one of which has the job at a time, and whichever *)
(* of them die and wherever, the chunks together write each valid row's document *)
(* at most once and report each row truthfully and finally                       *)
(* (bullmqCommitWorker.js:52-71).                                                *)
THEOREM WorkerImplementsLedger ==
  ASSUME OneSlotAtATime, OneProtocol, OwnKeysOnly
  PROVE  WorkerSpec => ImplementsLedger
BY WorkerIsEngine, SlotsDoNotOverlap, LedgerImplemented, PTL

(* While calls do not overlap no row is opened again. *)
LEMMA OpenRowsOnlyClose ==
  ASSUME TypeOK, TypeOK', DrainInv, [Next]_vars
  PROVE  OpenRows' \subseteq OpenRows
<1>0. OpenRows = Selected /\ OpenRows' = Selected'
  BY CommitBatchAssumption DEF TypeOK, Status, OpenRows, ReportOf, Selected
<1>1. ASSUME NEW q \in Runs, NEW x \in Rows, RowStep(q, x)
      PROVE  OpenRows' \subseteq OpenRows
  BY <1>0, <1>1, RowStepSelected
<1>2. CASE UNCHANGED commitStatus
  BY <1>2 DEF OpenRows
<1> QED
  BY <1>1, <1>2 DEF Next, BatchStep, CallBatch, FetchBatch, Die, BatchThrows,
                    ForeignInsert, Election, vars, jobVars

\* The worker leaves its loop, and finishes the job, only when no row is open.
WorkerDrainInv ==
    /\ slot \in [Runs -> Slot]
    /\ FinishedIsDrained
    /\ \A q \in Runs : slot[q] \in {"final", "return"} => OpenRows = {}

(* With any number of workers, one of which has the job at a time, it is only *)
(* finished with no valid row left open, through every crash, failed attempt  *)
(* and redelivery (bullmqCommitWorker.js:56-84).                              *)
THEOREM WorkerDrains ==
  ASSUME OneSlotAtATime
  PROVE  WorkerSpec => []FinishedIsDrained
<1>1. WorkerInit => WorkerDrainInv
  BY DEF WorkerInit, WorkerDrainInv, FinishedIsDrained, Terminal, Slot
<1>2. TypeOK /\ TypeOK' /\ DrainInv /\ ReturnMeansDrained /\ WorkerDrainInv
      /\ [WorkerNext]_workerVars => WorkerDrainInv'
  <2> SUFFICES ASSUME TypeOK, TypeOK', DrainInv, ReturnMeansDrained, WorkerDrainInv,
                      [WorkerNext]_workerVars
               PROVE  WorkerDrainInv'
    OBVIOUS
  <2>0. OpenRows' \subseteq OpenRows
    BY WorkerStepIsEngineStep, OpenRowsOnlyClose
  <2>1. ASSUME NEW q \in Runs, CountChunk(q)
        PROVE  WorkerDrainInv'
    <3>1. CASE committed[q] + failed[q] < Limit
      <4>1. OpenRows = {}
        BY <2>1, <3>1 DEF CountChunk, ReturnMeansDrained
      <4>2. slot' = [slot EXCEPT ![q] = "final"]
        BY <2>1, <3>1 DEF CountChunk
      <4> QED
        BY <2>0, <4>1, <4>2 DEF WorkerDrainInv, FinishedIsDrained, Slot
    <3>2. CASE ~(committed[q] + failed[q] < Limit)
      <4>1. slot' = [slot EXCEPT ![q] = "open"] /\ UNCHANGED jobStatus
        BY <2>1, <3>2 DEF CountChunk
      <4> QED
        BY <2>0, <4>1 DEF WorkerDrainInv, FinishedIsDrained, Slot
    <3> QED
      BY <3>1, <3>2
  <2>2. ASSUME NEW q \in Runs, WriteFinal(q)
        PROVE  WorkerDrainInv'
    <3>1. OpenRows = {}
      BY <2>2 DEF WriteFinal, WorkerDrainInv
    <3> QED
      BY <2>0, <2>2, <3>1 DEF WriteFinal, WorkerDrainInv, FinishedIsDrained, Slot
  <2>3. ASSUME NEW q \in Runs, NEW s \in {"idle", "open", "chunk"},
               slot' = [slot EXCEPT ![q] = s], UNCHANGED jobStatus
        PROVE  WorkerDrainInv'
    BY <2>0, <2>3 DEF WorkerDrainInv, FinishedIsDrained, Slot
  <2>4. ASSUME NEW q \in Runs, WorkerStep(q) \/ AttemptFails(q) \/ WorkerDies(q)
        PROVE  WorkerDrainInv'
    <3>1. ASSUME NEW m \in Messages, Take(q, m)
          PROVE  WorkerDrainInv'
      BY <2>3, <3>1 DEF Take, jobDoc
    <3>2. CASE OpenChunk(q)
      BY <2>3, <3>2 DEF OpenChunk, jobDoc
    <3>3. CASE CommitRows(q)
      BY <2>0, <3>3 DEF CommitRows, jobDoc, WorkerDrainInv, FinishedIsDrained
    <3>4. CASE Complete(q) \/ AttemptFails(q) \/ WorkerDies(q)
      BY <2>3, <3>4 DEF Complete, AttemptFails, WorkerDies, Leave, jobDoc
    <3> QED
      BY <2>1, <2>2, <2>4, <3>1, <3>2, <3>3, <3>4 DEF WorkerStep
  <2>5. ASSUME (\E m \in Messages : Stalled(m)) \/ OtherWriters \/ UNCHANGED workerVars
        PROVE  WorkerDrainInv'
    BY <2>0, <2>5 DEF Stalled, OtherWriters, workerVars, jobDoc, WorkerDrainInv,
                      FinishedIsDrained
  <2> QED
    BY <2>4, <2>5 DEF WorkerNext
<1>3. WorkerDrainInv => FinishedIsDrained
  BY DEF WorkerDrainInv
<1> QED
  BY <1>1, <1>2, <1>3, DrainInvariant, ReturnDrains, TypeCorrect, WorkerIsEngine,
     SlotsDoNotOverlap, PTL DEF Spec, WorkerSpec

-----------------------------------------------------------------------------
(* What the worker reports.                                                *)

(* Rows stay settled, whatever the worker does. *)
LEMMA SettledStay ==
  ASSUME NoOverlap, Emptied, TypeOK, TypeOK', DrainInv, [Next]_vars
  PROVE  /\ \A s \in Outcomes : Settled(s) \subseteq Settled(s)'
         /\ \A s \in Outcomes : Cardinality(Settled(s)) <= Cardinality(Settled(s)')
<1>1. ASSUME NEW q \in Runs, BatchStep(q)
      PROVE  \A s \in Outcomes : Settled(s) \subseteq Settled(s)'
  BY <1>1, BatchStepMoves, ActiveIsAlone, BatchStepCounts DEF DrainInv, Drains
<1>2. ASSUME NEW q \in Runs, CallBatch(q) \/ Die(q) \/ BatchThrows(q)
      PROVE  \A s \in Outcomes : Settled(s) \subseteq Settled(s)'
  BY <1>2, RestSettles DEF CallBatch, Die, BatchThrows, Stop, jobVars, TypeOK
<1>3. ASSUME (\E k \in Keys : ForeignInsert(k)) \/ Election \/ UNCHANGED vars
      PROVE  \A s \in Outcomes : Settled(s) \subseteq Settled(s)'
  BY <1>3, RestSettles DEF ForeignInsert, Election, vars, jobVars, cursorVars
<1>4. \A s \in Outcomes : Settled(s) \subseteq Settled(s)'
  BY <1>1, <1>2, <1>3 DEF Next
<1> QED
  BY <1>4, SettledCount, FS_Subset

\* The rows slot q counts as s while it is in a chunk, and altogether.
InChunk(q) == [committed |-> IF slot[q] = "chunk" THEN committed[q] ELSE 0,
               failed |-> IF slot[q] = "chunk" THEN failed[q] ELSE 0]

\* Whatever is counted is settled, and a job is only "completed" when every row
\* is settled as committed.
CountInv ==
    /\ \A s \in Outcomes : counts[s] <= Cardinality(Settled(s))
    /\ \A q \in Runs, s \in Outcomes : total[q][s] + InChunk(q)[s] <= Cardinality(Settled(s))
    /\ jobStatus = "completed" => Settled("committed") = Valid

(* What a slot does is its own. *)
LEMMA OtherSlots ==
  ASSUME TypeOK, WorkerTypeOK, NEW q \in Runs,
         WorkerStep(q) \/ AttemptFails(q) \/ WorkerDies(q)
  PROVE  \A r \in Runs \ {q} :
            /\ slot'[r] = slot[r] /\ total'[r] = total[r]
            /\ committed'[r] = committed[r] /\ failed'[r] = failed[r]
<1> USE DEF TypeOK, WorkerTypeOK
<1>1. CASE CommitRows(q)
  BY <1>1, BatchStepMoves DEF CommitRows
<1>2. CASE OpenChunk(q)
  BY <1>2 DEF OpenChunk, CallBatch
<1>3. CASE (\E m \in Messages : Take(q, m)) \/ CountChunk(q) \/ WriteFinal(q) \/ Complete(q)
  BY <1>3 DEF Take, CountChunk, WriteFinal, Complete, Leave, vars, tallyVars
<1>4. CASE AttemptFails(q) \/ WorkerDies(q)
  BY <1>4 DEF AttemptFails, WorkerDies, Leave, Die, BatchThrows, Stop, vars, tallyVars
<1> QED
  BY <1>1, <1>2, <1>3, <1>4 DEF WorkerStep

(* CountInv is inductive while calls do not overlap. *)
LEMMA CountInvStep ==
  ASSUME NoOverlap, Emptied, TypeOK, TypeOK', DrainInv, WorkerTypeOK, CountInv,
         [WorkerNext]_workerVars
  PROVE  CountInv'
<1>0. /\ \A s \in Outcomes : Settled(s) \subseteq Settled(s)'
      /\ \A s \in Outcomes : Cardinality(Settled(s)) <= Cardinality(Settled(s)')
      /\ \A s \in Outcomes : Cardinality(Settled(s)) \in Nat /\ Cardinality(Settled(s)') \in Nat
  BY WorkerStepIsEngineStep, SettledStay, SettledCount
<1>1. Settled("committed") = Valid => Settled("committed")' = Valid
  BY <1>0 DEF Settled, Outcomes
<1>2. /\ counts \in [committed : Nat, failed : Nat, skipped : Nat]
      /\ total \in [Runs -> [committed : Nat, failed : Nat]]
      /\ committed \in [Runs -> Nat] /\ failed \in [Runs -> Nat]
      /\ slot \in [Runs -> Slot]
  BY DEF WorkerTypeOK, TypeOK
<1>a. \A q \in Runs, s \in Outcomes : total[q][s] + InChunk(q)[s] \in Nat
  BY <1>2 DEF InChunk, Outcomes
<1>b. ASSUME NEW q \in Runs,
             \A r \in Runs \ {q} :
                /\ slot'[r] = slot[r] /\ total'[r] = total[r]
                /\ committed'[r] = committed[r] /\ failed'[r] = failed[r],
             \A s \in Outcomes : total'[q][s] + InChunk(q)'[s] <= Cardinality(Settled(s)')
      PROVE  \A r \in Runs, s \in Outcomes :
               total'[r][s] + InChunk(r)'[s] <= Cardinality(Settled(s)')
  <2>1. \A r \in Runs \ {q}, s \in Outcomes :
          total'[r][s] + InChunk(r)'[s] = total[r][s] + InChunk(r)[s]
    BY <1>b DEF InChunk
  <2>2. \A r \in Runs \ {q}, s \in Outcomes :
          total'[r][s] + InChunk(r)'[s] <= Cardinality(Settled(s)')
    BY <1>0, <1>a, <2>1 DEF CountInv
  <2> QED
    BY <1>b, <2>2
<1>3. ASSUME NEW q \in Runs, UNCHANGED <<counts, jobStatus>>,
             \A r \in Runs \ {q} :
                /\ slot'[r] = slot[r] /\ total'[r] = total[r]
                /\ committed'[r] = committed[r] /\ failed'[r] = failed[r],
             \A s \in Outcomes : total'[q][s] + InChunk(q)'[s] <= Cardinality(Settled(s)')
      PROVE  CountInv'
  BY <1>0, <1>1, <1>2, <1>3, <1>b DEF CountInv, Outcomes
<1>4. ASSUME NEW q \in Runs, NEW m \in Messages, Take(q, m)
      PROVE  CountInv'
  <2>1. \A s \in Outcomes : total'[q][s] = 0 /\ InChunk(q)'[s] = 0
    BY <1>2, <1>4 DEF Take, Nothing, InChunk, Outcomes
  <2>2. \A r \in Runs \ {q} :
          /\ slot'[r] = slot[r] /\ total'[r] = total[r]
          /\ committed'[r] = committed[r] /\ failed'[r] = failed[r]
    BY <1>4, OtherSlots DEF WorkerStep
  <2>3. \A s \in Outcomes : total'[q][s] + InChunk(q)'[s] <= Cardinality(Settled(s)')
    BY <1>0, <2>1
  <2>4. UNCHANGED <<counts, jobStatus>>
    BY <1>4 DEF Take, jobDoc
  <2> QED
    BY <1>3, <2>2, <2>3, <2>4
<1>5. ASSUME NEW q \in Runs, OpenChunk(q)
      PROVE  CountInv'
  <2>1. \A s \in Outcomes : InChunk(q)'[s] = 0
    BY <1>2, <1>5 DEF OpenChunk, CallBatch, InChunk, Outcomes
  <2>2. \A s \in Outcomes : InChunk(q)[s] = 0 /\ total[q][s] \in Nat
    BY <1>2, <1>5 DEF OpenChunk, InChunk, Outcomes
  <2>3. \A r \in Runs \ {q} :
          /\ slot'[r] = slot[r] /\ total'[r] = total[r]
          /\ committed'[r] = committed[r] /\ failed'[r] = failed[r]
    BY <1>5, OtherSlots DEF WorkerStep
  <2>4. \A s \in Outcomes : total'[q][s] + InChunk(q)'[s] <= Cardinality(Settled(s)')
    BY <1>0, <1>5, <2>1, <2>2 DEF OpenChunk, CountInv
  <2>5. UNCHANGED <<counts, jobStatus>>
    BY <1>5 DEF OpenChunk, jobDoc
  <2> QED
    BY <1>3, <2>3, <2>4, <2>5
<1>6. ASSUME NEW q \in Runs, CommitRows(q)
      PROVE  CountInv'
  <2>1. BatchStep(q) /\ slot[q] = "chunk" /\ slot' = slot /\ total' = total
    BY <1>6 DEF CommitRows
  <2>2. /\ total[q].committed + committed[q] <= Cardinality(Settled("committed"))
        /\ total[q].failed + failed[q] <= Cardinality(Settled("failed"))
    BY <2>1 DEF CountInv, InChunk, Outcomes
  <2>3. /\ committed'[q] - committed[q] =
              Cardinality(Settled("committed")') - Cardinality(Settled("committed"))
        /\ failed'[q] - failed[q] =
              Cardinality(Settled("failed")') - Cardinality(Settled("failed"))
    BY <2>1, BatchStepMoves, ActiveIsAlone, BatchStepCounts DEF DrainInv, Drains
  <2>4. committed'[q] \in Nat /\ failed'[q] \in Nat
    BY DEF TypeOK
  <2>5. /\ total[q].committed + committed'[q] <= Cardinality(Settled("committed")')
        /\ total[q].failed + failed'[q] <= Cardinality(Settled("failed")')
    BY <1>0, <1>2, <2>2, <2>3, <2>4 DEF Outcomes
  <2>6. \A s \in Outcomes : total'[q][s] + InChunk(q)'[s] <= Cardinality(Settled(s)')
    BY <2>1, <2>5 DEF InChunk, Outcomes
  <2> QED
    BY <1>3, <1>6, <2>6, OtherSlots DEF CommitRows, jobDoc, WorkerStep
<1>7. ASSUME NEW q \in Runs, CountChunk(q)
      PROVE  CountInv'
  <2>1. \A s \in Outcomes : total[q][s] + InChunk(q)[s] <= Cardinality(Settled(s))
    BY DEF CountInv
  <2>2. \A s \in Outcomes : total'[q][s] = total[q][s] + InChunk(q)[s]
    BY <1>2, <1>7 DEF CountChunk, Add, InChunk, Outcomes
  <2>3. \A s \in Outcomes : InChunk(q)'[s] = 0 /\ counts'[s] = total'[q][s]
    <3>1. slot'[q] \in {"final", "open"}
      BY <1>2, <1>7 DEF CountChunk
    <3>2. \A s \in Outcomes : InChunk(q)'[s] = 0
      BY <3>1 DEF InChunk, Outcomes
    <3>3. counts'.committed = total'[q].committed /\ counts'.failed = total'[q].failed
      BY <1>2, <1>7 DEF CountChunk
    <3> QED
      BY <3>2, <3>3 DEF Outcomes
  <2>4. \A s \in Outcomes : total'[q][s] \in Nat
    BY <1>2, <2>2 DEF InChunk, Outcomes
  <2>5. \A s \in Outcomes : total'[q][s] <= Cardinality(Settled(s)')
    BY <1>0, <2>1, <2>2, <2>4
  <2>6. \A r \in Runs \ {q} :
          /\ slot'[r] = slot[r] /\ total'[r] = total[r]
          /\ committed'[r] = committed[r] /\ failed'[r] = failed[r]
    BY <1>7, OtherSlots DEF WorkerStep
  <2>7. \A r \in Runs, s \in Outcomes :
          total'[r][s] + InChunk(r)'[s] <= Cardinality(Settled(s)')
    BY <1>b, <2>3, <2>4, <2>5, <2>6
  <2>8. \A s \in Outcomes : counts'[s] <= Cardinality(Settled(s)')
    BY <2>3, <2>5
  <2> QED
    BY <1>1, <1>7, <2>7, <2>8 DEF CountChunk, CountInv
<1>8. ASSUME NEW q \in Runs, WriteFinal(q)
      PROVE  CountInv'
  <2>1. \A s \in Outcomes : total[q][s] + InChunk(q)[s] <= Cardinality(Settled(s))
    BY DEF CountInv
  <2>2. \A s \in Outcomes : InChunk(q)[s] = 0 /\ InChunk(q)'[s] = 0 /\ total[q][s] \in Nat
    BY <1>2, <1>8 DEF WriteFinal, InChunk, Outcomes
  <2>3. \A s \in Outcomes : counts'[s] = total[q][s] /\ total'[q][s] = total[q][s]
    BY <1>8 DEF WriteFinal, Outcomes
  <2>4. \A s \in Outcomes : total[q][s] <= Cardinality(Settled(s)')
    BY <1>0, <2>1, <2>2
  <2>5. jobStatus' = "completed" => Settled("committed")' = Valid
    <3> SUFFICES ASSUME jobStatus' = "completed"
                 PROVE  Settled("committed") = Valid
      BY <1>1
    <3>1. ~(total[q].failed > 0) /\ ~(Skipped(q) > 0)
      BY <1>8 DEF WriteFinal
    <3>2. ValidCount \in Nat /\ IsFiniteSet(Valid)
      BY RowsCount, CommitBatchAssumption DEF ValidCount
    <3>3. total[q].failed = 0 /\ total[q].committed \in Nat
      BY <1>2, <3>1
    <3>4. ValidCount <= total[q].committed
      BY <3>1, <3>2, <3>3 DEF Skipped
    <3>5. total[q].committed <= Cardinality(Settled("committed"))
      BY <2>1, <2>2 DEF Outcomes
    <3>6. Settled("committed") \subseteq Valid
      BY DEF Settled
    <3>7. Cardinality(Valid) <= Cardinality(Settled("committed"))
      BY <1>0, <3>2, <3>3, <3>4, <3>5 DEF ValidCount, Outcomes
    <3>8. Cardinality(Settled("committed")) \in Nat
      BY <1>0 DEF Outcomes
    <3> QED
      BY <3>2, <3>6, <3>7, <3>8, FS_Subset DEF ValidCount
  <2> QED
    BY <1>8, <2>2, <2>3, <2>4, <2>5, <1>b, OtherSlots DEF CountInv, WorkerStep
<1>9. ASSUME NEW q \in Runs, Complete(q) \/ AttemptFails(q) \/ WorkerDies(q)
      PROVE  CountInv'
  <2>1. slot' = [slot EXCEPT ![q] = "idle"] /\ UNCHANGED <<counts, jobStatus, total>>
    BY <1>9 DEF Complete, AttemptFails, WorkerDies, Leave, jobDoc
  <2>2. \A s \in Outcomes : InChunk(q)'[s] = 0 /\ InChunk(q)[s] \in Nat /\ total[q][s] \in Nat
    BY <1>2, <2>1 DEF InChunk, Outcomes
  <2>3. \A s \in Outcomes : total[q][s] + InChunk(q)[s] <= Cardinality(Settled(s))
    BY DEF CountInv
  <2> QED
    BY <1>0, <1>3, <1>9, <2>1, <2>2, <2>3, OtherSlots DEF WorkerStep
<1>10. ASSUME (\E m \in Messages : Stalled(m)) \/ OtherWriters \/ UNCHANGED workerVars
       PROVE  CountInv'
  <2>1. UNCHANGED <<slot, committed, failed, total, counts, jobStatus>>
    BY <1>10 DEF Stalled, OtherWriters, workerVars, vars, jobDoc, tallyVars, Election,
                 ForeignInsert
  <2>2. \A q \in Runs, s \in Outcomes : total[q][s] + InChunk(q)[s] \in Nat
    BY <1>2 DEF InChunk, Outcomes
  <2>3. \A q \in Runs, s \in Outcomes : InChunk(q)'[s] = InChunk(q)[s]
    BY <2>1 DEF InChunk
  <2>4. \A q \in Runs, s \in Outcomes : total[q][s] + InChunk(q)[s] <= Cardinality(Settled(s)')
    BY <1>0, <2>2 DEF CountInv
  <2>5. \A s \in Outcomes : counts[s] <= Cardinality(Settled(s)')
    BY <1>0, <1>2 DEF CountInv, Outcomes
  <2> QED
    BY <1>1, <2>1, <2>3, <2>4, <2>5 DEF CountInv
<1> QED
  BY <1>4, <1>5, <1>6, <1>7, <1>8, <1>9, <1>10 DEF WorkerNext, WorkerStep

(* Whatever is counted is settled. *)
LEMMA CountInvariant ==
  ASSUME OneSlotAtATime
  PROVE  WorkerSpec => []CountInv
<1>1. WorkerInit => CountInv
  <2> SUFFICES ASSUME WorkerInit
               PROVE  CountInv
    OBVIOUS
  <2>1. \A s \in Outcomes : counts[s] = 0
    BY DEF WorkerInit, Outcomes
  <2>2. \A q \in Runs, s \in Outcomes : total[q][s] = 0 /\ InChunk(q)[s] = 0
    BY DEF WorkerInit, InChunk, Outcomes, Nothing
  <2> QED
    BY <2>1, <2>2, SettledCount DEF CountInv, WorkerInit
<1>2. NoOverlap /\ Emptied /\ TypeOK /\ TypeOK' /\ DrainInv /\ WorkerTypeOK /\ CountInv
      /\ [WorkerNext]_workerVars => CountInv'
  BY CountInvStep
<1> QED
  BY <1>1, <1>2, DrainInvariant, AlwaysEmptied, TypeCorrect, WorkerTypeCorrect,
     WorkerIsEngine, SlotsDoNotOverlap, PTL DEF Spec, WorkerSpec

(* With any number of workers, one of which has the job at a time, the count  *)
(* of a row that has not been processed is never published, for any number of *)
(* rows and chunks and through every crash, failed attempt, lost              *)
(* acknowledgement and redelivery (bullmqCommitWorker.js:64-67).              *)
THEOREM WorkerCountsAreTrue ==
  ASSUME OneSlotAtATime
  PROVE  WorkerSpec => []CountsNeverAhead
<1>1. ASSUME CountInv, WorkerTypeOK
      PROVE  CountsNeverAhead
  <2> DEFINE Has(s) == {x \in Valid : commitStatus[x] = s}
  <2>1. ASSUME NEW s \in Outcomes
        PROVE  counts[s] <= Cardinality(Has(s))
    <3>1. Has(s) \in SUBSET Rows
      BY CommitBatchAssumption
    <3>2. IsFiniteSet(Has(s)) /\ Cardinality(Has(s)) \in Nat
      BY <3>1, RowsCount
    <3>3. Settled(s) \subseteq Has(s)
      BY DEF Settled
    <3>4. Cardinality(Settled(s)) <= Cardinality(Has(s))
      BY <3>2, <3>3, FS_Subset
    <3>5. counts[s] <= Cardinality(Settled(s)) /\ counts[s] \in Nat
      BY <1>1 DEF CountInv, WorkerTypeOK, Outcomes
    <3> QED
      BY <3>2, <3>4, <3>5, SettledCount
  <2> QED
    BY <2>1 DEF CountsNeverAhead, Outcomes
<1> QED
  BY <1>1, CountInvariant, WorkerTypeCorrect, PTL

(* With any number of workers, one of which has the job at a time, a job that *)
(* is reported "completed" has every valid row committed, also when earlier   *)
(* attempts have failed rows or died (bullmqCommitWorker.js:69-84).           *)
THEOREM WorkerCompletesTheJob ==
  ASSUME OneSlotAtATime
  PROVE  WorkerSpec => []CompletedMeansCommitted
<1>1. CountInv => CompletedMeansCommitted
  BY DEF CountInv, CompletedMeansCommitted, Settled
<1> QED
  BY <1>1, CountInvariant, PTL

=============================================================================
