------------------------- MODULE CommitRequestProofs -------------------------
(***************************************************************************)
(* Proofs about CommitRequest: an API request or an execution that commits *)
(* a job is one use of the commit engine, so what is proved of the engine  *)
(* holds of it; and if callers do not overlap, what the job and its event  *)
(* report is what became of the rows.                                      *)
(***************************************************************************)
EXTENDS CommitRequest, CommitBatchProofs

(* A step of a caller is a step of the engine, or none. *)
LEMMA RequestStepIsEngineStep ==
  ASSUME [RequestNext]_requestVars
  PROVE  [Next]_vars
<1>1. ASSUME NEW q \in Runs, CallerStep(q)
      PROVE  [Next]_vars
  BY <1>1 DEF CallerStep, ReadJob, MarkCommitting, EnqueueThrows, OpenBatch,
              CommitRows, WriteResult, EmitEvent, Next
<1>2. ASSUME NEW q \in Runs, BatchFails(q) \/ UpdateThrows(q) \/ CallerDies(q)
      PROVE  [Next]_vars
  BY <1>2 DEF BatchFails, UpdateThrows, CallerDies, Next
<1>3. CASE OtherWriters
  BY <1>3 DEF OtherWriters, Next
<1>4. CASE UNCHANGED requestVars
  BY <1>4 DEF requestVars
<1> QED
  BY <1>1, <1>2, <1>3, <1>4 DEF RequestNext

(* The callers implement the engine: everything proved of the engine's        *)
(* behaviours holds of theirs, however they overlap (commitBatch.js:186).     *)
THEOREM RequestIsEngine == RequestSpec => Spec
<1>1. RequestInit => Init
  BY DEF RequestInit
<1>2. [RequestNext]_requestVars => [Next]_vars
  BY RequestStepIsEngineStep
<1> QED
  BY <1>1, <1>2, PTL DEF RequestSpec, Spec

(* However requests and executions overlap, fail and die, no row is reported *)
(* "committed" for which there is no document.                               *)
THEOREM RequestReportsAreBacked == RequestSpec => []CommittedRowHasEntity
BY RequestIsEngine, ReportsAreBacked, PTL

-----------------------------------------------------------------------------
(* The report. *)

LEMMA TallyType ==
  ASSUME TypeOK, NEW q \in Runs
  PROVE  Tally(q) \in Counts /\ FinalStatus(q) \in Terminal
<1>1. ValidCount \in Nat
  BY RowsCount, CommitBatchAssumption DEF ValidCount
<1>2. Skipped(q) \in Nat
  BY <1>1 DEF Skipped, TypeOK
<1> QED
  BY <1>2 DEF Tally, Counts, FinalStatus, Terminal, TypeOK

(* The job document, its callers and the events keep their shape, however *)
(* the callers overlap.                                                   *)
THEOREM RequestTypeCorrect == RequestSpec => []RequestTypeOK
<1>1. RequestInit => RequestTypeOK
  BY DEF RequestInit, RequestTypeOK, Counts, Step
<1>2. TypeOK /\ RequestTypeOK /\ [RequestNext]_requestVars => RequestTypeOK'
  <2> SUFFICES ASSUME TypeOK, RequestTypeOK, [RequestNext]_requestVars
               PROVE  RequestTypeOK'
    OBVIOUS
  <2> USE DEF RequestTypeOK, jobDoc, Step
  <2>1. ASSUME NEW q \in Runs, ReadJob(q) \/ MarkCommitting(q) \/ EnqueueThrows(q)
                               \/ OpenBatch(q) \/ CommitRows(q)
        PROVE  RequestTypeOK'
    BY <2>1 DEF ReadJob, MarkCommitting, EnqueueThrows, OpenBatch, CommitRows
  <2>2. ASSUME NEW q \in Runs, WriteResult(q) \/ EmitEvent(q)
        PROVE  RequestTypeOK'
    BY <2>2, TallyType DEF WriteResult, EmitEvent
  <2>3. ASSUME NEW q \in Runs, BatchFails(q) \/ UpdateThrows(q) \/ CallerDies(q)
        PROVE  RequestTypeOK'
    BY <2>3, TallyType DEF BatchFails, UpdateThrows, CallerDies
  <2>4. CASE OtherWriters \/ UNCHANGED requestVars
    BY <2>4 DEF OtherWriters, requestVars
  <2> QED
    BY <2>1, <2>2, <2>3, <2>4 DEF RequestNext, CallerStep
<1> QED
  BY <1>1, <1>2, TypeCorrect, RequestIsEngine, PTL DEF Spec, RequestSpec

-----------------------------------------------------------------------------
(* Callers that do not overlap. *)

\* No row has been touched and no caller has come to commitBatch.
Untouched ==
    /\ \A x \in Rows : commitStatus[x] = "pending"
    /\ \A q \in Runs : pc[q] = "idle"

\* Only one caller ever gets to commitBatch: the status turns the others away, and
\* it is never set back.
Turns ==
    /\ \A p, q \in Runs : AtWork(p) /\ AtWork(q) => p = q
    /\ \A p, q \in Runs : pc[p] # "idle" /\ pc[q] # "idle" => p = q
    /\ \A q \in Runs :
         /\ pc[q] = "idle" => batch[q] = {}
         /\ Active(q) => step[q] = "batch"
         /\ step[q] = "mark" => jobStatus = "validated"
         /\ step[q] \in {"enqueue", "batch"} => jobStatus = "committing"
         /\ step[q] = "emit" => pc[q] = "done"
         /\ step[q] = "batch" /\ pc[q] = "idle" => Untouched
    /\ jobStatus = "validated" => Untouched

\* What that caller has counted is what has become of the rows ...
TallyInv ==
    \A q \in Runs : pc[q] # "idle" =>
        /\ committed[q] = Cardinality(Settled("committed"))
        /\ failed[q] = Cardinality(Settled("failed"))

\* ... and what it writes into the job and tells in the event.
ReportedInv ==
    /\ jobStatus \in Terminal =>
         \E q \in Runs : pc[q] = "done" /\ jobStatus = FinalStatus(q) /\ counts = Tally(q)
    /\ \A q \in Runs : step[q] = "emit" =>
         jobStatus = FinalStatus(q) /\ counts = Tally(q)
    /\ EventsAgreeWithJob
    /\ events # {} => jobStatus \in Terminal

CallersInv == Turns /\ DrainInv /\ TallyInv /\ ReportedInv

LEMMA CallersInit ==
  ASSUME RequestInit
  PROVE  CallersInv
<1>1. Turns
  BY DEF RequestInit, Init, Turns, Untouched, AtWork, Active
<1>2. TallyInv
  BY DEF RequestInit, Init, TallyInv
<1>3. ReportedInv
  BY DEF RequestInit, ReportedInv, EventsAgreeWithJob, Terminal
<1> QED
  BY <1>1, <1>2, <1>3, DrainInvInit DEF RequestInit, CallersInv

(* The caller that is in commitBatch, or about to call it, is alone there. *)
LEMMA CallerIsAlone ==
  ASSUME Turns, NEW q \in Runs, step[q] = "batch"
  PROVE  Alone(q) /\ \A r \in Runs \ {q} : pc[r] = "idle"
BY DEF Turns, Untouched, Alone, Active

(* Steps outside commitBatch. *)
LEMMA TurnsOutside ==
  ASSUME ~Overlapping, RequestTypeOK, Turns, NEW q \in Runs, UNCHANGED vars,
         ReadJob(q) \/ MarkCommitting(q) \/ EnqueueThrows(q) \/ WriteResult(q)
           \/ EmitEvent(q) \/ UpdateThrows(q) \/ (CallerDies(q) /\ ~Active(q))
  PROVE  Turns'
<1> USE DEF Turns, Untouched, AtWork, Active, RequestTypeOK, jobDoc, vars, jobVars, cursorVars
<1>1. CASE ReadJob(q)
  BY <1>1 DEF ReadJob
<1>2. CASE MarkCommitting(q)
  BY <1>2 DEF MarkCommitting
<1>3. CASE EnqueueThrows(q)
  BY <1>3 DEF EnqueueThrows
<1>4. CASE WriteResult(q)
  BY <1>4 DEF WriteResult, FinalStatus
<1>5. CASE EmitEvent(q)
  BY <1>5 DEF EmitEvent
<1>6. CASE UpdateThrows(q)
  <2>1. step' = [step EXCEPT ![q] = "threw"] /\ step[q] \in {"mark", "batch"}
    BY <1>6 DEF UpdateThrows
  <2>2. jobStatus' \in {jobStatus, "committing", FinalStatus(q)} /\ ~Active(q)
    BY <1>6 DEF UpdateThrows
  <2>3. FinalStatus(q) # "validated"
    BY DEF FinalStatus
  <2>4. /\ step'[q] = "threw"
        /\ \A r \in Runs \ {q} : ~AtWork(r) /\ step'[r] = step[r]
    BY <2>1
  <2>5. jobStatus' = "validated" => Untouched
    BY <2>2, <2>3
  <2> QED
    BY <2>2, <2>4, <2>5
<1>7. CASE CallerDies(q) /\ ~Active(q)
  BY <1>7 DEF CallerDies
<1> QED
  BY <1>1, <1>2, <1>3, <1>4, <1>5, <1>6, <1>7

(* Steps of commitBatch, or its end by a failed call or a death. *)
LEMMA TurnsInside ==
  ASSUME TypeOK, TypeOK', RequestTypeOK, Turns, NEW q \in Runs, step[q] = "batch",
         UNCHANGED jobDoc,
         \/ UNCHANGED step /\ (CallBatch(q) \/ BatchStep(q))
         \/ /\ Stop(q) /\ UNCHANGED commitStatus
            /\ \E s \in {"threw", "dead"} : step' = [step EXCEPT ![q] = s]
  PROVE  Turns'
<1> USE DEF AtWork, RequestTypeOK, jobDoc
<1>1. /\ \A r \in Runs \ {q} : pc[r] = "idle" /\ batch[r] = {}
      /\ \A r \in Runs \ {q} : pc'[r] = "idle" /\ batch'[r] = {}
  <2>1. Alone(q) /\ \A r \in Runs \ {q} : pc[r] = "idle"
    BY CallerIsAlone
  <2>2. ASSUME CallBatch(q) \/ Stop(q), NEW r \in Runs \ {q}
        PROVE  pc'[r] = pc[r] /\ batch'[r] = batch[r]
    BY <2>2 DEF CallBatch, Stop, TypeOK
  <2> QED
    BY <2>1, <2>2, BatchStepMoves DEF Alone
<1>2. jobStatus' = "committing" /\ \A r \in Runs \ {q} : ~AtWork(r)
  BY DEF Turns
<1>3. CASE UNCHANGED step /\ (CallBatch(q) \/ BatchStep(q))
  <2>1. pc'[q] # "idle"
    BY <1>3, BatchStepMoves DEF CallBatch, TypeOK
  <2> QED
    BY <1>1, <1>2, <1>3, <2>1 DEF Turns, Active
<1>4. ASSUME Stop(q), NEW s \in {"threw", "dead"}, step' = [step EXCEPT ![q] = s]
      PROVE  Turns'
  <2>1. pc'[q] = "idle" /\ batch'[q] = {}
    BY <1>4 DEF Stop, TypeOK
  <2> QED
    BY <1>1, <1>2, <1>4, <2>1 DEF Turns, Active
<1> QED
  BY <1>3, <1>4

(* What a step of commitBatch counts is what it settles. *)
LEMMA TallyInside ==
  ASSUME TypeOK, TypeOK', Turns, DrainInv, TallyInv, NEW q \in Runs, step[q] = "batch",
         (pc[q] = "idle" /\ CallBatch(q)) \/ BatchStep(q)
           \/ (Stop(q) /\ UNCHANGED commitStatus)
  PROVE  TallyInv' /\ DrainInv'
<1>1. Alone(q) /\ \A r \in Runs \ {q} : pc[r] = "idle"
  BY CallerIsAlone
<1>2. DrainInv'
  BY <1>1, AloneDrains
<1>3. CASE Stop(q)
  <2>1. \A r \in Runs : pc'[r] = "idle"
    BY <1>1, <1>3 DEF Stop, Alone, TypeOK
  <2> QED
    BY <1>2, <2>1 DEF TallyInv
<1>4. CASE CallBatch(q) /\ pc[q] = "idle"
  <2>1. \A x \in Rows : commitStatus'[x] = "pending"
    BY <1>4 DEF Turns, Untouched, CallBatch, jobVars
  <2>2. \A s \in Outcomes : Settled(s)' = {}
    BY <2>1, CommitBatchAssumption DEF Settled, Outcomes
  <2>3. /\ committed'[q] = 0 /\ failed'[q] = 0
        /\ \A r \in Runs \ {q} : pc'[r] = "idle"
    BY <1>1, <1>4 DEF CallBatch, Alone, TypeOK
  <2> QED
    BY <1>2, <2>2, <2>3, FS_EmptySet DEF TallyInv, Outcomes
<1>5. CASE BatchStep(q)
  <2>1. /\ committed'[q] - committed[q] =
             Cardinality(Settled("committed")') - Cardinality(Settled("committed"))
        /\ failed'[q] - failed[q] =
             Cardinality(Settled("failed")') - Cardinality(Settled("failed"))
    BY <1>1, <1>5, BatchStepCounts DEF DrainInv, Drains
  <2>2. /\ committed[q] = Cardinality(Settled("committed"))
        /\ failed[q] = Cardinality(Settled("failed"))
    BY <1>5, BatchStepMoves DEF TallyInv, Active
  <2>3. /\ committed'[q] \in Nat /\ failed'[q] \in Nat
        /\ Cardinality(Settled("committed")) \in Nat /\ Cardinality(Settled("failed")) \in Nat
        /\ Cardinality(Settled("committed")') \in Nat /\ Cardinality(Settled("failed")') \in Nat
    BY SettledCount DEF TypeOK, Outcomes
  <2>4. \A r \in Runs \ {q} : pc'[r] = "idle"
    BY <1>1, <1>5, BatchStepMoves DEF Alone
  <2> QED
    BY <1>2, <2>1, <2>2, <2>3, <2>4 DEF TallyInv
<1> QED
  BY <1>3, <1>4, <1>5

\* What a caller does outside commitBatch, inside, and what others do.
Outside(q) ==
    /\ UNCHANGED vars
    /\ \/ ReadJob(q) \/ MarkCommitting(q) \/ EnqueueThrows(q) \/ WriteResult(q)
       \/ EmitEvent(q) \/ UpdateThrows(q) \/ (CallerDies(q) /\ ~Active(q))

Inside(q) ==
    /\ step[q] = "batch" /\ UNCHANGED <<jobDoc, events>>
    /\ \/ UNCHANGED step /\ ((pc[q] = "idle" /\ CallBatch(q)) \/ BatchStep(q))
       \/ /\ Stop(q) /\ UNCHANGED commitStatus
          /\ \E s \in {"threw", "dead"} : step' = [step EXCEPT ![q] = s]

Elsewhere ==
    /\ UNCHANGED <<jobDoc, step, events>>
    /\ (\E k \in Keys : ForeignInsert(k)) \/ Election \/ UNCHANGED vars

LEMMA RequestSteps ==
  ASSUME Turns, [RequestNext]_requestVars
  PROVE  Elsewhere \/ \E q \in Runs : Outside(q) \/ Inside(q)
<1>1. ASSUME NEW q \in Runs, CallerStep(q)
      PROVE  Outside(q) \/ Inside(q)
  BY <1>1 DEF CallerStep, Outside, Inside, ReadJob, MarkCommitting, EnqueueThrows, OpenBatch,
              CommitRows, WriteResult, EmitEvent
<1>2. ASSUME NEW q \in Runs, BatchFails(q)
      PROVE  Inside(q)
  BY <1>2 DEF BatchFails, BatchThrows, Inside, jobVars
<1>3. ASSUME NEW q \in Runs, UpdateThrows(q)
      PROVE  Outside(q)
  BY <1>3 DEF UpdateThrows, Outside
<1>4. ASSUME NEW q \in Runs, CallerDies(q)
      PROVE  Outside(q) \/ Inside(q)
  <2>1. CASE Die(q)
    BY <1>4, <2>1 DEF CallerDies, Die, Inside, jobVars, Turns
  <2>2. CASE ~Active(q) /\ UNCHANGED vars
    BY <1>4, <2>2 DEF Outside
  <2> QED
    BY <1>4, <2>1, <2>2 DEF CallerDies
<1>5. CASE OtherWriters \/ UNCHANGED requestVars
  BY <1>5 DEF OtherWriters, requestVars, Elsewhere
<1> QED
  BY <1>1, <1>2, <1>3, <1>4, <1>5 DEF RequestNext

(* The report is written once, by the caller that has counted the rows. *)
LEMMA ReportedStep ==
  ASSUME TypeOK, TypeOK', RequestTypeOK, Turns, ReportedInv,
         Elsewhere \/ \E q \in Runs : Outside(q) \/ Inside(q)
  PROVE  ReportedInv'
<1>1. \A q \in Runs : FinalStatus(q) \in Terminal
  BY TallyType
<1>2. ASSUME UNCHANGED <<committed, failed>>
      PROVE  \A q \in Runs : FinalStatus(q)' = FinalStatus(q) /\ Tally(q)' = Tally(q)
  BY <1>2 DEF FinalStatus, Tally, Skipped
<1>3. ASSUME NEW q \in Runs, Inside(q)
      PROVE  ReportedInv'
  <2>1. jobStatus = "committing" /\ UNCHANGED <<jobStatus, events>>
    BY <1>3 DEF Inside, Turns, jobDoc
  <2>2. \A r \in Runs : step'[r] # "emit"
    <3>1. \A r \in Runs : step[r] # "emit"
      BY <1>1, <2>1 DEF ReportedInv, Terminal
    <3> QED
      BY <1>3, <3>1 DEF Inside, RequestTypeOK
  <2>3. events = {}
    BY <2>1 DEF ReportedInv, Terminal
  <2> QED
    BY <2>1, <2>2, <2>3 DEF ReportedInv, EventsAgreeWithJob, Terminal
<1>4. CASE Elsewhere
  <2>1. UNCHANGED <<pc, committed, failed, jobStatus, counts, step, events>>
    BY <1>4 DEF Elsewhere, jobDoc, ForeignInsert, Election, vars, tallyVars
  <2> QED
    BY <1>2, <2>1 DEF ReportedInv, EventsAgreeWithJob
<1>5. ASSUME NEW q \in Runs, Outside(q)
      PROVE  ReportedInv'
  <2>1. /\ UNCHANGED <<pc, committed, failed>>
        /\ \A r \in Runs : FinalStatus(r)' = FinalStatus(r) /\ Tally(r)' = Tally(r)
    BY <1>2, <1>5 DEF Outside, vars, tallyVars
  <2>2. CASE jobStatus' = FinalStatus(q) /\ counts' = Tally(q) /\ pc[q] = "done"
             /\ step[q] = "batch" /\ UNCHANGED events
    <3>1. events = {} /\ \A r \in Runs \ {q} : step[r] # "emit"
      BY <2>2 DEF ReportedInv, Turns, Terminal, AtWork
    <3>2. \A r \in Runs \ {q} : step'[r] # "emit"
      <4>1. \A r \in Runs \ {q} : step'[r] = step[r]
        BY <1>5, <2>2 DEF Outside, RequestTypeOK, ReadJob, MarkCommitting, EnqueueThrows,
           WriteResult, EmitEvent, UpdateThrows, CallerDies
      <4> QED
        BY <3>1, <4>1
    <3> QED
      BY <2>1, <2>2, <3>1, <3>2 DEF ReportedInv, EventsAgreeWithJob
  <2>3. CASE UNCHANGED <<jobDoc, events>> /\ \E s \in Step \ {"emit"} : step' = [step EXCEPT ![q] = s]
    BY <2>1, <2>3 DEF ReportedInv, EventsAgreeWithJob, jobDoc, RequestTypeOK
  <2>4. CASE /\ step[q] = "mark" /\ jobStatus' \in {jobStatus, "committing"} /\ UNCHANGED events
             /\ \E s \in Step \ {"emit"} : step' = [step EXCEPT ![q] = s]
    <3>1. jobStatus' \notin Terminal /\ events = {}
      BY <2>4 DEF Turns, ReportedInv, Terminal
    <3>2. \A r \in Runs : step[r] # "emit"
      BY <1>1, <2>4 DEF ReportedInv, Turns, Terminal
    <3>3. \A r \in Runs : step'[r] # "emit"
      BY <2>4, <3>2 DEF RequestTypeOK
    <3> QED
      BY <2>4, <3>1, <3>3 DEF ReportedInv, EventsAgreeWithJob
  <2>5. CASE EmitEvent(q)
    <3>1. /\ jobStatus = FinalStatus(q) /\ counts = Tally(q) /\ jobStatus \in Terminal
      BY <1>1, <2>5 DEF EmitEvent, ReportedInv
    <3>2. events' \subseteq events \cup {[status |-> jobStatus, counts |-> counts]}
      BY <2>5, <3>1 DEF EmitEvent
    <3>3. \A r \in Runs : step'[r] = "emit" => step[r] = "emit"
      BY <2>5 DEF EmitEvent, RequestTypeOK
    <3> QED
      BY <2>1, <2>5, <3>1, <3>2, <3>3 DEF EmitEvent, ReportedInv, EventsAgreeWithJob, jobDoc
  <2> QED
    BY <1>5, <2>2, <2>3, <2>4, <2>5
       DEF Outside, ReadJob, MarkCommitting, EnqueueThrows, WriteResult, UpdateThrows,
           CallerDies, jobDoc, Step
<1> QED
  BY <1>3, <1>4, <1>5

(* CallersInv is inductive while callers do not overlap. *)
LEMMA CallersStep ==
  ASSUME ~Overlapping, TypeOK, TypeOK', RequestTypeOK, CallersInv, [RequestNext]_requestVars
  PROVE  CallersInv'
<1> USE DEF CallersInv
<1>1. Elsewhere \/ \E q \in Runs : Outside(q) \/ Inside(q)
  BY RequestSteps
<1>2. ReportedInv'
  BY <1>1, ReportedStep
<1>3. CASE Elsewhere
  <2>1. UNCHANGED <<commitStatus, pc, batch, committed, failed, jobStatus, step>>
    BY <1>3 DEF Elsewhere, jobDoc, ForeignInsert, Election, vars, jobVars, cursorVars, tallyVars
  <2>2. Turns'
    BY <2>1 DEF Turns, Untouched, AtWork, Active
  <2>3. TallyInv'
    BY <2>1 DEF TallyInv, Settled
  <2>4. DrainInv'
    BY <1>3, OthersDrain DEF Elsewhere
  <2> QED
    BY <1>2, <2>2, <2>3, <2>4
<1>4. ASSUME NEW q \in Runs, Outside(q)
      PROVE  CallersInv'
  <2>1. Turns'
    BY <1>4, TurnsOutside DEF Outside
  <2>2. UNCHANGED vars
    BY <1>4 DEF Outside
  <2>3. DrainInv'
    BY <2>2, OthersDrain
  <2>4. TallyInv'
    BY <2>2 DEF TallyInv, Settled, vars, jobVars, cursorVars, tallyVars
  <2> QED
    BY <1>2, <2>1, <2>3, <2>4
<1>5. ASSUME NEW q \in Runs, Inside(q)
      PROVE  CallersInv'
  <2>1. Turns'
    BY <1>5, TurnsInside DEF Inside, jobDoc
  <2>2. TallyInv' /\ DrainInv'
    BY <1>5, TallyInside DEF Inside
  <2> QED
    BY <1>2, <2>1, <2>2
<1> QED
  BY <1>1, <1>3, <1>4, <1>5

LEMMA CallersInvariant ==
  ASSUME ~Overlapping
  PROVE  RequestSpec => []CallersInv
<1>1. RequestInit => CallersInv
  BY CallersInit
<1>2. TypeOK /\ TypeOK' /\ RequestTypeOK /\ CallersInv /\ [RequestNext]_requestVars
      => CallersInv'
  BY CallersStep
<1> QED
  BY <1>1, <1>2, TypeCorrect, RequestTypeCorrect, RequestIsEngine, PTL DEF Spec, RequestSpec

\* When the job is finished every valid row is settled, one way or the other.
LEMMA FinishedIsSettled ==
  ASSUME TypeOK, RequestTypeOK, CallersInv, jobStatus \in Terminal
  PROVE  \E q \in Runs :
           /\ jobStatus = FinalStatus(q) /\ counts = Tally(q)
           /\ committed[q] = Cardinality(RowsReported("committed"))
           /\ failed[q] = Cardinality(RowsReported("failed"))
           /\ committed[q] + failed[q] = ValidCount
<1>1. PICK q \in Runs : pc[q] = "done" /\ jobStatus = FinalStatus(q) /\ counts = Tally(q)
  BY DEF CallersInv, ReportedInv
<1>2. \A r \in Runs : batch[r] = {}
  BY <1>1 DEF CallersInv, Turns, DrainInv, Drains
<1>3. Selected = {}
  <2>1. Limit = 0 /\ ahead[q] = {} /\ batch[q] = {}
    BY <1>1, CommitRequestAssumption DEF CallersInv, DrainInv, Drains
  <2> QED
    BY <1>1, <2>1 DEF CallersInv, DrainInv, Drains
<1>4. /\ Settled("committed") = RowsReported("committed")
      /\ Settled("failed") = RowsReported("failed")
  BY <1>2 DEF Settled, RowsReported
<1>5. /\ Valid = Settled("committed") \cup Settled("failed")
      /\ Settled("committed") \cap Settled("failed") = {}
  BY <1>2, <1>3, CommitBatchAssumption DEF Settled, Selected, TypeOK, Status
<1>6. ValidCount = Cardinality(Settled("committed")) + Cardinality(Settled("failed"))
  <2>1. IsFiniteSet(Settled("committed")) /\ IsFiniteSet(Settled("failed"))
    BY SettledCount DEF Outcomes
  <2>2. Cardinality(Settled("committed") \cap Settled("failed")) = 0
    BY <1>5, FS_EmptySet
  <2>3. /\ Cardinality(Settled("committed")) \in Nat /\ Cardinality(Settled("failed")) \in Nat
    BY SettledCount DEF Outcomes
  <2>4. Cardinality(Settled("committed") \cup Settled("failed"))
          = Cardinality(Settled("committed")) + Cardinality(Settled("failed"))
              - Cardinality(Settled("committed") \cap Settled("failed"))
    BY <2>1, FS_Union
  <2> QED
    BY <1>5, <2>2, <2>3, <2>4 DEF ValidCount
<1> QED
  BY <1>1, <1>4, <1>6 DEF CallersInv, TallyInv

(* Once a job is finished the counts its user is shown are the counts of its  *)
(* rows, for any number of rows, callers and failures: another caller cannot  *)
(* take the job over from one that died, so one has counted every row         *)
(* (commitBatch.js:187-193).                                                  *)
THEOREM CountsAreTrue ==
  ASSUME ~Overlapping
  PROVE  RequestSpec => []CountsTruthful
<1>1. ASSUME TypeOK, RequestTypeOK, CallersInv
      PROVE  CountsTruthful
  <2> SUFFICES ASSUME jobStatus \in Terminal
               PROVE  counts = [committed |-> Cardinality(RowsReported("committed")),
                                failed |-> Cardinality(RowsReported("failed")),
                                skipped |-> 0]
    BY DEF CountsTruthful
  <2>1. PICK q \in Runs :
          /\ counts = Tally(q)
          /\ committed[q] = Cardinality(RowsReported("committed"))
          /\ failed[q] = Cardinality(RowsReported("failed"))
          /\ committed[q] + failed[q] = ValidCount
    BY <1>1, FinishedIsSettled
  <2>2. Skipped(q) = 0
    BY <1>1, <2>1 DEF Skipped, TypeOK
  <2> QED
    BY <2>1, <2>2 DEF Tally
<1> QED
  BY <1>1, CallersInvariant, TypeCorrect, RequestTypeCorrect, RequestIsEngine, PTL

(* A job reported "completed" has every valid row committed                   *)
(* (ImportJob.model.js:91).                                                   *)
THEOREM CompletedIsCommitted ==
  ASSUME ~Overlapping
  PROVE  RequestSpec => []CompletedMeansCommitted
<1>1. ASSUME TypeOK, RequestTypeOK, CallersInv, jobStatus = "completed"
      PROVE  Valid = RowsReported("committed")
  <2>1. PICK q \in Runs :
          /\ jobStatus = FinalStatus(q)
          /\ committed[q] = Cardinality(RowsReported("committed"))
          /\ committed[q] + failed[q] = ValidCount
    BY <1>1, FinishedIsSettled DEF Terminal
  <2>2. committed[q] \in Nat /\ failed[q] \in Nat
    BY <1>1 DEF TypeOK
  <2>3. failed[q] = 0
    BY <1>1, <2>1, <2>2 DEF FinalStatus
  <2>4. Cardinality(RowsReported("committed")) = Cardinality(Valid)
    BY <2>1, <2>2, <2>3 DEF ValidCount
  <2>5. IsFiniteSet(Valid) /\ RowsReported("committed") \subseteq Valid
    BY RowsCount, CommitBatchAssumption DEF RowsReported
  <2> QED
    BY <2>4, <2>5, FS_Subset
<1>2. TypeOK /\ RequestTypeOK /\ CallersInv => CompletedMeansCommitted
  BY <1>1 DEF CompletedMeansCommitted
<1> QED
  BY <1>2, CallersInvariant, TypeCorrect, RequestTypeCorrect, RequestIsEngine, PTL

(* No MIGRATION_IMPORT_COMPLETED event ever says anything but what the job    *)
(* says by now (commitBatch.js:195).                                          *)
THEOREM EventsAreTrue ==
  ASSUME ~Overlapping
  PROVE  RequestSpec => []EventsAgreeWithJob
<1>1. CallersInv => EventsAgreeWithJob
  BY DEF CallersInv, ReportedInv
<1> QED
  BY <1>1, CallersInvariant, PTL

(* Once the job is finished nothing more happens to its rows or its report,   *)
(* whoever else asks, fails or dies (commitBatch.js:164).                     *)
THEOREM FinishedStays ==
  ASSUME ~Overlapping
  PROVE  RequestSpec => FinishedIsFinal
<1>1. TypeOK /\ RequestTypeOK /\ CallersInv /\ [RequestNext]_requestVars
      => [(jobStatus \in Terminal) => UNCHANGED outcome]_requestVars
  <2> SUFFICES ASSUME TypeOK, RequestTypeOK, CallersInv, [RequestNext]_requestVars,
                      jobStatus \in Terminal
               PROVE  UNCHANGED outcome
    OBVIOUS
  <2>1. Elsewhere \/ \E q \in Runs : Outside(q) \/ Inside(q)
    BY RequestSteps DEF CallersInv
  <2>2. \A q \in Runs : step[q] \notin {"mark", "enqueue", "batch"}
    BY DEF CallersInv, Turns, Terminal
  <2>3. CASE Elsewhere
    BY <2>3 DEF Elsewhere, ForeignInsert, Election, vars, jobVars, outcome, jobDoc
  <2>4. ASSUME NEW q \in Runs, Outside(q)
        PROVE  UNCHANGED outcome
    BY <2>2, <2>4 DEF Outside, ReadJob, MarkCommitting, EnqueueThrows, WriteResult, EmitEvent,
                      UpdateThrows, CallerDies, vars, jobVars, outcome, jobDoc
  <2> QED
    BY <2>1, <2>2, <2>3, <2>4 DEF Inside
<1> QED
  BY <1>1, CallersInvariant, TypeCorrect, RequestTypeCorrect, RequestIsEngine, PTL
     DEF RequestSpec, FinishedIsFinal

-----------------------------------------------------------------------------
(* The ledger. *)

(* Callers that do not overlap make calls that do not overlap. *)
LEMMA RequestsDoNotOverlap ==
  ASSUME ~Overlapping
  PROVE  RequestSpec => []NoOverlap
<1>1. CallersInv => NoOverlap
  BY DEF CallersInv, Turns, Active, NoOverlap
<1> QED
  BY <1>1, CallersInvariant, PTL

(* However many requests and executions ask, one after another, and whichever *)
(* of them die and wherever, together they write each valid row's document at *)
(* most once and report each row truthfully and finally                       *)
(* (commitBatch.js:147-202, importPipeline.js::stepCommit).                   *)
THEOREM RequestImplementsLedger ==
  ASSUME ~Overlapping, OneProtocol, OwnKeysOnly
  PROVE  RequestSpec => ImplementsLedger
BY RequestIsEngine, RequestsDoNotOverlap, LedgerImplemented, PTL

=============================================================================
