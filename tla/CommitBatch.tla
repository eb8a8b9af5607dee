----------------------------- MODULE CommitBatch -----------------------------
(***************************************************************************)
(* The shared commit engine, core/commit/commitBatch.js::commitBatch.      *)
(*                                                                         *)
(* A run q is one process that calls commitBatch for the same import job   *)
(* (an API request, a Cloud Run execution, a BullMQ attempt).  A call      *)
(* opens a cursor over the valid rows still "pending" or "committing",     *)
(* in rowIndex order, and writes each to the business collection through   *)
(* the target's commitRow, either inside a transaction or with the         *)
(* reserve / write / link protocol.  Every await is a step boundary: other *)
(* runs interleave there and the process can die there.  The documents of  *)
(* a cursor come in batches, so the commitStatus a run acts on is the one  *)
(* of the moment its batch was read, not of the moment it is used.         *)
(*                                                                         *)
(* A definition commented "Slip" is not part of the model.  It is a        *)
(* mistake the code could have made at the definition that follows it; in  *)
(* its place, it breaks a property (see the README).                       *)
(***************************************************************************)
EXTENDS Naturals, FiniteSets

CONSTANTS
    N,                    \* number of staged rows of the job
    Keys,                 \* values of the target's identity field
    Key,                  \* identity value of each row
    Valid,                \* rows whose validationStatus is "valid"
    Refused,              \* rows commitRow rejects for a reason of its own
    Foreign,              \* keys that some other writer may insert meanwhile
    Unique,               \* does the collection have a unique identity index?
    CommitInTransaction,  \* descriptor.commitInTransaction
    ReplicaSet,           \* does the deployment support transactions?
    Elections,            \* may the replica set lose and regain its primary?
    StoreFaults,          \* may a database call reject?
    Crashes,              \* may a process die?
    Runs,                 \* processes that may call commitBatch
    BatchSize,            \* documents per cursor batch (101 in MongoDB)
    Limit,                \* the limit option, 0 for none
    MaxCalls              \* bound: calls of commitBatch in a behaviour

Rows == 1..N

ASSUME CommitBatchAssumption ==
    /\ N \in Nat
    /\ Key \in [Rows -> Keys]
    /\ Valid \subseteq Rows
    /\ Refused \subseteq Rows
    /\ Foreign \subseteq Keys
    /\ Unique \in BOOLEAN
    /\ CommitInTransaction \in BOOLEAN
    /\ ReplicaSet \in BOOLEAN
    /\ Elections \in BOOLEAN
    /\ StoreFaults \in BOOLEAN
    /\ Crashes \in BOOLEAN
    /\ BatchSize \in Nat \ {0}
    /\ Limit \in Nat
    /\ MaxCalls \in Nat

VARIABLES
    commitStatus,    \* commitStatus of each staged row
    linked,          \* rows whose committedEntityId is set
    entity,          \* how many documents commitRow created for each row
    others,          \* keys of documents this job did not create
    primary,         \* does the deployment have a writable primary?
    txnSupport,      \* conn.__obeTxnSupport of each process
    pc,              \* where each run is inside commitBatch
    useTransaction,  \* the run's useTransaction
    ahead,           \* rows the run's cursor has not passed yet
    batch,           \* documents fetched and not processed yet
    wasReserved,     \* fetched documents that read commitStatus "committing"
    committed,       \* the run's committed counter
    failed,          \* the run's failed counter
    calls            \* calls of commitBatch so far

jobVars == <<commitStatus, linked, entity, others>>
envVars == <<primary, txnSupport>>
cursorVars == <<ahead, batch, wasReserved>>
tallyVars == <<committed, failed>>
vars == <<jobVars, envVars, pc, useTransaction, cursorVars, tallyVars, calls>>

Status == {"pending", "committing", "committed", "failed"}
PC == {"idle", "fetch", "row", "write", "link", "adopt", "reject", "done"}

\* Between a call and its return (or the death of its process).
Active(q) == pc[q] \notin {"idle", "done"}

HeldKeys == others \cup {Key[x] : x \in {y \in Rows : entity[y] > 0}}

Init ==
    /\ commitStatus = [x \in Rows |-> "pending"]
    /\ linked = {}
    /\ entity = [x \in Rows |-> 0]
    /\ others = {}
    /\ primary = TRUE
    /\ txnSupport = [q \in Runs |-> "unprobed"]
    /\ pc = [q \in Runs |-> "idle"]
    /\ useTransaction = [q \in Runs |-> FALSE]
    /\ ahead = [q \in Runs |-> {}]
    /\ batch = [q \in Runs |-> {}]
    /\ wasReserved = [q \in Runs |-> {}]
    /\ committed = [q \in Runs |-> 0]
    /\ failed = [q \in Runs |-> 0]
    /\ calls = 0

-----------------------------------------------------------------------------
(* Opening the cursor and reading from it. *)

\* The probe of connectionSupportsTransactions, cached on the connection: a
\* replica set without a primary looks like a deployment without transactions.
ProbeTransactions(q) ==
    IF txnSupport[q] # "unprobed" THEN txnSupport[q]
    ELSE IF ReplicaSet /\ primary THEN "yes" ELSE "no"

CallBatch(q) ==
    /\ ~Active(q)
    /\ calls < MaxCalls
    /\ calls' = calls + 1
    /\ \/ /\ CommitInTransaction
          /\ txnSupport' = [txnSupport EXCEPT ![q] = ProbeTransactions(q)]
          /\ useTransaction' =
               [useTransaction EXCEPT ![q] = ProbeTransactions(q) = "yes"]
       \/ /\ ~CommitInTransaction
          /\ useTransaction' = [useTransaction EXCEPT ![q] = FALSE]
          /\ UNCHANGED txnSupport
    /\ pc' = [pc EXCEPT ![q] = "fetch"]
    /\ ahead' = [ahead EXCEPT ![q] = Rows]
    /\ batch' = [batch EXCEPT ![q] = {}]
    /\ wasReserved' = [wasReserved EXCEPT ![q] = {}]
    /\ committed' = [committed EXCEPT ![q] = 0]
    /\ failed' = [failed EXCEPT ![q] = 0]
    /\ UNCHANGED <<jobVars, primary>>

\* Slip: the filter forgets validationStatus.
SelectedUnvalidated == {x \in Rows : commitStatus[x] \in {"pending", "committing"}}

\* Slip: the filter forgets the rows a dead run had reserved.
SelectedPending == {x \in Valid : commitStatus[x] = "pending"}

\* Slip: the filter forgets commitStatus.
SelectedAlways == Valid

\* The rows the cursor's filter selects at this moment.
Selected == {x \in Valid : commitStatus[x] \in {"pending", "committing"}}

\* S is the next batch of at most n documents of M, in rowIndex order.
IsNextBatch(S, M, n) ==
    /\ S \subseteq M
    /\ Cardinality(S) <= n
    /\ \A x \in S, y \in M \ S : x < y
    /\ Cardinality(S) < n => S = M

\* Slip: the limit does not reach the cursor.
RoomUnlimited(q) == BatchSize

\* How many documents the cursor may still return in one batch.
Room(q) ==
    LET left == Limit - (committed[q] + failed[q])
    IN  IF Limit = 0 \/ BatchSize < left THEN BatchSize ELSE left

\* A short batch, or one that reaches the limit, closes the cursor.
ClosesCursor(q, S) ==
    \/ Cardinality(S) < Room(q)
    \/ Limit > 0 /\ committed[q] + failed[q] + Cardinality(S) = Limit

FetchBatch(q) ==
    /\ pc[q] = "fetch"
    /\ primary
    /\ \E S \in SUBSET (Selected \cap ahead[q]) :
         /\ IsNextBatch(S, Selected \cap ahead[q], Room(q))
         /\ batch' = [batch EXCEPT ![q] = S]
         /\ wasReserved' = [wasReserved EXCEPT ![q] =
                              {x \in S : commitStatus[x] = "committing"}]
         /\ ahead' = [ahead EXCEPT ![q] =
                        IF ClosesCursor(q, S) THEN {}
                        ELSE {y \in @ : \A x \in S : x < y}]
         /\ pc' = [pc EXCEPT ![q] = IF S = {} THEN "done" ELSE "row"]
    /\ UNCHANGED <<jobVars, envVars, useTransaction, tallyVars, calls>>

\* x is the document the loop body is working on.
InHand(q, x) == x \in batch[q] /\ \A y \in batch[q] : x <= y

\* The end of one iteration of the for-await loop.
Advance(q, x) ==
    /\ batch' = [batch EXCEPT ![q] = @ \ {x}]
    /\ pc' = [pc EXCEPT ![q] = IF batch[q] # {x} THEN "row"
                               ELSE IF ahead[q] # {} THEN "fetch" ELSE "done"]
    /\ UNCHANGED <<ahead, wasReserved>>

CountCommitted(q) ==
    /\ committed' = [committed EXCEPT ![q] = @ + 1]
    /\ UNCHANGED failed

CountFailed(q) ==
    /\ failed' = [failed EXCEPT ![q] = @ + 1]
    /\ UNCHANGED committed

-----------------------------------------------------------------------------
(* commitRow, the target's own code. *)

DuplicateKey(x) == Unique /\ Key[x] \in HeldKeys

Inserts(x) ==
    /\ x \notin Refused
    /\ ~DuplicateKey(x)
    /\ entity' = [entity EXCEPT ![x] = @ + 1]

\* commitRow rejects with an error that is not a duplicate key.
Throws(x) == x \in Refused \/ StoreFaults

-----------------------------------------------------------------------------
(* The non-transactional protocol: reserve, write, link. *)

Reserve(q, x) ==
    /\ pc[q] = "row" /\ InHand(q, x) /\ ~useTransaction[q]
    /\ primary
    /\ commitStatus' = [commitStatus EXCEPT ![x] = "committing"]
    /\ pc' = [pc EXCEPT ![q] = "write"]
    /\ UNCHANGED <<linked, entity, others, envVars, useTransaction, cursorVars,
                   tallyVars, calls>>

\* commitRow resolves, or its write lands and the acknowledgement is lost.
RowWritten(q, x) ==
    /\ pc[q] = "write" /\ InHand(q, x)
    /\ primary
    /\ Inserts(x)
    /\ \/ pc' = [pc EXCEPT ![q] = "link"]
       \/ StoreFaults /\ pc' = [pc EXCEPT ![q] = "reject"]
    /\ UNCHANGED <<commitStatus, linked, others, envVars, useTransaction,
                   cursorVars, tallyVars, calls>>

\* Slip: every duplicate key is a failure.
RowDuplicateFails(q, x) ==
    /\ pc[q] = "write" /\ InHand(q, x)
    /\ primary /\ x \notin Refused /\ DuplicateKey(x)
    /\ pc' = [pc EXCEPT ![q] = "reject"]
    /\ UNCHANGED <<jobVars, envVars, useTransaction, cursorVars, tallyVars, calls>>

\* A duplicate key on a row this run found "committing" is taken for the row's
\* own earlier write, on any other row for a failure.
RowDuplicate(q, x) ==
    /\ pc[q] = "write" /\ InHand(q, x)
    /\ primary
    /\ x \notin Refused
    /\ DuplicateKey(x)
    /\ pc' = [pc EXCEPT ![q] = IF x \in wasReserved[q] THEN "adopt"
                                                       ELSE "reject"]
    /\ UNCHANGED <<jobVars, envVars, useTransaction, cursorVars, tallyVars,
                   calls>>

\* Slip: any error on a reserved row is taken for its own earlier write.
RowThrowsAdopted(q, x) ==
    /\ pc[q] = "write" /\ InHand(q, x)
    /\ Throws(x)
    /\ pc' = [pc EXCEPT ![q] = IF x \in wasReserved[q] THEN "adopt" ELSE "reject"]
    /\ UNCHANGED <<jobVars, envVars, useTransaction, cursorVars, tallyVars, calls>>

RowThrows(q, x) ==
    /\ pc[q] = "write" /\ InHand(q, x)
    /\ Throws(x)
    /\ pc' = [pc EXCEPT ![q] = "reject"]
    /\ UNCHANGED <<jobVars, envVars, useTransaction, cursorVars, tallyVars,
                   calls>>

Link(q, x) ==
    /\ pc[q] = "link" /\ InHand(q, x)
    /\ primary
    /\ commitStatus' = [commitStatus EXCEPT ![x] = "committed"]
    /\ linked' = linked \cup {x}
    /\ CountCommitted(q)
    /\ Advance(q, x)
    /\ UNCHANGED <<entity, others, envVars, useTransaction, calls>>

\* The link is inside the same try as commitRow; it may have landed.
LinkThrows(q, x) ==
    /\ pc[q] = "link" /\ InHand(q, x)
    /\ StoreFaults
    /\ pc' = [pc EXCEPT ![q] = "reject"]
    /\ \/ UNCHANGED <<commitStatus, linked>>
       \/ /\ commitStatus' = [commitStatus EXCEPT ![x] = "committed"]
          /\ linked' = linked \cup {x}
    /\ UNCHANGED <<entity, others, envVars, useTransaction, cursorVars,
                   tallyVars, calls>>

\* Slip: an adopted row is linked to a document as well.
AdoptLinked(q, x) ==
    /\ pc[q] = "adopt" /\ InHand(q, x)
    /\ primary
    /\ commitStatus' = [commitStatus EXCEPT ![x] = "committed"]
    /\ linked' = linked \cup {x}
    /\ CountCommitted(q) /\ Advance(q, x)
    /\ UNCHANGED <<entity, others, envVars, useTransaction, calls>>

Adopt(q, x) ==
    /\ pc[q] = "adopt" /\ InHand(q, x)
    /\ primary
    /\ commitStatus' = [commitStatus EXCEPT ![x] = "committed"]
    /\ CountCommitted(q)
    /\ Advance(q, x)
    /\ UNCHANGED <<linked, entity, others, envVars, useTransaction, calls>>

Reject(q, x) ==
    /\ pc[q] = "reject" /\ InHand(q, x)
    /\ primary
    /\ commitStatus' = [commitStatus EXCEPT ![x] = "failed"]
    /\ CountFailed(q)
    /\ Advance(q, x)
    /\ UNCHANGED <<linked, entity, others, envVars, useTransaction, calls>>

-----------------------------------------------------------------------------
(* The transactional protocol: commitRow and the status in one transaction. *)

TxnCommits(q, x) ==
    /\ pc[q] = "row" /\ InHand(q, x) /\ useTransaction[q]
    /\ primary
    /\ Inserts(x)
    /\ commitStatus' = [commitStatus EXCEPT ![x] = "committed"]
    /\ linked' = linked \cup {x}
    /\ \/ CountCommitted(q) /\ Advance(q, x)
       \* the commit lands but withTransaction rejects
       \/ /\ StoreFaults
          /\ pc' = [pc EXCEPT ![q] = "reject"]
          /\ UNCHANGED <<cursorVars, tallyVars>>
    /\ UNCHANGED <<others, envVars, useTransaction, calls>>

TxnAborts(q, x) ==
    /\ pc[q] = "row" /\ InHand(q, x) /\ useTransaction[q]
    /\ Throws(x) \/ (primary /\ DuplicateKey(x))
    /\ pc' = [pc EXCEPT ![q] = "reject"]
    /\ UNCHANGED <<jobVars, envVars, useTransaction, cursorVars, tallyVars,
                   calls>>

-----------------------------------------------------------------------------
(* Failures and the environment. *)

Stop(q) ==
    /\ pc' = [pc EXCEPT ![q] = "idle"]
    /\ useTransaction' = [useTransaction EXCEPT ![q] = FALSE]
    /\ ahead' = [ahead EXCEPT ![q] = {}]
    /\ batch' = [batch EXCEPT ![q] = {}]
    /\ wasReserved' = [wasReserved EXCEPT ![q] = {}]
    /\ committed' = [committed EXCEPT ![q] = 0]
    /\ failed' = [failed EXCEPT ![q] = 0]

\* The process dies at any await; the next one has a connection of its own.
Die(q) ==
    /\ Crashes
    /\ Active(q)
    /\ Stop(q)
    /\ txnSupport' = [txnSupport EXCEPT ![q] = "unprobed"]
    /\ UNCHANGED <<jobVars, primary, calls>>

\* A database call outside the try blocks rejects, and with it commitBatch.  The
\* call may have landed: then the job is as if the process had died after it.
BatchThrows(q) ==
    /\ StoreFaults
    /\ pc[q] \in {"fetch", "row", "adopt", "reject"}
    /\ Stop(q)
    /\ UNCHANGED <<jobVars, envVars, calls>>

\* Another import, or a user, creates a document with one of the job's keys.
ForeignInsert(k) ==
    /\ k \in Foreign \ HeldKeys
    /\ others' = others \cup {k}
    /\ UNCHANGED <<commitStatus, linked, entity, envVars, pc, useTransaction,
                   cursorVars, tallyVars, calls>>

Election ==
    /\ ReplicaSet /\ Elections
    /\ primary' = ~primary
    /\ UNCHANGED <<jobVars, txnSupport, pc, useTransaction, cursorVars,
                   tallyVars, calls>>

-----------------------------------------------------------------------------
RowStep(q, x) ==
    \/ Reserve(q, x)
    \/ RowWritten(q, x)
    \/ RowDuplicate(q, x)
    \/ RowThrows(q, x)
    \/ Link(q, x)
    \/ LinkThrows(q, x)
    \/ Adopt(q, x)
    \/ Reject(q, x)
    \/ TxnCommits(q, x)
    \/ TxnAborts(q, x)

BatchStep(q) == FetchBatch(q) \/ \E x \in Rows : RowStep(q, x)

Next ==
    \/ \E q \in Runs : \/ CallBatch(q)
                       \/ BatchStep(q)
                       \/ Die(q)
                       \/ BatchThrows(q)
    \/ \E k \in Keys : ForeignInsert(k)
    \/ Election

Spec == Init /\ [][Next]_vars

-----------------------------------------------------------------------------
(* Properties. *)

\* What a row's commitStatus tells the user.
ReportOf(s) == IF s \in {"pending", "committing"} THEN "open" ELSE s

\* The valid rows whose outcome is not recorded.
OpenRows == {x \in Valid : ReportOf(commitStatus[x]) = "open"}

\* The shape of every variable; a run's cursor only holds valid rows.
TypeOK ==
    /\ commitStatus \in [Rows -> Status]
    /\ linked \subseteq Rows
    /\ entity \in [Rows -> Nat]
    /\ others \subseteq Keys
    /\ primary \in BOOLEAN
    /\ txnSupport \in [Runs -> {"unprobed", "yes", "no"}]
    /\ pc \in [Runs -> PC]
    /\ useTransaction \in [Runs -> BOOLEAN]
    /\ ahead \in [Runs -> SUBSET Rows]
    /\ batch \in [Runs -> SUBSET Valid]
    /\ wasReserved \in [Runs -> SUBSET Valid]
    /\ committed \in [Runs -> Nat]
    /\ failed \in [Runs -> Nat]
    /\ calls \in Nat

\* A row reported "committed" was valid, and a document with its identity
\* exists: through every interleaving of runs, crash and failed call, the
\* report never runs ahead of the write (commitBatch.js:124-140).
CommittedRowHasEntity ==
    \A x \in Rows : commitStatus[x] = "committed" =>
        /\ x \in Valid
        /\ IF Unique THEN Key[x] \in HeldKeys ELSE entity[x] > 0

\* committedEntityId is only set on a row whose own commitRow created a
\* document: adopting an earlier write leaves it null (commitBatch.js:134-140).
LinkedRowHasOwnEntity == \A x \in linked : entity[x] > 0

\* A call that returns having processed fewer rows than its limit has left no
\* valid row open.  The worker's exit test (bullmqCommitWorker.js:69) and the
\* final statuses of all three callers rest on it.
ReturnMeansDrained ==
    \A q \in Runs :
        (pc[q] = "done" /\ (Limit = 0 \/ committed[q] + failed[q] < Limit))
            => OpenRows = {}

\* No call processes more rows than its limit (commitBatch.js:84).
LimitRespected ==
    \A q \in Runs : Limit > 0 =>
        committed[q] + failed[q] + Cardinality(batch[q]) <= Limit

\* A row reported "committed" is one whose own commitRow created a document,
\* what the "committing" marker is for (ImportStagedRecord.model.js:70-75).
CommittedRowWroteIt ==
    \A x \in Rows : commitStatus[x] = "committed" => entity[x] > 0

Ledger == INSTANCE RowLedger WITH
    Eligible <- Valid,
    report <- [x \in Rows |-> ReportOf(commitStatus[x])],
    effect <- entity

\* The engine implements the ledger: however often the process dies and the
\* commit is run again, one at a time, each valid row takes effect at most
\* once and is reported truthfully and finally.
ImplementsLedger == Ledger!Spec

=============================================================================
