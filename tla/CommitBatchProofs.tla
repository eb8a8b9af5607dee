-------------------------- MODULE CommitBatchProofs --------------------------
(***************************************************************************)
(* Proofs about CommitBatch, for every number of rows and runs, every      *)
(* target and every kind of failure the constants admit.                   *)
(***************************************************************************)
EXTENDS CommitBatch, FiniteSetTheorems, TLAPS

(* Every variable keeps its shape, whatever the runs do. *)
THEOREM TypeCorrect == Spec => []TypeOK
<1> USE CommitBatchAssumption
<1>1. Init => TypeOK
  BY DEF Init, TypeOK, Status, PC
<1>2. TypeOK /\ [Next]_vars => TypeOK'
  <2> SUFFICES ASSUME TypeOK, [Next]_vars
               PROVE  TypeOK'
    OBVIOUS
  <2> USE DEF TypeOK, jobVars, envVars, cursorVars, tallyVars
  <2>1. ASSUME NEW q \in Runs, CallBatch(q)
        PROVE  TypeOK'
    <3>1. ProbeTransactions(q) \in {"yes", "no"} \cup {txnSupport[q]}
      BY DEF ProbeTransactions
    <3>2. txnSupport' \in [Runs -> {"unprobed", "yes", "no"}]
      BY <2>1, <3>1 DEF CallBatch
    <3>3. useTransaction' \in [Runs -> BOOLEAN]
      <4>1. (ProbeTransactions(q) = "yes") \in BOOLEAN
        OBVIOUS
      <4>2. \E b \in BOOLEAN : useTransaction' = [useTransaction EXCEPT ![q] = b]
        BY <2>1, <4>1, Zenon DEF CallBatch
      <4> QED
        BY <4>2, Zenon
    <3>4. calls' \in Nat /\ pc' \in [Runs -> PC]
      BY <2>1 DEF CallBatch, PC
    <3>5. /\ ahead' \in [Runs -> SUBSET Rows]
          /\ batch' \in [Runs -> SUBSET Valid]
          /\ wasReserved' \in [Runs -> SUBSET Valid]
          /\ committed' \in [Runs -> Nat]
          /\ failed' \in [Runs -> Nat]
      BY <2>1 DEF CallBatch
    <3> QED
      BY <2>1, <3>2, <3>3, <3>4, <3>5 DEF CallBatch
  <2>2. ASSUME NEW q \in Runs, FetchBatch(q)
        PROVE  TypeOK'
    <3>1. PICK S \in SUBSET (Selected \cap ahead[q]) :
            /\ batch' = [batch EXCEPT ![q] = S]
            /\ wasReserved' = [wasReserved EXCEPT ![q] =
                                 {x \in S : commitStatus[x] = "committing"}]
            /\ ahead' = [ahead EXCEPT ![q] =
                           IF ClosesCursor(q, S) THEN {}
                           ELSE {y \in @ : \A x \in S : x < y}]
            /\ pc' = [pc EXCEPT ![q] = IF S = {} THEN "done" ELSE "row"]
      BY <2>2 DEF FetchBatch
    <3>2. S \subseteq Valid
      BY DEF Selected
    <3>3. pc' \in [Runs -> PC]
      BY <3>1 DEF PC
    <3>4. batch' \in [Runs -> SUBSET Valid] /\ wasReserved' \in [Runs -> SUBSET Valid]
      BY <3>1, <3>2
    <3>5. ahead' \in [Runs -> SUBSET Rows]
      BY <3>1
    <3> QED
      BY <2>2, <3>3, <3>4, <3>5 DEF FetchBatch
  <2>3. ASSUME NEW q \in Runs, NEW x \in Rows, RowStep(q, x)
        PROVE  TypeOK'
    <3> USE DEF Status, PC
    <3>1. CASE Reserve(q, x)
      BY <3>1 DEF Reserve
    <3>2. CASE RowWritten(q, x)
      BY <3>2 DEF RowWritten, Inserts
    <3>3. CASE RowDuplicate(q, x)
      BY <3>3 DEF RowDuplicate
    <3>4. CASE RowThrows(q, x)
      BY <3>4 DEF RowThrows
    <3>5. CASE Link(q, x)
      BY <3>5 DEF Link, CountCommitted, Advance
    <3>6. CASE LinkThrows(q, x)
      BY <3>6 DEF LinkThrows
    <3>7. CASE Adopt(q, x)
      BY <3>7 DEF Adopt, CountCommitted, Advance
    <3>8. CASE Reject(q, x)
      BY <3>8 DEF Reject, CountFailed, Advance
    <3>9. CASE TxnCommits(q, x)
      BY <3>9 DEF TxnCommits, Inserts, CountCommitted, Advance
    <3>10. CASE TxnAborts(q, x)
      BY <3>10 DEF TxnAborts
    <3> QED
      BY <2>3, <3>1, <3>2, <3>3, <3>4, <3>5, <3>6, <3>7, <3>8, <3>9, <3>10
         DEF RowStep
  <2>4. ASSUME NEW q \in Runs, Die(q) \/ BatchThrows(q)
        PROVE  TypeOK'
    <3>1. Stop(q)
      BY <2>4 DEF Die, BatchThrows
    <3>2. UNCHANGED <<commitStatus, linked, entity, others, primary, calls>>
      BY <2>4 DEF Die, BatchThrows
    <3>3. txnSupport' \in [Runs -> {"unprobed", "yes", "no"}]
      BY <2>4 DEF Die, BatchThrows
    <3>4. pc' \in [Runs -> PC]
      BY <3>1 DEF Stop, PC
    <3>5. QED
      BY <3>1, <3>2, <3>3, <3>4 DEF Stop
  <2>5. ASSUME NEW k \in Keys, ForeignInsert(k)
        PROVE  TypeOK'
    BY <2>5 DEF ForeignInsert
  <2>6. CASE Election
    BY <2>6 DEF Election
  <2>7. CASE UNCHANGED vars
    BY <2>7 DEF vars
  <2> QED
    BY <2>1, <2>2, <2>3, <2>4, <2>5, <2>6, <2>7 DEF Next, BatchStep
<1>3. QED
  BY <1>1, <1>2, PTL DEF Spec

-----------------------------------------------------------------------------
(* A report never runs ahead of the write. *)

\* The strengthening: a run about to link a row has written it, and a run
\* about to adopt a row has seen a document with its key.
ReportInv ==
    /\ CommittedRowHasEntity
    /\ LinkedRowHasOwnEntity
    /\ \A q \in Runs, x \in Rows :
         /\ pc[q] = "link" /\ InHand(q, x) => entity[x] > 0
         /\ pc[q] = "adopt" /\ InHand(q, x) => DuplicateKey(x)

(* No step removes a document: what exists keeps existing. *)
LEMMA DocumentsPersist ==
  ASSUME TypeOK, [Next]_vars
  PROVE  /\ \A x \in Rows : entity[x] > 0 => entity'[x] > 0
         /\ HeldKeys \subseteq HeldKeys'
<1> USE CommitBatchAssumption DEF TypeOK, jobVars, envVars, cursorVars, tallyVars
<1>1. \A x \in Rows : entity[x] > 0 => entity'[x] > 0
  <2>1. ASSUME NEW q \in Runs, NEW x \in Rows, RowStep(q, x)
        PROVE  UNCHANGED entity \/ entity' = [entity EXCEPT ![x] = @ + 1]
    BY <2>1 DEF RowStep, Reserve, RowWritten, RowDuplicate, RowThrows, Link,
                LinkThrows, Adopt, Reject, TxnCommits, TxnAborts, Inserts
  <2>2. UNCHANGED entity \/ \E x \in Rows : entity' = [entity EXCEPT ![x] = @ + 1]
    BY <2>1 DEF Next, BatchStep, CallBatch, FetchBatch, Die, BatchThrows,
                ForeignInsert, Election, vars
  <2> QED
    BY <2>2
<1>2. others \subseteq others'
  <2>1. ASSUME NEW q \in Runs, NEW x \in Rows, RowStep(q, x)
        PROVE  UNCHANGED others
    BY <2>1 DEF RowStep, Reserve, RowWritten, RowDuplicate, RowThrows, Link,
                LinkThrows, Adopt, Reject, TxnCommits, TxnAborts
  <2> QED
    BY <2>1 DEF Next, BatchStep, CallBatch, FetchBatch, Die, BatchThrows,
                ForeignInsert, Election, vars
<1>3. QED
  BY <1>1, <1>2 DEF HeldKeys

(* What the run of a row step has in hand, no other row step touches. *)
LEMMA InHandUnique ==
  ASSUME TypeOK, NEW q \in Runs, NEW x \in Rows, NEW y \in Rows,
         InHand(q, x), InHand(q, y)
  PROVE  x = y
BY CommitBatchAssumption DEF InHand, TypeOK, Rows

(* Whatever the interleaving, every row reported "committed" is a valid row
   with a document of its identity, and every linked row has its own. *)
THEOREM ReportsAreBacked == Spec => [](CommittedRowHasEntity /\ LinkedRowHasOwnEntity)
<1> USE CommitBatchAssumption
<1>1. Init => ReportInv
  BY DEF Init, ReportInv, CommittedRowHasEntity, LinkedRowHasOwnEntity, InHand
<1>2. TypeOK /\ ReportInv /\ [Next]_vars => ReportInv'
  <2> SUFFICES ASSUME TypeOK, ReportInv, [Next]_vars
               PROVE  ReportInv'
    OBVIOUS
  <2> USE DEF TypeOK, jobVars, envVars, cursorVars, tallyVars
  <2>0. /\ \A x \in Rows : entity[x] > 0 => entity'[x] > 0
        /\ HeldKeys \subseteq HeldKeys'
    BY DocumentsPersist
  <2>1. SUFFICES
          /\ \A x \in Rows :
               commitStatus'[x] = "committed" /\ commitStatus[x] # "committed"
                 => x \in Valid /\ IF Unique THEN Key[x] \in HeldKeys'
                                             ELSE entity'[x] > 0
          /\ \A x \in linked' \ linked : entity'[x] > 0
          /\ \A q \in Runs, x \in Rows :
               /\ pc'[q] = "link" /\ InHand(q, x)' => entity'[x] > 0
               /\ pc'[q] = "adopt" /\ InHand(q, x)' => DuplicateKey(x)'
    BY <2>0 DEF ReportInv, CommittedRowHasEntity, LinkedRowHasOwnEntity
  <2>2. ASSUME NEW q \in Runs, CallBatch(q) \/ FetchBatch(q) \/ Die(q) \/ BatchThrows(q)
        PROVE  /\ UNCHANGED <<commitStatus, linked>>
               /\ pc'[q] \notin {"link", "adopt"}
               /\ \A p \in Runs \ {q} : pc'[p] = pc[p] /\ batch'[p] = batch[p]
    BY <2>2 DEF CallBatch, FetchBatch, Die, BatchThrows, Stop
  <2>3. ASSUME NEW q \in Runs, NEW x \in Rows, RowStep(q, x)
        PROVE  /\ \A p \in Runs \ {q} : pc'[p] = pc[p] /\ batch'[p] = batch[p]
               /\ pc'[q] = "link" => entity'[x] > 0 /\ batch'[q] = batch[q]
               /\ pc'[q] = "adopt" => DuplicateKey(x)' /\ batch'[q] = batch[q]
               /\ \A y \in Rows \ {x} : commitStatus'[y] = commitStatus[y]
               /\ linked' \subseteq linked \cup {x}
               /\ commitStatus'[x] = "committed" /\ commitStatus[x] # "committed"
                    => x \in Valid /\ IF Unique THEN Key[x] \in HeldKeys'
                                                ELSE entity'[x] > 0
               /\ x \in linked' \ linked => entity'[x] > 0
               /\ InHand(q, x)
    <3>0. InHand(q, x) /\ x \in Valid
      BY <2>3 DEF RowStep, Reserve, RowWritten, RowDuplicate, RowThrows, Link,
                  LinkThrows, Adopt, Reject, TxnCommits, TxnAborts, InHand
    <3>a. entity'[x] > 0 => Key[x] \in HeldKeys'
      BY DEF HeldKeys
    <3>1. CASE Reserve(q, x)
      BY <3>0, <3>1 DEF Reserve
    <3>2. CASE RowWritten(q, x)
      BY <3>0, <3>2 DEF RowWritten, Inserts
    <3>3. CASE RowDuplicate(q, x)
      BY <3>0, <3>3, <2>0 DEF RowDuplicate, DuplicateKey
    <3>4. CASE RowThrows(q, x)
      BY <3>0, <3>4 DEF RowThrows
    <3>5. CASE Link(q, x)
      BY <3>0, <3>5, <2>0, <3>a DEF Link, Advance, ReportInv
    <3>6. CASE LinkThrows(q, x)
      BY <3>0, <3>6, <2>0, <3>a DEF LinkThrows, ReportInv
    <3>7. CASE Adopt(q, x)
      BY <3>0, <3>7, <2>0 DEF Adopt, Advance, ReportInv, DuplicateKey
    <3>8. CASE Reject(q, x)
      BY <3>0, <3>8 DEF Reject, Advance
    <3>9. CASE TxnCommits(q, x)
      BY <3>0, <3>9, <3>a DEF TxnCommits, Inserts, Advance
    <3>10. CASE TxnAborts(q, x)
      BY <3>0, <3>10 DEF TxnAborts
    <3> QED
      BY <2>3, <3>1, <3>2, <3>3, <3>4, <3>5, <3>6, <3>7, <3>8, <3>9, <3>10
         DEF RowStep
  <2>4. ASSUME (\E k \in Keys : ForeignInsert(k)) \/ Election \/ UNCHANGED vars
        PROVE  UNCHANGED <<commitStatus, linked, pc, batch>>
    BY <2>4 DEF ForeignInsert, Election, vars
  <2>5. \A q \in Runs, x \in Rows :
          /\ pc[q] = "link" /\ InHand(q, x) => entity'[x] > 0
          /\ pc[q] = "adopt" /\ InHand(q, x) => DuplicateKey(x)'
    BY <2>0 DEF ReportInv, DuplicateKey
  <2>6. CASE \E q \in Runs : CallBatch(q) \/ FetchBatch(q) \/ Die(q) \/ BatchThrows(q)
    BY <2>6, <2>2, <2>5 DEF InHand
  <2>7. CASE \E q \in Runs, x \in Rows : RowStep(q, x)
    <3>1. PICK q \in Runs, x \in Rows : RowStep(q, x)
      BY <2>7
    <3>2. \A y \in Rows : batch'[q] = batch[q] /\ InHand(q, y)' => y = x
      BY <2>3, <3>1, InHandUnique DEF InHand
    <3> QED
      BY <2>3, <2>5, <3>1, <3>2 DEF InHand
  <2>8. CASE (\E k \in Keys : ForeignInsert(k)) \/ Election \/ UNCHANGED vars
    BY <2>8, <2>4, <2>5 DEF InHand
  <2> QED
    BY <2>6, <2>7, <2>8 DEF Next, BatchStep
<1>3. ReportInv => CommittedRowHasEntity /\ LinkedRowHasOwnEntity
  BY DEF ReportInv
<1>4. QED
  BY <1>1, <1>2, <1>3, TypeCorrect, PTL DEF Spec

(* A row with a committedEntityId has a document of its own, not one that      *)
(* another import or another row has created (commitBatch.js:117-126).        *)
THEOREM LinkedRowsHaveTheirOwn == Spec => []LinkedRowHasOwnEntity
BY ReportsAreBacked, PTL

-----------------------------------------------------------------------------
(* Calls that do not overlap. *)

\* Each call of commitBatch begins after the one before has returned or its
\* process has died, whichever processes make them.
NoOverlap == \A p, q \in Runs : Active(p) /\ Active(q) => p = q

\* A run that has returned or died has no documents left.
Emptied == \A q \in Runs : ~Active(q) => batch[q] = {}

\* Nobody else is in commitBatch.
Alone(q) == \A r \in Runs \ {q} : ~Active(r) /\ batch[r] = {}

LEMMA EmptiedStep ==
  ASSUME TypeOK, Emptied, [Next]_vars
  PROVE  Emptied'
<1>1. ASSUME NEW q \in Runs, CallBatch(q) \/ FetchBatch(q) \/ Stop(q)
      PROVE  Emptied'
  BY <1>1 DEF CallBatch, FetchBatch, Stop, Emptied, Active, TypeOK
<1>2. ASSUME NEW q \in Runs, NEW x \in Rows, RowStep(q, x)
      PROVE  Emptied'
  <2>1. CASE Advance(q, x)
    BY <2>1 DEF Advance, Emptied, Active, TypeOK
  <2>2. CASE /\ UNCHANGED batch
             /\ \E s \in {"write", "link", "adopt", "reject"} :
                  pc' = [pc EXCEPT ![q] = s]
    BY <2>2 DEF Emptied, Active, TypeOK
  <2> QED
    BY <1>2, <2>1, <2>2
       DEF RowStep, Reserve, RowWritten, RowDuplicate, RowThrows, Link, LinkThrows,
           Adopt, Reject, TxnCommits, TxnAborts, cursorVars
<1>3. CASE (\E k \in Keys : ForeignInsert(k)) \/ Election \/ UNCHANGED vars
  BY <1>3 DEF ForeignInsert, Election, vars, cursorVars, Emptied, Active
<1> QED
  BY <1>1, <1>2, <1>3 DEF Next, BatchStep, Die, BatchThrows

(* Returned or dead runs hold nothing, however the others overlap. *)
LEMMA AlwaysEmptied == Spec => []Emptied
<1>1. Init => Emptied
  BY DEF Init, Emptied
<1>2. TypeOK /\ Emptied /\ [Next]_vars => Emptied'
  BY EmptiedStep
<1> QED
  BY <1>1, <1>2, TypeCorrect, PTL DEF Spec

(* A run in commitBatch is alone there. *)
LEMMA ActiveIsAlone ==
  ASSUME NoOverlap, Emptied, NEW q \in Runs, Active(q)
  PROVE  Alone(q)
BY DEF NoOverlap, Emptied, Alone

(* A step inside commitBatch stays inside, or returns. *)
LEMMA BatchStepMoves ==
  ASSUME TypeOK, NEW q \in Runs, BatchStep(q)
  PROVE  /\ Active(q) /\ pc'[q] # "idle"
         /\ \A r \in Runs \ {q} : pc'[r] = pc[r] /\ batch'[r] = batch[r]
                                  /\ committed'[r] = committed[r] /\ failed'[r] = failed[r]
<1>1. CASE FetchBatch(q)
  BY <1>1 DEF FetchBatch, Active, TypeOK, tallyVars
<1>2. ASSUME NEW x \in Rows, RowStep(q, x)
      PROVE  /\ Active(q) /\ pc'[q] # "idle"
             /\ \A r \in Runs \ {q} : pc'[r] = pc[r] /\ batch'[r] = batch[r]
                                      /\ committed'[r] = committed[r] /\ failed'[r] = failed[r]
  BY <1>2 DEF RowStep, Reserve, RowWritten, RowDuplicate, RowThrows, Link, LinkThrows, Adopt,
              Reject, TxnCommits, TxnAborts, Advance, CountCommitted, CountFailed, Active,
              TypeOK, cursorVars, tallyVars
<1> QED
  BY <1>1, <1>2 DEF BatchStep

(* A call that begins finds nobody there. *)
LEMMA CallIsAlone ==
  ASSUME TypeOK, NoOverlap', Emptied, NEW q \in Runs, CallBatch(q)
  PROVE  Alone(q)
<1>1. Active(q)' /\ \A r \in Runs \ {q} : Active(r)' <=> Active(r)
  BY DEF CallBatch, TypeOK, Active
<1> QED
  BY <1>1 DEF NoOverlap, Emptied, Alone

-----------------------------------------------------------------------------
(* Calls that do not overlap implement RowLedger. *)

\* Every call uses the same protocol: transactions that are always available,
\* or a unique index.
OneProtocol ==
    \/ CommitInTransaction /\ ReplicaSet /\ ~Elections
    \/ Unique /\ ~(CommitInTransaction /\ ReplicaSet)

\* Nothing but the job's own rows can be in the way of a row, and a database
\* call that reports an error has changed nothing.
OwnKeysOnly ==
    /\ \A x, y \in Valid : Key[x] = Key[y] => x = y
    /\ Foreign = {}
    /\ ~StoreFaults

Transactional == CommitInTransaction /\ ReplicaSet

\* Every call uses the protocol the deployment calls for.
ModeInv ==
    /\ Transactional =>
         /\ primary
         /\ \A q \in Runs : /\ txnSupport[q] # "no"
                            /\ Active(q) => useTransaction[q]
                            /\ pc[q] \notin {"write", "link", "adopt"}
         /\ \A x \in Rows : entity[x] > 0 => commitStatus[x] = "committed"
    /\ ~Transactional =>
         \A q \in Runs : txnSupport[q] # "yes" /\ ~useTransaction[q]

\* What each row's documents and status say of each other.
RowInv ==
    /\ others = {}
    /\ \A x \in Rows :
         /\ entity[x] \in {0, 1}
         /\ commitStatus[x] = "committed" => entity[x] = 1
         /\ commitStatus[x] \in {"pending", "failed"} => entity[x] = 0
         /\ x \in Refused \/ x \notin Valid => entity[x] = 0

\* What a run knows of the documents it has fetched.
Known(q) ==
    \A x \in Rows : x \in batch[q] =>
        /\ ReportOf(commitStatus[x]) = "open"
        /\ x \notin wasReserved[q] /\ ~(pc[q] = "link" /\ InHand(q, x))
             => entity[x] = 0
        /\ pc[q] \in {"link", "adopt"} /\ InHand(q, x) => entity[x] = 1
        /\ pc[q] = "reject" /\ InHand(q, x) => entity[x] = 0
        /\ pc[q] \in {"write", "link"} /\ InHand(q, x)
             => commitStatus[x] = "committing"

CursorInv == \A q \in Runs : Known(q)

LedgerInv == TypeOK /\ ModeInv /\ RowInv /\ CursorInv

(* A duplicate key is the row's own document. *)
LEMMA DuplicateIsOwn ==
  ASSUME LedgerInv, OwnKeysOnly, NEW x \in Valid, Key[x] \in HeldKeys
  PROVE  entity[x] = 1
BY CommitBatchAssumption DEF LedgerInv, RowInv, OwnKeysOnly, HeldKeys, TypeOK

(* Each row step is one of five things to the ledger. *)
LEMMA RowStepEffect ==
  ASSUME LedgerInv, OneProtocol, OwnKeysOnly,
         NEW q \in Runs, NEW x \in Rows, RowStep(q, x)
  PROVE  /\ x \in Valid /\ InHand(q, x)
         /\ UNCHANGED others
         /\ \/ UNCHANGED entity
            \/ /\ x \notin Refused /\ entity[x] = 0
               /\ entity' = [entity EXCEPT ![x] = 1]
         /\ \/ UNCHANGED commitStatus
            \/ commitStatus' = [commitStatus EXCEPT ![x] = "committing"]
            \/ /\ entity'[x] = 1
               /\ commitStatus' = [commitStatus EXCEPT ![x] = "committed"]
            \/ /\ UNCHANGED entity /\ entity[x] = 0
               /\ commitStatus' = [commitStatus EXCEPT ![x] = "failed"]
<1> USE CommitBatchAssumption DEF LedgerInv, TypeOK, jobVars, envVars, cursorVars, tallyVars
<1>1. InHand(q, x) /\ x \in Valid /\ x \in batch[q]
  BY DEF RowStep, Reserve, RowWritten, RowDuplicate, RowThrows, Link,
         LinkThrows, Adopt, Reject, TxnCommits, TxnAborts, InHand
<1>2. Inserts(x) /\ pc[q] \in {"row", "write"} => entity[x] = 0 /\ x \notin Refused
  <2> SUFFICES ASSUME Inserts(x), pc[q] \in {"row", "write"}
               PROVE  entity[x] = 0 /\ x \notin Refused
    OBVIOUS
  <2>1. CASE Transactional
    BY <2>1, <1>1 DEF ModeInv, CursorInv, Known, RowInv, ReportOf, Inserts
  <2>2. CASE ~Transactional
    BY <2>2, <1>1 DEF OneProtocol, Inserts, DuplicateKey, HeldKeys, Transactional, RowInv
  <2> QED
    BY <2>1, <2>2
<1>3. CASE Reserve(q, x)
  BY <1>1, <1>3 DEF Reserve
<1>4. CASE RowWritten(q, x)
  BY <1>1, <1>2, <1>4 DEF RowWritten, Inserts
<1>5. CASE RowDuplicate(q, x)
  BY <1>1, <1>5 DEF RowDuplicate
<1>6. CASE RowThrows(q, x)
  BY <1>1, <1>6 DEF RowThrows
<1>7. CASE Link(q, x)
  BY <1>1, <1>7 DEF Link, CursorInv, Known
<1>8. CASE LinkThrows(q, x)
  BY <1>1, <1>8 DEF LinkThrows, OwnKeysOnly
<1>9. CASE Adopt(q, x)
  BY <1>1, <1>9 DEF Adopt, CursorInv, Known
<1>10. CASE Reject(q, x)
  BY <1>1, <1>10 DEF Reject, CursorInv, Known
<1>11. CASE TxnCommits(q, x)
  BY <1>1, <1>2, <1>11 DEF TxnCommits, Inserts
<1>12. CASE TxnAborts(q, x)
  BY <1>1, <1>12 DEF TxnAborts
<1> QED
  BY <1>3, <1>4, <1>5, <1>6, <1>7, <1>8, <1>9, <1>10, <1>11, <1>12 DEF RowStep

(* LedgerInv holds initially. *)
LEMMA LedgerInvInit == Init => LedgerInv
BY CommitBatchAssumption
   DEF Init, LedgerInv, TypeOK, ModeInv, RowInv, CursorInv, Known, Active, Status, PC

(* Every step preserves LedgerInv while calls do not overlap. *)
LEMMA LedgerInvStep ==
  ASSUME OneProtocol, OwnKeysOnly, NoOverlap, NoOverlap', Emptied, LedgerInv, TypeOK',
         [Next]_vars
  PROVE  LedgerInv'
<1> USE CommitBatchAssumption DEF LedgerInv, TypeOK, jobVars, envVars, cursorVars, tallyVars
<1>1. ASSUME NEW q \in Runs, CallBatch(q)
      PROVE  ModeInv' /\ RowInv' /\ CursorInv'
  <2>0. \A r \in Runs : batch'[r] = {}
    BY <1>1, CallIsAlone DEF CallBatch, Alone
  <2>1. RowInv' /\ CursorInv'
    BY <1>1, <2>0 DEF CallBatch, RowInv, CursorInv, Known
  <2>2. CASE Transactional
    <3>1. ProbeTransactions(q) = "yes"
      BY <2>2 DEF ModeInv, ProbeTransactions, Transactional
    <3> QED
      BY <1>1, <2>1, <2>2, <3>1 DEF CallBatch, ModeInv, Transactional, Active
  <2>3. CASE ~Transactional
    <3>1. CommitInTransaction => ProbeTransactions(q) = "no"
      BY <2>3 DEF ModeInv, ProbeTransactions, Transactional
    <3> QED
      BY <1>1, <2>1, <2>3, <3>1 DEF CallBatch, ModeInv, Transactional
  <2> QED
    BY <2>1, <2>2, <2>3
<1>2. ASSUME NEW q \in Runs, FetchBatch(q)
      PROVE  ModeInv' /\ RowInv' /\ CursorInv'
  <2>1. PICK S \in SUBSET (Selected \cap ahead[q]) :
          /\ batch' = [batch EXCEPT ![q] = S]
          /\ wasReserved' = [wasReserved EXCEPT ![q] =
                               {x \in S : commitStatus[x] = "committing"}]
          /\ pc' = [pc EXCEPT ![q] = IF S = {} THEN "done" ELSE "row"]
    BY <1>2 DEF FetchBatch
  <2>2. /\ UNCHANGED <<commitStatus, entity, others, primary, txnSupport, useTransaction>>
        /\ pc[q] = "fetch"
    BY <1>2 DEF FetchBatch
  <2>3. CursorInv'
    <3>1. \A r \in Runs \ {q} : batch'[r] = {}
      BY <2>1, <2>2, ActiveIsAlone DEF Alone, Active
    <3>2. pc'[q] \notin {"link", "adopt", "reject", "write"}
      BY <2>1
    <3> QED
      BY <2>1, <2>2, <3>1, <3>2 DEF CursorInv, Known, RowInv, Selected, ReportOf
  <2>4. ModeInv'
    BY <2>1, <2>2 DEF ModeInv, Active, Transactional
  <2> QED
    BY <2>2, <2>3, <2>4 DEF RowInv
<1>3. ASSUME NEW q \in Runs, NEW x \in Rows, RowStep(q, x)
      PROVE  ModeInv' /\ RowInv' /\ CursorInv'
  <2>1. /\ x \in Valid /\ InHand(q, x)
        /\ UNCHANGED others
        /\ \/ UNCHANGED entity
           \/ /\ x \notin Refused /\ entity[x] = 0
              /\ entity' = [entity EXCEPT ![x] = 1]
        /\ \/ UNCHANGED commitStatus
           \/ commitStatus' = [commitStatus EXCEPT ![x] = "committing"]
           \/ /\ entity'[x] = 1
              /\ commitStatus' = [commitStatus EXCEPT ![x] = "committed"]
           \/ /\ UNCHANGED entity /\ entity[x] = 0
              /\ commitStatus' = [commitStatus EXCEPT ![x] = "failed"]
    BY <1>3, RowStepEffect
  <2>2. /\ UNCHANGED <<primary, txnSupport, useTransaction>>
        /\ wasReserved' = wasReserved
        /\ batch'[q] = batch[q] \/ batch'[q] = batch[q] \ {x}
    BY <1>3 DEF RowStep, Reserve, RowWritten, RowDuplicate, RowThrows, Link,
                LinkThrows, Adopt, Reject, TxnCommits, TxnAborts, Advance
  <2>a. \A r \in Runs \ {q} : batch'[r] = {} /\ pc'[r] = pc[r]
    <3>1. Alone(q)
      BY <1>3, BatchStepMoves, ActiveIsAlone DEF BatchStep
    <3> QED
      BY <1>3, <3>1 DEF RowStep, Reserve, RowWritten, RowDuplicate, RowThrows, Link,
         LinkThrows, Adopt, Reject, TxnCommits, TxnAborts, Advance, Alone
  <2>3. \A y \in batch[q] : InHand(q, y) => y = x
    BY <2>1, InHandUnique
  <2>4. ReportOf(commitStatus[x]) = "open" /\ x \in batch[q]
    BY <2>1 DEF CursorInv, Known, InHand
  <2>5. RowInv'
    <3>1. \A y \in Rows \ {x} : entity'[y] = entity[y] /\ commitStatus'[y] = commitStatus[y]
      BY <2>1
    <3>2. /\ entity'[x] \in {0, 1}
          /\ commitStatus'[x] = "committed" => entity'[x] = 1
          /\ x \in Refused \/ x \notin Valid => entity'[x] = 0
      BY <2>1, <2>4 DEF RowInv, ReportOf
    <3>3. commitStatus'[x] \in {"pending", "failed"} => entity'[x] = 0
      <4>1. CASE UNCHANGED entity
        BY <4>1, <2>1, <2>4 DEF RowInv, ReportOf
      <4>2. CASE RowWritten(q, x)
        BY <4>2, <2>1, <2>4 DEF RowWritten, CursorInv, Known
      <4>3. CASE TxnCommits(q, x)
        BY <4>3 DEF TxnCommits
      <4> QED
        BY <4>1, <4>2, <4>3, <1>3 DEF RowStep, Reserve, RowDuplicate, RowThrows,
           Link, LinkThrows, Adopt, Reject, TxnAborts
    <3> QED
      BY <2>1, <3>1, <3>2, <3>3 DEF RowInv
  <2>6. ModeInv'
    <3>1. CASE Transactional
      <4>0. useTransaction[q]
        BY <1>3, <3>1 DEF ModeInv, Active, RowStep, Reserve, RowWritten,
           RowDuplicate, RowThrows, Link, LinkThrows, Adopt, Reject,
           TxnCommits, TxnAborts
      <4>a. Reject(q, x) \/ TxnCommits(q, x) \/ TxnAborts(q, x)
        BY <1>3, <3>1, <4>0 DEF ModeInv, RowStep, Reserve, RowWritten,
           RowDuplicate, RowThrows, Link, LinkThrows, Adopt
      <4>b. entity[x] = 0
        BY <2>4, <3>1 DEF ModeInv, RowInv, ReportOf
      <4>1. /\ pc'[q] \notin {"write", "link", "adopt"}
            /\ \A y \in Rows : entity'[y] > 0 => commitStatus'[y] = "committed"
        <5>1. CASE Reject(q, x)
          BY <5>1, <3>1, <4>b DEF Reject, Advance, ModeInv
        <5>2. CASE TxnCommits(q, x)
          BY <5>2, <3>1, <4>b DEF TxnCommits, Inserts, Advance, ModeInv
        <5>3. CASE TxnAborts(q, x)
          BY <5>3, <3>1 DEF TxnAborts, ModeInv
        <5> QED
          BY <4>a, <5>1, <5>2, <5>3
      <4> QED
        BY <2>2, <2>a, <3>1, <4>0, <4>1 DEF ModeInv, Transactional, Active
    <3>2. CASE ~Transactional
      BY <2>2, <3>2 DEF ModeInv, Transactional
    <3> QED
      BY <3>1, <3>2
  <2>7. CursorInv'
    <3>1. ASSUME batch'[q] = batch[q] \ {x}
          PROVE  Known(q)'
      <4>1. pc'[q] \in {"row", "fetch", "done", "reject"}
        BY <1>3, <3>1, <2>4 DEF RowStep, Reserve, RowWritten, RowDuplicate,
           RowThrows, Link, LinkThrows, Adopt, Reject, TxnCommits, TxnAborts, Advance
      <4>2. pc'[q] # "reject"
        BY <1>3, <3>1, <2>4 DEF RowStep, Reserve, RowWritten, RowDuplicate,
           RowThrows, Link, LinkThrows, Adopt, Reject, TxnCommits, TxnAborts,
           Advance, OwnKeysOnly
      <4>3. \A y \in batch'[q] : /\ y # x /\ y \in batch[q]
                                 /\ entity'[y] = entity[y]
                                 /\ commitStatus'[y] = commitStatus[y]
                                 /\ ~InHand(q, y)
        BY <2>1, <2>3, <3>1
      <4> QED
        BY <2>2, <4>1, <4>2, <4>3 DEF CursorInv, Known
    <3>2. ASSUME batch'[q] = batch[q]
          PROVE  Known(q)'
      <4>1. \A y \in batch[q] : y # x =>
              entity'[y] = entity[y] /\ commitStatus'[y] = commitStatus[y] /\ ~InHand(q, y)
        BY <2>1, <2>3
      <4>2. \A y \in Rows : InHand(q, y)' <=> InHand(q, y)
        BY <3>2 DEF InHand
      <4>3. CASE Reserve(q, x)
        BY <4>3, <2>2, <2>4, <3>2, <4>1, <4>2 DEF Reserve, CursorInv, Known, ReportOf
      <4>4. CASE RowWritten(q, x)
        BY <4>4, <2>1, <2>2, <2>4, <3>2, <4>1, <4>2
           DEF RowWritten, Inserts, CursorInv, Known, OwnKeysOnly
      <4>5. CASE RowDuplicate(q, x)
        BY <4>5, <2>1, <2>2, <2>4, <3>2, <4>1, <4>2, DuplicateIsOwn
           DEF RowDuplicate, DuplicateKey, CursorInv, Known
      <4>6. CASE RowThrows(q, x)
        BY <4>6, <2>1, <2>2, <2>4, <3>2, <4>1, <4>2
           DEF RowThrows, Throws, CursorInv, Known, RowInv, OwnKeysOnly
      <4>7. CASE TxnAborts(q, x)
        <5>1. entity[x] = 0
          BY <4>7, <2>1, <2>4, DuplicateIsOwn
             DEF TxnAborts, Throws, CursorInv, Known, RowInv, OwnKeysOnly, ModeInv, ReportOf
        <5> QED
          BY <4>7, <5>1, <2>1, <2>2, <2>4, <3>2, <4>1, <4>2 DEF TxnAborts, CursorInv, Known
      <4>8. x \in batch[q] /\ x \notin batch[q] \ {x}
        BY <2>4
      <4> QED
        BY <1>3, <3>2, <4>3, <4>4, <4>5, <4>6, <4>7, <4>8
           DEF RowStep, Link, LinkThrows, Adopt, Reject, TxnCommits, Advance, OwnKeysOnly
    <3>3. Known(q)'
      BY <2>2, <3>1, <3>2
    <3> QED
      BY <2>a, <3>3 DEF CursorInv, Known
  <2> QED
    BY <2>5, <2>6, <2>7
<1>4. ASSUME NEW q \in Runs, Die(q) \/ BatchThrows(q)
      PROVE  ModeInv' /\ RowInv' /\ CursorInv'
  <2>1. Stop(q) /\ UNCHANGED <<jobVars, primary>>
        /\ txnSupport' \in {txnSupport, [txnSupport EXCEPT ![q] = "unprobed"]}
    BY <1>4 DEF Die, BatchThrows
  <2>2. CursorInv'
    BY <2>1 DEF Stop, CursorInv, Known, InHand
  <2> QED
    BY <2>1, <2>2 DEF Stop, ModeInv, RowInv, Active, Transactional
<1>5. ASSUME NEW k \in Keys, ForeignInsert(k)
      PROVE  FALSE
  BY <1>5 DEF ForeignInsert, OwnKeysOnly
<1>6. CASE Election
  BY <1>6 DEF Election, OneProtocol, ModeInv, RowInv, CursorInv, Known, Active, InHand,
              Transactional
<1>7. CASE UNCHANGED vars
  BY <1>7 DEF vars, ModeInv, RowInv, CursorInv, Known, Active, InHand, Transactional
<1> QED
  BY <1>1, <1>2, <1>3, <1>4, <1>5, <1>6, <1>7 DEF Next, BatchStep

(* So long as no two calls overlap, whoever makes them, whatever dies and
   whenever, and under one protocol, the engine creates each valid row's document
   at most once, reports each row truthfully, and never changes a report. *)
THEOREM LedgerImplemented ==
  ASSUME OneProtocol, OwnKeysOnly
  PROVE  Spec /\ []NoOverlap => ImplementsLedger
<1> USE CommitBatchAssumption
<1>1. Init => Ledger!Init
  BY DEF Init, Ledger!Init, ReportOf
<1>2. LedgerInv /\ [Next]_vars => [Ledger!Next]_Ledger!ledger
  <2> SUFFICES ASSUME LedgerInv, [Next]_vars
               PROVE  Ledger!Next \/ UNCHANGED Ledger!ledger
    BY DEF Ledger!ledger
  <2> USE DEF LedgerInv, TypeOK
  <2> DEFINE report == [x \in Rows |-> ReportOf(commitStatus[x])]
  <2>1. ASSUME NEW q \in Runs, NEW x \in Rows, RowStep(q, x)
        PROVE  Ledger!Next \/ UNCHANGED Ledger!ledger
    <3>1. /\ x \in Valid /\ InHand(q, x)
          /\ \/ UNCHANGED entity
             \/ entity[x] = 0 /\ entity' = [entity EXCEPT ![x] = 1]
          /\ \/ UNCHANGED commitStatus
             \/ commitStatus' = [commitStatus EXCEPT ![x] = "committing"]
             \/ /\ entity'[x] = 1
                /\ commitStatus' = [commitStatus EXCEPT ![x] = "committed"]
             \/ /\ UNCHANGED entity /\ entity[x] = 0
                /\ commitStatus' = [commitStatus EXCEPT ![x] = "failed"]
      BY <2>1, RowStepEffect
    <3>2. report[x] = "open"
      BY <3>1 DEF CursorInv, Known, InHand
    <3>3. \/ report' = report
          \/ report' = [report EXCEPT ![x] = "committed"] /\ entity'[x] = 1
          \/ report' = [report EXCEPT ![x] = "failed"] /\ entity[x] = 0 /\ UNCHANGED entity
      BY <3>1, <3>2 DEF ReportOf
    <3>4. entity[x] \in {0, 1}
      BY DEF RowInv
    <3>5. \/ UNCHANGED Ledger!ledger
          \/ Ledger!Create(x) \/ Ledger!ReportCommitted(x)
          \/ Ledger!CreateAndReport(x) \/ Ledger!ReportFailed(x)
      BY <3>1, <3>2, <3>3, <3>4
         DEF Ledger!ledger, Ledger!Create, Ledger!ReportCommitted,
             Ledger!CreateAndReport, Ledger!ReportFailed
    <3> QED
      BY <3>1, <3>5 DEF Ledger!Next
  <2>2. CASE ~ \E q \in Runs, x \in Rows : RowStep(q, x)
    <3>1. UNCHANGED <<commitStatus, entity>>
      BY <2>2 DEF Next, BatchStep, CallBatch, FetchBatch, Die, BatchThrows,
                  ForeignInsert, Election, vars, jobVars
    <3> QED
      BY <3>1 DEF Ledger!ledger
  <2> QED
    BY <2>1, <2>2
<1>3. QED
  <2>1. NoOverlap /\ NoOverlap' /\ Emptied /\ LedgerInv /\ TypeOK' /\ [Next]_vars
        => LedgerInv'
    BY LedgerInvStep
  <2> QED
    BY <1>1, <1>2, <2>1, LedgerInvInit, TypeCorrect, AlwaysEmptied, PTL
       DEF Spec, ImplementsLedger, Ledger!Spec

-----------------------------------------------------------------------------
(* The cursor of commitBatch: a call never processes more rows than its limit,  *)
(* and, when no other run works on the job, a call that returns below its limit *)
(* leaves no valid row open.                                                    *)

(* A set of rows can be counted. *)
LEMMA RowsCount ==
  ASSUME NEW S \in SUBSET Rows
  PROVE  IsFiniteSet(S) /\ Cardinality(S) \in Nat
<1>1. IsFiniteSet(Rows)
  <2>1. N \in Int /\ 1 \in Int
    BY CommitBatchAssumption
  <2> QED
    BY <2>1, FS_Interval DEF Rows
<1>2. IsFiniteSet(S)
  BY <1>1, FS_Subset
<1> QED
  BY <1>2, FS_CardinalityType

(* A row step leaves the run's cursor alone or ends the row's iteration. *)
LEMMA RowStepCursor ==
  ASSUME TypeOK, NEW q \in Runs, NEW x \in Rows, RowStep(q, x)
  PROVE  /\ InHand(q, x)
         /\ ahead' = ahead
         /\ \/ /\ UNCHANGED <<batch, committed, failed>>
               /\ \E s \in {"write", "link", "adopt", "reject"} :
                    pc' = [pc EXCEPT ![q] = s]
            \/ /\ Advance(q, x)
               /\ CountCommitted(q) \/ CountFailed(q)
BY DEF RowStep, Reserve, RowWritten, RowDuplicate, RowThrows, Link, LinkThrows,
       Adopt, Reject, TxnCommits, TxnAborts, Advance, cursorVars, tallyVars

(* Ending an iteration moves one document from the batch to the tally. *)
LEMMA AdvanceCounts ==
  ASSUME TypeOK, NEW q \in Runs, NEW x \in batch[q], Advance(q, x),
         CountCommitted(q) \/ CountFailed(q)
  PROVE  /\ batch'[q] = batch[q] \ {x}
         /\ committed'[q] + failed'[q] + Cardinality(batch'[q])
              = committed[q] + failed[q] + Cardinality(batch[q])
<1>1. batch'[q] = batch[q] \ {x}
  BY DEF Advance, TypeOK
<1>0. IsFiniteSet(batch[q]) /\ Cardinality(batch[q]) \in Nat
  BY RowsCount, CommitBatchAssumption DEF TypeOK
<1>2. Cardinality(batch'[q]) = Cardinality(batch[q]) - 1
  BY <1>0, <1>1, FS_RemoveElement
<1>3. committed'[q] + failed'[q] = committed[q] + failed[q] + 1
  BY DEF CountCommitted, CountFailed, TypeOK
<1> QED
  BY <1>0, <1>1, <1>2, <1>3 DEF TypeOK, CountCommitted, CountFailed

LimitInv ==
    /\ LimitRespected
    /\ \A q \in Runs : pc[q] = "fetch" => batch[q] = {}

(* A fetched batch fits into what the limit has left. *)
LEMMA FetchCounts ==
  ASSUME TypeOK, NEW q \in Runs, FetchBatch(q), NEW S,
         batch' = [batch EXCEPT ![q] = S],
         IsNextBatch(S, Selected \cap ahead[q], Room(q))
  PROVE  /\ batch'[q] = S
         /\ Cardinality(S) \in Nat
         /\ Limit > 0 => committed'[q] + failed'[q] + Cardinality(S) <= Limit
<1>1. batch'[q] = S
  BY DEF TypeOK
<1>2. S \subseteq Rows
  BY DEF IsNextBatch, TypeOK
<1>3. Cardinality(S) \in Nat
  BY <1>2, RowsCount
<1>4. Limit > 0 => Room(q) <= Limit - (committed[q] + failed[q])
  BY CommitBatchAssumption DEF Room, TypeOK
<1> QED
  BY <1>1, <1>3, <1>4, CommitBatchAssumption
     DEF IsNextBatch, FetchBatch, tallyVars, TypeOK, Room

(* No call processes more rows than its limit, whatever other runs, crashes *)
(* and failures do meanwhile (commitBatch.js:84).                           *)
THEOREM LimitHolds == Spec => []LimitRespected
<1>1. Init => LimitInv
  BY FS_EmptySet, CommitBatchAssumption DEF Init, LimitInv, LimitRespected
<1>2. TypeOK /\ TypeOK' /\ LimitInv /\ [Next]_vars => LimitInv'
  <2> SUFFICES ASSUME TypeOK, TypeOK', LimitInv, [Next]_vars
               PROVE  LimitInv'
    OBVIOUS
  <2> DEFINE Fits(r) == /\ Limit > 0 => committed[r] + failed[r] + Cardinality(batch[r]) <= Limit
                        /\ pc[r] = "fetch" => batch[r] = {}
  <2>0. SUFFICES ASSUME NEW r \in Runs
                 PROVE  Fits(r)'
    BY DEF LimitInv, LimitRespected
  <2>1. Fits(r)
    BY DEF LimitInv, LimitRespected
  <2>2. CASE UNCHANGED <<batch, committed, failed>> /\ (pc'[r] = "fetch" => pc[r] = "fetch")
    BY <2>1, <2>2
  <2>3. CASE batch'[r] = {} /\ committed'[r] = 0 /\ failed'[r] = 0
    BY <2>3, FS_EmptySet, CommitBatchAssumption
  <2>4. ASSUME NEW q \in Runs, CallBatch(q)
        PROVE  Fits(r)'
    <3>1. CASE r = q
      BY <2>3, <2>4, <3>1 DEF CallBatch, TypeOK
    <3>2. CASE r # q
      BY <2>1, <2>4, <3>2 DEF CallBatch, TypeOK
    <3> QED
      BY <3>1, <3>2
  <2>5. ASSUME NEW q \in Runs, FetchBatch(q)
        PROVE  Fits(r)'
    <3>1. PICK S \in SUBSET (Selected \cap ahead[q]) :
            /\ IsNextBatch(S, Selected \cap ahead[q], Room(q))
            /\ batch' = [batch EXCEPT ![q] = S]
            /\ pc' = [pc EXCEPT ![q] = IF S = {} THEN "done" ELSE "row"]
      BY <2>5 DEF FetchBatch
    <3>2. CASE r = q
      <4>1. pc'[q] # "fetch"
        BY <3>1 DEF TypeOK
      <4> QED
        BY <2>5, <3>1, <3>2, <4>1, FetchCounts
    <3>3. CASE r # q
      BY <2>1, <2>5, <3>1, <3>3 DEF FetchBatch, tallyVars, TypeOK
    <3> QED
      BY <3>2, <3>3
  <2>6. ASSUME NEW q \in Runs, NEW x \in Rows, RowStep(q, x)
        PROVE  Fits(r)'
    <3>1. CASE /\ UNCHANGED <<batch, committed, failed>>
               /\ \E s \in {"write", "link", "adopt", "reject"} :
                    pc' = [pc EXCEPT ![q] = s]
      BY <2>2, <3>1 DEF TypeOK
    <3>2. CASE Advance(q, x) /\ (CountCommitted(q) \/ CountFailed(q))
      <4>1. CASE r = q
        <5>1. x \in batch[q]
          BY <2>6, RowStepCursor DEF InHand
        <5>2. Limit > 0 => committed'[r] + failed'[r] + Cardinality(batch'[r]) <= Limit
          BY <2>1, <3>2, <4>1, <5>1, AdvanceCounts
        <5>3. pc'[r] = "fetch" => batch'[r] = {}
          BY <3>2, <4>1 DEF Advance, TypeOK
        <5> QED
          BY <5>2, <5>3
      <4>2. CASE r # q
        BY <2>1, <3>2, <4>2 DEF Advance, CountCommitted, CountFailed, TypeOK
      <4> QED
        BY <4>1, <4>2
    <3> QED
      BY <2>6, <3>1, <3>2, RowStepCursor
  <2>7. ASSUME NEW q \in Runs, Stop(q)
        PROVE  Fits(r)'
    <3>1. CASE r = q
      BY <2>3, <2>7, <3>1 DEF Stop, TypeOK
    <3>2. CASE r # q
      BY <2>1, <2>7, <3>2 DEF Stop, TypeOK
    <3> QED
      BY <3>1, <3>2
  <2>8. ASSUME (\E k \in Keys : ForeignInsert(k)) \/ Election \/ UNCHANGED vars
        PROVE  Fits(r)'
    BY <2>2, <2>8 DEF ForeignInsert, Election, vars, cursorVars, tallyVars
  <2> QED
    BY <2>4, <2>5, <2>6, <2>7, <2>8 DEF Next, BatchStep, Die, BatchThrows
<1> QED
  BY <1>1, <1>2, TypeCorrect, PTL DEF Spec, LimitInv

-----------------------------------------------------------------------------
\* A row the run has yet to process is ahead of the cursor or in its batch, and
\* what is in the batch is still open, but for a row whose write landed and
\* reported an error.
Drains(q) ==
    /\ \A x \in batch[q] : x \in Selected \/ (pc[q] = "reject" /\ InHand(q, x))
    /\ pc[q] = "fetch" => batch[q] = {}
    /\ pc[q] = "done" => ahead[q] = {} /\ batch[q] = {}
    /\ \/ pc[q] = "idle"
       \/ Limit > 0 /\ committed[q] + failed[q] + Cardinality(batch[q]) >= Limit
       \/ Selected \subseteq ahead[q] \cup batch[q]

DrainInv == \A q \in Runs : Drains(q)

(* Runs that have returned stay drained while rows are only closed. *)
LEMMA OthersStayDrained ==
  ASSUME TypeOK, DrainInv, NEW q \in Runs, Alone(q), Selected' \subseteq Selected,
         \A r \in Runs \ {q} :
            /\ pc'[r] = pc[r] /\ ahead'[r] = ahead[r] /\ batch'[r] = batch[r]
            /\ committed'[r] = committed[r] /\ failed'[r] = failed[r],
         Drains(q)'
  PROVE  DrainInv'
<1> SUFFICES ASSUME NEW r \in Runs \ {q}
             PROVE  Drains(r)'
  BY DEF DrainInv
<1>1. Drains(r) /\ batch[r] = {} /\ pc[r] \in {"idle", "done"}
  BY DEF DrainInv, Alone, Active
<1> QED
  BY <1>1 DEF Drains

(* A row step closes the row in hand or leaves it open, and no other row. *)
LEMMA RowStepSelected ==
  ASSUME TypeOK, DrainInv, NEW q \in Runs, NEW x \in Rows, RowStep(q, x)
  PROVE  /\ Selected' \subseteq Selected
         /\ Selected \ {x} \subseteq Selected'
         /\ Advance(q, x) => x \notin Selected'
         /\ UNCHANGED batch => x \in Selected' \/ pc'[q] = "reject"
<1>0. InHand(q, x) /\ x \in batch[q]
  BY RowStepCursor DEF InHand
<1>1. x \in Selected \/ pc[q] = "reject"
  BY <1>0 DEF DrainInv, Drains
<1>2. ~(Advance(q, x) /\ UNCHANGED batch)
  BY <1>0 DEF Advance, TypeOK
<1>3. \/ UNCHANGED <<commitStatus, batch>> /\ pc[q] # "reject"
      \/ /\ pc[q] # "reject" /\ UNCHANGED batch
         /\ commitStatus' = [commitStatus EXCEPT ![x] = "committing"]
      \/ /\ \E s \in {"committed", "failed"} :
               commitStatus' = [commitStatus EXCEPT ![x] = s]
         /\ UNCHANGED batch => pc'[q] = "reject"
  <2> USE DEF TypeOK, jobVars, cursorVars
  <2>1. CASE Reserve(q, x)
    BY <2>1 DEF Reserve
  <2>2. CASE RowWritten(q, x) \/ RowDuplicate(q, x) \/ RowThrows(q, x) \/ TxnAborts(q, x)
    BY <2>2 DEF RowWritten, RowDuplicate, RowThrows, TxnAborts
  <2>3. CASE LinkThrows(q, x)
    BY <2>3 DEF LinkThrows
  <2>4. CASE Link(q, x) \/ Adopt(q, x) \/ Reject(q, x)
    BY <1>2, <2>4 DEF Link, Adopt, Reject
  <2>5. CASE TxnCommits(q, x)
    BY <1>2, <2>5 DEF TxnCommits
  <2> QED
    BY <2>1, <2>2, <2>3, <2>4, <2>5 DEF RowStep
<1>4. \A y \in Valid \ {x} : commitStatus'[y] = commitStatus[y]
  BY <1>3, CommitBatchAssumption DEF TypeOK
<1>5. Selected \ {x} \subseteq Selected' /\ Selected' \ {x} \subseteq Selected
  BY <1>4 DEF Selected
<1>6. CASE pc[q] # "reject" /\ UNCHANGED batch /\ (x \in Selected => x \in Selected')
  BY <1>1, <1>2, <1>5, <1>6
<1>7. CASE x \notin Selected' /\ (UNCHANGED batch => pc'[q] = "reject")
  BY <1>5, <1>7
<1>8. \/ pc[q] # "reject" /\ UNCHANGED batch /\ (x \in Selected => x \in Selected')
      \/ x \notin Selected' /\ (UNCHANGED batch => pc'[q] = "reject")
  BY <1>3 DEF Selected, TypeOK
<1> QED
  BY <1>6, <1>7, <1>8

(* Fetching a batch skips no open row. *)
LEMMA FetchDrains ==
  ASSUME TypeOK, DrainInv, NEW q \in Runs, Alone(q), FetchBatch(q)
  PROVE  DrainInv'
<1>1. PICK S \in SUBSET (Selected \cap ahead[q]) :
        /\ IsNextBatch(S, Selected \cap ahead[q], Room(q))
        /\ batch' = [batch EXCEPT ![q] = S]
        /\ ahead' = [ahead EXCEPT ![q] =
                       IF ClosesCursor(q, S) THEN {}
                       ELSE {y \in @ : \A x \in S : x < y}]
        /\ pc' = [pc EXCEPT ![q] = IF S = {} THEN "done" ELSE "row"]
  BY DEF FetchBatch
<1>2. /\ Selected' = Selected
      /\ committed' = committed /\ failed' = failed
      /\ pc[q] = "fetch"
  BY DEF FetchBatch, Selected, jobVars, tallyVars
<1>3. /\ batch'[q] = S /\ pc'[q] = IF S = {} THEN "done" ELSE "row"
      /\ ahead'[q] = IF ClosesCursor(q, S) THEN {}
                     ELSE {y \in ahead[q] : \A x \in S : x < y}
  BY <1>1 DEF TypeOK
<1>4. /\ S \subseteq Rows /\ Cardinality(S) \in Nat
      /\ Limit > 0 => committed[q] + failed[q] + Cardinality(S) <= Limit
  BY <1>1, <1>2, FetchCounts, CommitBatchAssumption DEF Selected
<1>5. \/ Selected \subseteq ahead[q]
      \/ Limit > 0 /\ committed[q] + failed[q] >= Limit
  <2>1. batch[q] = {} /\ Cardinality(batch[q]) = 0
    BY <1>2, FS_EmptySet DEF DrainInv, Drains
  <2>2. \/ Limit > 0 /\ committed[q] + failed[q] + Cardinality(batch[q]) >= Limit
        \/ Selected \subseteq ahead[q] \cup batch[q]
    BY <1>2 DEF DrainInv, Drains
  <2>3. committed[q] \in Nat /\ failed[q] \in Nat
    BY DEF TypeOK
  <2>4. CASE Limit > 0 /\ committed[q] + failed[q] + Cardinality(batch[q]) >= Limit
    BY <2>1, <2>3, <2>4
  <2>5. CASE Selected \subseteq ahead[q] \cup batch[q]
    <3>1. batch[q] = {}
      BY <2>1
    <3> QED
      BY <3>1, <2>5, Zenon
  <2> QED
    BY <2>2, <2>4, <2>5
<1>6. S = {} => ClosesCursor(q, S)
  <2>1. ASSUME S = {}
        PROVE  \/ Cardinality(S) < Room(q)
               \/ Limit > 0 /\ committed[q] + failed[q] + Cardinality(S) = Limit
    <3>1. Cardinality(S) = 0 /\ 0 <= Room(q)
      BY <1>1, <2>1, FS_EmptySet DEF IsNextBatch
    <3>2. /\ committed[q] \in Nat /\ failed[q] \in Nat
          /\ Limit \in Nat /\ BatchSize \in Nat \ {0}
      BY CommitBatchAssumption DEF TypeOK
    <3>3. CASE Limit = 0 \/ BatchSize < Limit - (committed[q] + failed[q])
      <4>1. Room(q) = BatchSize
        BY <3>3 DEF Room
      <4> QED
        BY <3>1, <3>2, <4>1
    <3>4. CASE ~(Limit = 0 \/ BatchSize < Limit - (committed[q] + failed[q]))
      <4>1. Room(q) = Limit - (committed[q] + failed[q])
        BY <3>4 DEF Room
      <4> QED
        BY <3>1, <3>2, <3>4, <4>1
    <3> QED
      BY <3>3, <3>4
  <2> QED
    BY <2>1 DEF ClosesCursor
<1>7. \/ Limit > 0 /\ committed[q] + failed[q] + Cardinality(S) >= Limit
      \/ Selected \subseteq ahead'[q] \cup S
  <2> SUFFICES ASSUME ~(Limit > 0 /\ committed[q] + failed[q] + Cardinality(S) >= Limit)
               PROVE  Selected \subseteq ahead'[q] \cup S
    OBVIOUS
  <2>1. Selected \subseteq ahead[q]
    BY <1>4, <1>5, CommitBatchAssumption DEF TypeOK
  <2>2. CASE ClosesCursor(q, S)
    <3>1. Cardinality(S) < Room(q)
      BY <1>4, <2>2, CommitBatchAssumption DEF ClosesCursor, TypeOK
    <3> QED
      BY <1>1, <2>1, <3>1 DEF IsNextBatch
  <2>3. CASE ~ClosesCursor(q, S)
    BY <1>1, <1>3, <2>1, <2>3 DEF IsNextBatch
  <2> QED
    BY <2>2, <2>3
<1>8. S \subseteq Selected
  BY <1>1
<1>9. /\ \A x \in batch'[q] : x \in Selected'
      /\ pc'[q] # "fetch"
      /\ pc'[q] = "done" => ahead'[q] = {} /\ batch'[q] = {}
      /\ \/ Limit > 0 /\ committed'[q] + failed'[q] + Cardinality(batch'[q]) >= Limit
         \/ Selected' \subseteq ahead'[q] \cup batch'[q]
  BY <1>2, <1>3, <1>6, <1>7, <1>8
<1>10. Drains(q)'
  BY <1>9 DEF Drains
<1> QED
  BY <1>1, <1>2, <1>10, OthersStayDrained DEF TypeOK

(* Working on a row skips no open row. *)
LEMMA RowStepDrains ==
  ASSUME TypeOK, DrainInv, NEW q \in Runs, Alone(q), NEW x \in Rows, RowStep(q, x)
  PROVE  DrainInv'
<1>1. InHand(q, x) /\ x \in batch[q] /\ ahead' = ahead
  BY RowStepCursor DEF InHand
<1>2. /\ Selected' \subseteq Selected
      /\ Selected \ {x} \subseteq Selected'
      /\ Advance(q, x) => x \notin Selected'
      /\ UNCHANGED batch => x \in Selected' \/ pc'[q] = "reject"
  BY RowStepSelected
<1>3. \A y \in batch[q] : y = x \/ y \in Selected
  <2>1. batch[q] \subseteq Rows
    BY CommitBatchAssumption DEF TypeOK
  <2> QED
    BY <1>1, <2>1, InHandUnique DEF DrainInv, Drains
<1>4. pc[q] \notin {"idle", "fetch", "done"}
  BY <1>1 DEF RowStep, Reserve, RowWritten, RowDuplicate, RowThrows, Link,
              LinkThrows, Adopt, Reject, TxnCommits, TxnAborts
<1>5. \/ Limit > 0 /\ committed[q] + failed[q] + Cardinality(batch[q]) >= Limit
      \/ Selected \subseteq ahead[q] \cup batch[q]
  BY <1>4 DEF DrainInv, Drains
<1>6. CASE /\ UNCHANGED <<batch, committed, failed>>
           /\ \E s \in {"write", "link", "adopt", "reject"} :
                pc' = [pc EXCEPT ![q] = s]
  <2>1. pc'[q] \notin {"fetch", "done"}
    BY <1>6 DEF TypeOK
  <2>2. \A y \in batch'[q] : y \in Selected' \/ (pc'[q] = "reject" /\ InHand(q, y)')
    BY <1>1, <1>2, <1>3, <1>6 DEF InHand
  <2>3. \/ Limit > 0 /\ committed'[q] + failed'[q] + Cardinality(batch'[q]) >= Limit
        \/ Selected' \subseteq ahead'[q] \cup batch'[q]
    BY <1>1, <1>2, <1>5, <1>6
  <2>4. Drains(q)'
    BY <2>1, <2>2, <2>3 DEF Drains
  <2> QED
    BY <1>1, <1>2, <1>6, <2>4, OthersStayDrained DEF TypeOK
<1>7. CASE Advance(q, x) /\ (CountCommitted(q) \/ CountFailed(q))
  <2>1. /\ batch'[q] = batch[q] \ {x}
        /\ committed'[q] + failed'[q] + Cardinality(batch'[q])
              = committed[q] + failed[q] + Cardinality(batch[q])
    BY <1>1, <1>7, AdvanceCounts
  <2>2. \A y \in batch'[q] : y \in Selected'
    BY <1>2, <1>3, <2>1
  <2>3. /\ pc'[q] = "fetch" => batch'[q] = {}
        /\ pc'[q] = "done" => ahead'[q] = {} /\ batch'[q] = {}
    BY <1>1, <1>7, <2>1 DEF Advance, TypeOK
  <2>4. \/ Limit > 0 /\ committed'[q] + failed'[q] + Cardinality(batch'[q]) >= Limit
        \/ Selected' \subseteq ahead'[q] \cup batch'[q]
    BY <1>1, <1>2, <1>5, <1>7, <2>1
  <2>5. Drains(q)'
    BY <2>2, <2>3, <2>4 DEF Drains
  <2> QED
    BY <1>1, <1>2, <1>7, <2>5, OthersStayDrained
       DEF Advance, CountCommitted, CountFailed, TypeOK
<1> QED
  BY <1>6, <1>7, RowStepCursor

LEMMA DrainInvInit == Init => DrainInv
BY DEF Init, DrainInv, Drains

(* A step of a run that is alone skips no open row. *)
LEMMA AloneDrains ==
  ASSUME TypeOK, DrainInv, NEW q \in Runs, Alone(q),
         CallBatch(q) \/ BatchStep(q) \/ (Stop(q) /\ UNCHANGED commitStatus)
  PROVE  DrainInv'
<1>1. CASE CallBatch(q)
  <2>1. /\ batch'[q] = {} /\ ahead'[q] = Rows /\ pc'[q] = "fetch"
        /\ Selected' = Selected
    BY <1>1 DEF CallBatch, TypeOK, Selected, jobVars
  <2>2. Selected \subseteq Rows
    BY CommitBatchAssumption DEF Selected
  <2>3. Drains(q)'
    BY <2>1, <2>2 DEF Drains
  <2> QED
    BY <1>1, <2>1, <2>3, OthersStayDrained DEF CallBatch, TypeOK
<1>2. CASE FetchBatch(q)
  BY <1>2, FetchDrains
<1>3. ASSUME NEW x \in Rows, RowStep(q, x)
      PROVE  DrainInv'
  BY <1>3, RowStepDrains
<1>4. CASE Stop(q) /\ UNCHANGED commitStatus
  <2>1. pc'[q] = "idle" /\ batch'[q] = {} /\ Selected' = Selected
    BY <1>4 DEF Stop, TypeOK, Selected
  <2>2. Drains(q)'
    BY <2>1 DEF Drains
  <2> QED
    BY <1>4, <2>1, <2>2, OthersStayDrained DEF Stop, TypeOK
<1> QED
  BY <1>1, <1>2, <1>3, <1>4 DEF BatchStep

(* Nor does anything that other writers or the replica set do. *)
LEMMA OthersDrain ==
  ASSUME TypeOK, DrainInv, (\E k \in Keys : ForeignInsert(k)) \/ Election \/ UNCHANGED vars
  PROVE  DrainInv'
<1>1. UNCHANGED <<commitStatus, pc, ahead, batch, committed, failed>>
  BY DEF ForeignInsert, Election, vars, jobVars, cursorVars, tallyVars
<1>2. Selected' = Selected /\ \A q \in Runs, x \in Rows : InHand(q, x)' = InHand(q, x)
  BY <1>1 DEF Selected, InHand
<1>3. \A q \in Runs : batch[q] \subseteq Rows
  BY CommitBatchAssumption DEF TypeOK
<1> QED
  BY <1>1, <1>2, <1>3 DEF DrainInv, Drains

(* DrainInv is inductive while calls do not overlap. *)
LEMMA DrainInvStep ==
  ASSUME NoOverlap, NoOverlap', Emptied, TypeOK, DrainInv, [Next]_vars
  PROVE  DrainInv'
<1>1. ASSUME NEW q \in Runs, CallBatch(q)
      PROVE  DrainInv'
  BY <1>1, CallIsAlone, AloneDrains
<1>2. ASSUME NEW q \in Runs, BatchStep(q)
      PROVE  DrainInv'
  BY <1>2, BatchStepMoves, ActiveIsAlone, AloneDrains
<1>3. ASSUME NEW q \in Runs, Die(q) \/ BatchThrows(q)
      PROVE  DrainInv'
  <2>1. Active(q) /\ Stop(q) /\ UNCHANGED commitStatus
    BY <1>3 DEF Die, BatchThrows, Active, jobVars
  <2> QED
    BY <2>1, ActiveIsAlone, AloneDrains
<1>4. CASE (\E k \in Keys : ForeignInsert(k)) \/ Election \/ UNCHANGED vars
  BY <1>4, OthersDrain
<1> QED
  BY <1>1, <1>2, <1>3, <1>4 DEF Next

(* The rows without an outcome are the ones the cursor's filter selects. *)
LEMMA OpenIsSelected == TypeOK => OpenRows = Selected
BY CommitBatchAssumption DEF TypeOK, Status, OpenRows, ReportOf, Selected

LEMMA DrainInvariant == Spec /\ []NoOverlap => []DrainInv
<1>1. NoOverlap /\ NoOverlap' /\ Emptied /\ TypeOK /\ DrainInv /\ [Next]_vars => DrainInv'
  BY DrainInvStep
<1> QED
  BY <1>1, DrainInvInit, AlwaysEmptied, TypeCorrect, PTL DEF Spec

(* So long as no two calls overlap, one that returns below its limit has left *)
(* no valid row open, whatever crashes and failed calls came before it.       *)
THEOREM ReturnDrains == Spec /\ []NoOverlap => []ReturnMeansDrained
<1>1. TypeOK /\ DrainInv => ReturnMeansDrained
  <2> SUFFICES ASSUME TypeOK, DrainInv, NEW q \in Runs, pc[q] = "done",
                      Limit = 0 \/ committed[q] + failed[q] < Limit
               PROVE  OpenRows = {}
    BY DEF ReturnMeansDrained
  <2>1. ahead[q] = {} /\ batch[q] = {} /\ Cardinality(batch[q]) = 0
    BY FS_EmptySet DEF DrainInv, Drains
  <2>2. /\ committed[q] \in Nat /\ failed[q] \in Nat /\ Limit \in Nat
    BY CommitBatchAssumption DEF TypeOK
  <2>3. ~(Limit > 0 /\ committed[q] + failed[q] + Cardinality(batch[q]) >= Limit)
    BY <2>1, <2>2
  <2>4. Selected \subseteq ahead[q] \cup batch[q]
    BY <2>3 DEF DrainInv, Drains
  <2> QED
    BY <2>1, <2>4, OpenIsSelected
<1> QED
  BY <1>1, DrainInvariant, TypeCorrect, PTL

-----------------------------------------------------------------------------
(* What a run counts.                                                      *)

\* Valid rows with outcome s that no run has in its batch any more.  A row in
\* hand may still change: one whose link landed and reported an error is failed.
Settled(s) ==
    {x \in Valid : commitStatus[x] = s /\ \A q \in Runs : x \notin batch[q]}

Outcomes == {"committed", "failed"}

LEMMA SettledCount ==
  /\ \A s \in Outcomes : IsFiniteSet(Settled(s)) /\ Cardinality(Settled(s)) \in Nat
  /\ \A s \in Outcomes : IsFiniteSet(Settled(s)') /\ Cardinality(Settled(s)') \in Nat
<1>1. \A s \in Outcomes : Settled(s) \in SUBSET Rows /\ Settled(s)' \in SUBSET Rows
  BY CommitBatchAssumption DEF Settled
<1> QED
  BY <1>1, RowsCount

\* The step counts row x with outcome s, and settles no other row.
Settles(x, s) ==
    /\ x \notin Settled(s)
    /\ Settled(s)' = Settled(s) \cup {x}
    /\ \A t \in Outcomes \ {s} : Settled(t)' = Settled(t)

(* A run that is alone settles a row when it counts it, and then for good. *)
LEMMA RowStepSettles ==
  ASSUME TypeOK, TypeOK', NEW q \in Runs, Alone(q), NEW x \in Rows, RowStep(q, x)
  PROVE  \/ UNCHANGED tallyVars /\ \A s \in Outcomes : Settled(s)' = Settled(s)
         \/ CountCommitted(q) /\ Settles(x, "committed")
         \/ CountFailed(q) /\ Settles(x, "failed")
<1>1. InHand(q, x) /\ x \in batch[q] /\ x \in Valid
  BY RowStepCursor, CommitBatchAssumption DEF InHand, TypeOK
<1>2. /\ \A y \in Rows \ {x} : commitStatus'[y] = commitStatus[y]
      /\ \A r \in Runs : batch[r] \ {x} = batch'[r] \ {x}
      /\ \/ UNCHANGED tallyVars /\ UNCHANGED batch
         \/ CountCommitted(q) /\ Advance(q, x) /\ commitStatus'[x] = "committed"
         \/ CountFailed(q) /\ Advance(q, x) /\ commitStatus'[x] = "failed"
  BY DEF RowStep, Reserve, RowWritten, RowDuplicate, RowThrows, Link, LinkThrows, Adopt,
         Reject, TxnCommits, TxnAborts, Advance, TypeOK, jobVars, cursorVars, tallyVars
<1>3. \A s \in Outcomes : Settled(s)' \ {x} = Settled(s) /\ x \notin Settled(s)
  BY <1>1, <1>2, CommitBatchAssumption DEF Settled
<1>4. UNCHANGED batch => \A s \in Outcomes : x \notin Settled(s)'
  BY <1>1 DEF Settled
<1>5. Advance(q, x) => \A r \in Runs : x \notin batch'[r]
  BY DEF Advance, TypeOK, Alone
<1>6. \A s \in Outcomes : Advance(q, x) => (x \in Settled(s)' <=> commitStatus'[x] = s)
  BY <1>1, <1>5 DEF Settled
<1>7. CASE UNCHANGED tallyVars /\ UNCHANGED batch
  BY <1>3, <1>4, <1>7
<1>8. CASE CountCommitted(q) /\ Advance(q, x) /\ commitStatus'[x] = "committed"
  BY <1>3, <1>6, <1>8 DEF Settles, Outcomes
<1>9. CASE CountFailed(q) /\ Advance(q, x) /\ commitStatus'[x] = "failed"
  BY <1>3, <1>6, <1>9 DEF Settles, Outcomes
<1> QED
  BY <1>2, <1>7, <1>8, <1>9

(* Steps that leave the rows alone leave settled what was. *)
LEMMA RestSettles ==
  ASSUME UNCHANGED commitStatus, \A r \in Runs : batch'[r] \subseteq batch[r] \cup Selected
  PROVE  \A s \in Outcomes : Settled(s) \subseteq Settled(s)'
BY DEF Settled, Selected, Outcomes

(* A step of the engine that counts a row has settled it: what a run has      *)
(* counted, added to what was settled before it began, is settled.            *)
LEMMA BatchStepCounts ==
  ASSUME TypeOK, TypeOK', NEW q \in Runs, Alone(q), BatchStep(q),
         \A r \in Runs : pc[r] = "fetch" => batch[r] = {}
  PROVE  /\ \A s \in Outcomes : Settled(s) \subseteq Settled(s)'
         /\ committed'[q] - committed[q] =
               Cardinality(Settled("committed")') - Cardinality(Settled("committed"))
         /\ failed'[q] - failed[q] =
               Cardinality(Settled("failed")') - Cardinality(Settled("failed"))
<1>1. /\ IsFiniteSet(Settled("committed")) /\ IsFiniteSet(Settled("failed"))
      /\ Cardinality(Settled("committed")) \in Nat /\ Cardinality(Settled("failed")) \in Nat
  BY SettledCount DEF Outcomes
<1>2. CASE UNCHANGED tallyVars /\ \A s \in Outcomes : Settled(s)' = Settled(s)
  BY <1>1, <1>2 DEF tallyVars, Outcomes, TypeOK
<1>3. ASSUME NEW x \in Rows, RowStep(q, x)
      PROVE  /\ \A s \in Outcomes : Settled(s) \subseteq Settled(s)'
             /\ committed'[q] - committed[q] =
                   Cardinality(Settled("committed")') - Cardinality(Settled("committed"))
             /\ failed'[q] - failed[q] =
                   Cardinality(Settled("failed")') - Cardinality(Settled("failed"))
  <2>1. CASE CountCommitted(q) /\ Settles(x, "committed")
    <3>1. committed'[q] = committed[q] + 1 /\ failed'[q] = failed[q]
      BY <2>1 DEF CountCommitted, TypeOK
    <3>2. /\ x \notin Settled("committed")
          /\ Settled("committed")' = Settled("committed") \cup {x}
          /\ Settled("failed")' = Settled("failed")
      BY <2>1 DEF Settles, Outcomes
    <3>3. Cardinality(Settled("committed")') = Cardinality(Settled("committed")) + 1
      BY <1>1, <3>2, FS_AddElement
    <3> QED
      BY <1>1, <3>1, <3>2, <3>3 DEF TypeOK, Outcomes
  <2>2. CASE CountFailed(q) /\ Settles(x, "failed")
    <3>1. failed'[q] = failed[q] + 1 /\ committed'[q] = committed[q]
      BY <2>2 DEF CountFailed, TypeOK
    <3>2. /\ x \notin Settled("failed")
          /\ Settled("failed")' = Settled("failed") \cup {x}
          /\ Settled("committed")' = Settled("committed")
      BY <2>2 DEF Settles, Outcomes
    <3>3. Cardinality(Settled("failed")') = Cardinality(Settled("failed")) + 1
      BY <1>1, <3>2, FS_AddElement
    <3> QED
      BY <1>1, <3>1, <3>2, <3>3 DEF TypeOK, Outcomes
  <2> QED
    BY <1>2, <1>3, <2>1, <2>2, RowStepSettles
<1>4. CASE FetchBatch(q)
  <2>1. PICK S \in SUBSET Selected : batch' = [batch EXCEPT ![q] = S]
    BY <1>4 DEF FetchBatch
  <2>2. UNCHANGED <<tallyVars, commitStatus>> /\ batch[q] = {}
    BY <1>4 DEF FetchBatch, jobVars
  <2>3. \A s \in Outcomes : Settled(s)' = Settled(s)
    BY <2>1, <2>2 DEF Settled, Selected, Outcomes, TypeOK
  <2> QED
    BY <1>2, <2>2, <2>3
<1> QED
  BY <1>3, <1>4 DEF BatchStep

=============================================================================
