------------------------- MODULE ImportIntakeProofs -------------------------
(***************************************************************************)
(* Proofs about ImportIntake, for any files, ceilings, tenants, uploads,   *)
(* executions and failures: no read holds more records than its ceiling,   *)
(* a staged job has all rows of its file, only files that are damaged or   *)
(* ask for it are refused, and what a rejection says is true.              *)
(***************************************************************************)
EXTENDS ImportIntake, SqlDumpProofs

-----------------------------------------------------------------------------
(* Parts of the inductive invariant. *)

\* The rows of a file that is no dump, and what has been read of them so far.
FileRows(f) == {k \in DOMAIN f.items : f.items[k] = "row"}
RowsUpto(f, n) == {k \in 1..n : f.items[k] = "row"}

Phases == {"idle", "reading", "archived", "done", "dead"}
Statuses == {"none", "pending_upload", "uploaded", "staged", "guardrail_rejected", "failed"}
Outcomes == {"pending", "accepted", "exceeded", "malformed", "unreadable"}

ShapeOK ==
    /\ mode \in Modes /\ sqlTable \in Tables
    /\ file \in Files \cup {NoFile} /\ copy \in Files \cup {NoFile}
    /\ puts \in 0..MaxPuts /\ attempts \in 0..MaxAttempts
    /\ DOMAIN verified = Clients
    /\ \A client \in Clients : verified[client].exists => verified[client].sizeBytes \in Nat
    /\ due \in Nat /\ measured \in Nat
    /\ at \in Phases /\ job.status \in Statuses
    /\ format \in {"csv", "json", "excel", "sql", Unknown}
    /\ stream \in {"open", "ended", "destroyed", "broken", "closed"}
    /\ outcome.kind \in Outcomes
    /\ answer.code \in {0, 200, 201, 400, 413, 500}

\* Where a job is that waits for its file, or for an execution.  One whose file was
\* sent with the request has no label.
Fetched == job.label \in DOMAIN Extensions
WaitingOK ==
    /\ DOMAIN job = {"status", "label", "verdict", "rows"}
    /\ Fetched /\ file # NoFile => file.label = job.label
    /\ Fetched => job.status = "pending_upload" \/ file # NoFile
    /\ attempts > 0 \/ job.status \in {"pending_upload", "uploaded"} => Fetched
    /\ \A client \in Clients : verified[client].exists => Fetched /\ file # NoFile
    /\ at = "idle" => Fetched \/ (job.status = "none" /\ file = NoFile /\ copy = NoFile)
    /\ job.status = "none" => ~Fetched
    /\ at \in {"reading", "archived", "dead"} =>
         IF attempts = 0 THEN job.status = "none" ELSE Stageable

\* The race of the stream's events: while the read is not settled, the records are
\* the rows among the items delivered, and once it is, it has the file for a reason.
RaceOK ==
    /\ at \in {"reading", "archived", "dead"} => copy \in Files
    /\ next \in Nat /\ (copy \in Files => next <= Items(copy))
    /\ copy = NoFile => next = 0 /\ outcome = Pending
    /\ records \in Seq(Nat) /\ (format # "excel" => Len(records) <= RowLimit)
    /\ outcome = Pending => Lists(records, RowsUpto(copy, next)) /\ stream \notin {"ended", "destroyed"}
    /\ outcome.kind = "pending" => outcome = Pending
    /\ stream = "open" => outcome = Pending

\* What the rows of a read, and its refusal, must be to be right of the file.
Dump == Dumps[copy.dump]
WholeRead(rows) ==
    IF format = "sql" THEN Holds(Dump, rows, RowsOf(copy))
    ELSE rows \in Seq(Nat) /\ Lists(rows, RowsOf(copy)) /\ copy.whole
Damaged ==
    IF format = "sql"
    THEN \/ IF sqlTable = NoTable THEN Cardinality(TablesOf(Dump)) # 1 ELSE NameOf[sqlTable] \notin TablesOf(Dump)
         \/ \E n \in RowsOf(copy) : ColumnsText[Dump.tuples[n].head] = <<>>
    ELSE ~copy.whole \/ (format = "json" /\ ~copy.array)

DecidedOK ==
    /\ outcome.kind = "accepted" => Len(outcome.records) <= RowLimit /\ WholeRead(outcome.records)
    /\ outcome.kind = "exceeded" => RowLimit < Cardinality(RowsOf(copy))
    /\ outcome.kind = "malformed" => Damaged
    /\ at = "dead" => format = "json" /\ ~copy.whole

\* The scanner's state.
IsList(s) == s \in Seq({s[k] : k \in DOMAIN s})
ScanOK ==
    /\ DOMAIN scan = DOMAIN FreshScan(NoTable)
    /\ scan.mode \in {"exec", "tuples", "tuple", "string", "delimiter", "done"}
    /\ scan.verdict \in {"none", "rows", "exceeded", "refused"}
    /\ scan.mode = "done" => scan.verdict # "none"
    /\ IsList(scan.rows) /\ Len(scan.rows) <= RowLimit

\* The scanner reads the dump that was sent, and is right of it.
DumpOK ==
    at = "reading" /\ format = "sql" => sql = Dump.text /\ ScanRight(scan, Dump, sqlTable, RowLimit)

StagedOK ==
    job.status = "staged" => outcome.kind = "accepted" /\ job.rows = outcome.records

\* What the tenant may have been told; what the job keeps of a rejection; and what it
\* says while it is rejected.
RowsEnvelope == describeGuardrailRejection("rows", RowLimit)
BytesEnvelope == describeGuardrailRejection("bytes", ByteLimit)
MulterEnvelope == describeGuardrailRejection("bytes", TierBytes["shared"])
PartnerEnvelope == Told("partner", BytesEnvelope)
EnvelopeOK(e) ==
    \/ e \in {NoEnvelope, BytesEnvelope, PartnerEnvelope}
    \/ at = "done" /\ e = MulterEnvelope
    \/ at = "done" /\ e = RowsEnvelope /\ outcome.kind = "exceeded"
IsVerdict(e) ==
    \/ e = NoEnvelope
    \/ e.dimension \in {"rows", "bytes"} /\ DOMAIN e = {"dimension", "limit", "upgrade", "reason"}
RejectedOK ==
    /\ EnvelopeOK(answer.envelope) /\ IsVerdict(job.verdict)
    /\ job.status = "guardrail_rejected" =>
         job.verdict \in {RowsEnvelope, BytesEnvelope} /\ job.verdict.limit < measured

IntakeInv ==
    ShapeOK /\ WaitingOK /\ RaceOK /\ DecidedOK /\ ScanOK /\ DumpOK /\ StagedOK /\ RejectedOK

-----------------------------------------------------------------------------
(* The constants and the data. *)

LEMMA LimitsAreNumbers ==
  ASSUME mode \in Modes
  PROVE  Tier \in Tiers /\ RowLimit \in Nat /\ ByteLimit \in Nat
<1>1. Tier \in Tiers
  BY DEF Tier, Tiers
<1>2. PolicyRows \in [Tiers -> Nat] /\ PolicyBytes \in [Tiers -> Nat]
  BY ImportIntakeAssumption
<1> QED
  BY <1>1, <1>2 DEF RowLimit, ByteLimit

LEMMA FileItems ==
  ASSUME NEW f \in Files
  PROVE  /\ DOMAIN f.items = 1..Len(f.items) /\ Len(f.items) \in Nat
         /\ Items(f) \in Nat /\ Items(f) <= Len(f.items) /\ (f.whole => Items(f) = Len(f.items))
         /\ f # NoFile
<1>1. f.items \in Seq({"row", "other"}) /\ f.bad \in 0..Len(f.items)
  BY ImportIntakeAssumption
<1>2. Len(f.items) \in Nat /\ DOMAIN f.items = 1..Len(f.items)
  BY <1>1
<1>3. f # NoFile
  BY ImportIntakeAssumption
<1> QED
  BY <1>1, <1>2, <1>3 DEF Items

\* A list of sequences is one however its elements look.
LEMMA ListOfNone == IsList(<<>>) /\ Len(<<>>) = 0
BY DEF IsList

LEMMA ListAppend ==
  ASSUME NEW s, IsList(s), NEW e
  PROVE  IsList(Append(s, e)) /\ Len(Append(s, e)) = Len(s) + 1 /\ Len(s) \in Nat
<1> DEFINE E == {s[k] : k \in DOMAIN s} \cup {e}
           t == Append(s, e)
<1>1. s \in Seq(E)
  BY DEF IsList
<1>2. t \in Seq(E) /\ Len(t) = Len(s) + 1 /\ Len(s) \in Nat
  BY <1>1
<1> HIDE DEF t, E
<1>3. t = [k \in 1..Len(t) |-> t[k]] /\ DOMAIN t = 1..Len(t)
  BY <1>2
<1>4. t \in Seq({t[k] : k \in DOMAIN t})
  <2>1. \A k \in 1..Len(t) : t[k] \in {t[m] : m \in DOMAIN t}
    BY <1>3
  <2> QED
    BY <1>2, <1>3, <2>1
<1> QED
  BY <1>2, <1>4 DEF IsList, t

\* Delivering an item adds it to the rows read, if it is one.
LEMMA ListsNext ==
  ASSUME NEW f, NEW n \in Nat, NEW list \in Seq(Nat), Lists(list, RowsUpto(f, n))
  PROVE  /\ f.items[n + 1] # "row" => Lists(list, RowsUpto(f, n + 1))
         /\ f.items[n + 1] = "row" =>
              Lists(Append(list, n + 1), RowsUpto(f, n + 1)) /\ Append(list, n + 1) \in Seq(Nat)
<1>1. RowsUpto(f, n + 1) = IF f.items[n + 1] = "row" THEN RowsUpto(f, n) \cup {n + 1}
                                                     ELSE RowsUpto(f, n)
  BY DEF RowsUpto
<1>2. CASE f.items[n + 1] # "row"
  BY <1>1, <1>2
<1>3. CASE f.items[n + 1] = "row"
  <2>1. \A x \in RowsUpto(f, n) : x < n + 1
    BY DEF RowsUpto
  <2>2. n + 1 \in Nat
    OBVIOUS
  <2> QED
    BY <1>1, <1>3, <2>1, <2>2, ListsAppend
<1> QED
  BY <1>2, <1>3

LEMMA NothingRead ==
  ASSUME NEW f
  PROVE  Lists(<<>>, RowsUpto(f, 0))
<1>1. RowsUpto(f, 0) = {}
  BY DEF RowsUpto
<1> QED
  BY <1>1 DEF Lists

\* All items read.
LEMMA AllRead ==
  ASSUME NEW f \in Files, f.whole
  PROVE  RowsUpto(f, Items(f)) = FileRows(f)
BY FileItems DEF RowsUpto, FileRows

-----------------------------------------------------------------------------
(* The scanner of a dump. *)

\* What a step makes of the rows: it keeps them, drops them or adds one to them
\* that there is room for.
RowsKept(next_) ==
    /\ DOMAIN next_ = DOMAIN scan
    /\ next_.mode \in {"exec", "tuples", "tuple", "string", "delimiter", "done"}
    /\ next_.verdict \in {"none", "rows", "exceeded", "refused"}
    /\ next_.mode = "done" => next_.verdict # "none"
    /\ \/ next_.rows = scan.rows \/ next_.rows = <<>>
       \/ Len(scan.rows) < RowLimit /\ \E row : next_.rows = Append(scan.rows, row)

LEMMA ScanFields ==
  ASSUME ScanOK
  PROVE  DOMAIN scan = {"mode", "i", "names", "target", "head", "had", "values", "out",
                        "rows", "verdict"}
BY DEF ScanOK, FreshScan

LEMMA FreshScanOK == \A target : LET s == FreshScan(target) IN
    /\ DOMAIN s = DOMAIN FreshScan(NoTable) /\ s.mode = "exec" /\ s.verdict = "none" /\ s.rows = <<>>
BY DEF FreshScan

LEMMA GotoKeeps ==
  ASSUME ScanOK, NEW m \in {"exec", "tuples", "tuple", "string", "delimiter"}, NEW i
  PROVE  /\ RowsKept(Goto(m, i)) /\ Goto(m, i).rows = scan.rows
         /\ Goto(m, i).mode = m /\ Goto(m, i).verdict = scan.verdict
         /\ DOMAIN Goto(m, i) = DOMAIN scan
BY ScanFields DEF ScanOK, Goto, RowsKept

LEMMA CloseTupleKeeps ==
  ASSUME ScanOK, mode \in Modes, NEW i
  PROVE  RowsKept(CloseTuple(i, RowLimit))
<1> DEFINE r == RowOf(ColumnsOf[scan.head], scan.values)
           s == [Goto("tuples", i) EXCEPT !.rows = Append(@, r)]
<1>1. RowsKept(Goto("tuples", i))
  BY GotoKeeps
<1>2. RowsKept([scan EXCEPT !.mode = "done", !.rows = <<>>, !.verdict = "exceeded"])
  BY ScanFields DEF RowsKept
<1>3. CASE ~(Len(scan.rows) >= RowLimit)
  <2> HIDE DEF r
  <2>1. DOMAIN s = DOMAIN scan /\ s.mode = "tuples" /\ s.verdict = scan.verdict
        /\ s.rows = Append(scan.rows, r)
    BY GotoKeeps, ScanFields
  <2>2. Len(scan.rows) < RowLimit
    <3>1. Len(scan.rows) \in Nat
      BY ListAppend DEF ScanOK
    <3> QED
      BY <1>3, <3>1, LimitsAreNumbers
  <2>3. RowsKept(s)
    BY <2>1, <2>2 DEF RowsKept, ScanOK
  <2> QED
    BY <1>1, <1>3, <2>3 DEF CloseTuple, r
<1>4. CASE Len(scan.rows) >= RowLimit
  BY <1>1, <1>2, <1>4 DEF CloseTuple
<1> QED
  BY <1>3, <1>4

LEMMA ScanStepKeeps ==
  ASSUME ScanOK, mode \in Modes, ScanStep(sqlTable, RowLimit)
  PROVE  RowsKept(scan')
<1>1. RowsKept(Refused)
  BY ScanFields DEF RowsKept, Refused
<1>2. \A v, i : RowsKept(Taking(v, i))
  <2> TAKE v, i
  <2>1. LET g == Goto("delimiter", i) IN
          RowsKept(g) /\ DOMAIN g = DOMAIN scan /\ g.mode = "delimiter"
    BY GotoKeeps
  <2> QED
    BY <2>1, ScanFields DEF RowsKept, Taking
<1>3. CASE NextInsert(sqlTable)
  <2> DEFINE k == FirstIn(scan.i, Heads)
  <2>1. CASE Token(k) = End
    <3>1. EndOfScan(sqlTable)
      BY <1>3, <2>1 DEF NextInsert
    <3>2. \A target : RowsKept(FreshScan(target))
      BY ScanFields, FreshScanOK DEF RowsKept, ScanOK
    <3>3. RowsKept([scan EXCEPT !.mode = "done", !.verdict = "rows"])
      BY ScanFields DEF RowsKept
    <3> QED
      BY <1>1, <3>1, <3>2, <3>3 DEF EndOfScan
  <2>2. CASE Token(k) # End
    <3> DEFINE g == Goto("tuples", k + 1)
    <3>1. RowsKept(g) /\ DOMAIN g = DOMAIN scan /\ g.mode = "tuples"
      BY GotoKeeps
    <3>2. \A h, names, had :
            RowsKept([g EXCEPT !.head = h, !.names = names, !.had = had])
      <4> TAKE h, names, had
      <4> HIDE DEF g
      <4> QED
        BY <3>1, ScanFields DEF RowsKept
    <3> DEFINE table == TableOf[sql[k]]
               names == IF Contains(g.names, table) THEN g.names ELSE Append(g.names, table)
               had == IF table = scan.target THEN ColumnsOf[sql[k]] # <<>> ELSE g.had
    <3>3. scan' = [g EXCEPT !.head = sql[k], !.names = names, !.had = had]
      BY <1>3, <2>2 DEF NextInsert
    <3> HIDE DEF g, names, had, k
    <3> QED
      BY <3>2, <3>3
  <2> QED
    BY <2>1, <2>2
<1>4. CASE NextTuple
  <2>1. \A i : RowsKept([Goto("tuple", i) EXCEPT !.values = <<>>])
    <3> TAKE i
    <3>1. LET g == Goto("tuple", i) IN
            RowsKept(g) /\ DOMAIN g = DOMAIN scan /\ g.mode = "tuple"
      BY GotoKeeps
    <3> QED
      BY <3>1, ScanFields DEF RowsKept
  <2>2. \A i : RowsKept(Goto("exec", i))
    BY GotoKeeps
  <2> QED
    BY <1>4, <2>1, <2>2 DEF NextTuple
<1>5. CASE NextValue(RowLimit)
  <2>1. \A i : RowsKept(Goto("string", i)) /\ RowsKept(CloseTuple(i, RowLimit))
    BY GotoKeeps, CloseTupleKeeps
  <2> QED
    BY <1>1, <1>2, <1>5, <2>1 DEF NextValue
<1>6. CASE Delimiter(RowLimit)
  <2>1. \A i : RowsKept(Goto("tuple", i)) /\ RowsKept(CloseTuple(i, RowLimit))
    BY GotoKeeps, CloseTupleKeeps
  <2> QED
    BY <1>1, <1>6, <2>1 DEF Delimiter
<1>7. CASE ReadString
  <2>1. \A i : RowsKept(Goto("string", i))
    BY GotoKeeps
  <2>2. scan.mode = "string"
    BY <1>7 DEF ReadString
  <2>3. \A d, n : RowsKept([scan EXCEPT !.out = Append(@, d), !.i = @ + n])
    BY <2>2, ScanFields DEF RowsKept, ScanOK
  <2> QED
    BY <1>1, <1>2, <1>7, <2>1, <2>3 DEF ReadString
<1> QED
  BY <1>3, <1>4, <1>5, <1>6, <1>7 DEF ScanStep

\* What RowsKept says of the next state of the scanner keeps the scanner's invariant.
LEMMA RowsKeptOK ==
  ASSUME ScanOK, mode \in Modes, mode' = mode, RowsKept(scan')
  PROVE  ScanOK'
<1>1. RowLimit' = RowLimit /\ RowLimit \in Nat
  BY LimitsAreNumbers DEF RowLimit, Tier
<1>2. IsList(scan'.rows) /\ Len(scan'.rows) <= RowLimit
  <2>1. CASE scan'.rows = scan.rows
    BY <2>1 DEF ScanOK
  <2>2. CASE scan'.rows = <<>>
    BY <1>1, <2>2, ListOfNone
  <2>3. CASE Len(scan.rows) < RowLimit /\ \E row : scan'.rows = Append(scan.rows, row)
    BY <1>1, <2>3, ListAppend DEF ScanOK
  <2> QED
    BY <2>1, <2>2, <2>3 DEF RowsKept
<1> QED
  BY <1>1, <1>2 DEF RowsKept, ScanOK

-----------------------------------------------------------------------------
(* The read. *)

\* The ceilings and what is said of them are the tenant's for good.
LEMMA LimitsFixed ==
  ASSUME mode' = mode
  PROVE  /\ RowLimit' = RowLimit /\ ByteLimit' = ByteLimit
         /\ RowsEnvelope' = RowsEnvelope /\ BytesEnvelope' = BytesEnvelope
         /\ MulterEnvelope' = MulterEnvelope /\ PartnerEnvelope' = PartnerEnvelope
<1>1. Tier' = Tier /\ UpgradeCta' = UpgradeCta
  BY DEF Tier, UpgradeCta
<1>2. RowLimit' = RowLimit /\ ByteLimit' = ByteLimit
  BY <1>1 DEF RowLimit, ByteLimit
<1>3. /\ RowsEnvelope' = RowsEnvelope /\ BytesEnvelope' = BytesEnvelope
      /\ MulterEnvelope' = MulterEnvelope
  BY <1>1, <1>2 DEF RowsEnvelope, BytesEnvelope, MulterEnvelope, describeGuardrailRejection,
                    buildByteRejectionReason, buildGuardrailRejectionReason
<1>4. PartnerEnvelope' = PartnerEnvelope
  BY <1>3 DEF PartnerEnvelope, Told
<1> QED
  BY <1>2, <1>3, <1>4

LEMMA EnvelopesTold ==
  /\ RowsEnvelope # NoEnvelope /\ BytesEnvelope # NoEnvelope
  /\ RowsEnvelope.dimension = "rows" /\ BytesEnvelope.dimension = "bytes"
  /\ MulterEnvelope.dimension = "bytes" /\ NoEnvelope.dimension = "none"
  /\ PartnerEnvelope.dimension = "unnamed"
  /\ IsVerdict(RowsEnvelope) /\ IsVerdict(BytesEnvelope) /\ IsVerdict(NoEnvelope)
  /\ RowsEnvelope.limit = RowLimit /\ BytesEnvelope.limit = ByteLimit
<1>1. /\ RowsEnvelope.dimension = "rows" /\ BytesEnvelope.dimension = "bytes"
      /\ MulterEnvelope.dimension = "bytes" /\ NoEnvelope.dimension = "none"
  BY DEF RowsEnvelope, BytesEnvelope, MulterEnvelope, describeGuardrailRejection, NoEnvelope
<1>2. RowsEnvelope # NoEnvelope /\ BytesEnvelope # NoEnvelope
  BY <1>1
<1>3. PartnerEnvelope.dimension = "unnamed"
  BY <1>2 DEF PartnerEnvelope, Told
<1>4. /\ DOMAIN RowsEnvelope = {"dimension", "limit", "upgrade", "reason"}
      /\ DOMAIN BytesEnvelope = {"dimension", "limit", "upgrade", "reason"}
      /\ RowsEnvelope.limit = RowLimit /\ BytesEnvelope.limit = ByteLimit
  BY DEF RowsEnvelope, BytesEnvelope, describeGuardrailRejection
<1> QED
  BY <1>1, <1>2, <1>3, <1>4 DEF IsVerdict

\* The limit that a job was held to last takes the place of the one it was refused for.
LEMMA PassedIsVerdict ==
  ASSUME NEW e, IsVerdict(e)
  PROVE  IsVerdict(Passed(e))
BY DEF IsVerdict, Passed

\* The file, its format and the table to import are those of one read.
LEMMA FileFixed ==
  ASSUME UNCHANGED <<copy, format, sqlTable>>
  PROVE  /\ RowsOf(copy)' = RowsOf(copy) /\ Damaged' = Damaged /\ Dump' = Dump
         /\ \A rows : WholeRead(rows)' <=> WholeRead(rows)
<1>1. Dump' = Dump
  BY DEF Dump
<1>2. RowsOf(copy)' = RowsOf(copy)
  BY DEF RowsOf
<1> QED
  BY <1>1, <1>2 DEF Damaged, WholeRead

LEMMA DecidedKept ==
  ASSUME DecidedOK, mode' = mode, UNCHANGED <<copy, format, outcome>>,
         sqlTable' = sqlTable \/ outcome = Pending, at' = "dead" => at = "dead"
  PROVE  DecidedOK'
<1>1. CASE sqlTable' = sqlTable
  <2>1. RowLimit' = RowLimit
    BY LimitsFixed
  <2>2. /\ RowsOf(copy)' = RowsOf(copy) /\ Damaged' = Damaged
        /\ WholeRead(outcome.records)' <=> WholeRead(outcome.records)
    BY <1>1, FileFixed
  <2> QED
    BY <2>1, <2>2 DEF DecidedOK
<1>2. CASE outcome = Pending
  BY <1>2 DEF DecidedOK, Pending
<1> QED
  BY <1>1, <1>2

\* The rows of a read file.
LEMMA RowsAre ==
  /\ format # "sql" => RowsOf(copy) = FileRows(copy)
  /\ format = "sql" => RowsOf(copy) = TuplesOf(Dump, Wanted(Dump, sqlTable))
BY DEF RowsOf, FileRows, Dump

LEMMA DumpPrinted ==
  ASSUME NEW f \in Files
  PROVE  Printed(Dumps[f.dump])
BY ImportIntakeAssumption, SqlDumpAssumption

Formats == {"csv", "json", "excel", "sql"}

LEMMA BeginReadOK ==
  ASSUME mode \in Modes, mode' = mode, ScanOK,
         NEW f \in Files, NEW fmt \in Formats, BeginRead(f, fmt)
  PROVE  RaceOK' /\ DecidedOK' /\ ScanOK' /\ DumpOK'
         /\ copy' = f /\ format' = fmt /\ stream' = "open" /\ outcome' = Pending /\ at' = "reading"
<1>1. /\ copy' = f /\ format' = fmt /\ stream' = "open" /\ outcome' = Pending /\ at' = "reading"
      /\ next' = 0 /\ records' = <<>>
  BY DEF BeginRead
<1>2. ScanOK'
  <2>1. CASE UNCHANGED scanVars
    BY <2>1, LimitsFixed DEF scanVars, ScanOK
  <2>2. CASE scan' = FreshScan(NoTable)
    BY <2>2, ListOfNone, LimitsAreNumbers, LimitsFixed, FreshScanOK DEF ScanOK
  <2> QED
    BY <2>1, <2>2 DEF BeginRead
<1>3. RaceOK'
  <2>1. Lists(<<>>, RowsUpto(f, 0))
    BY NothingRead
  <2>2. 0 <= Items(f) /\ f # NoFile
    BY FileItems
  <2>3. <<>> \in Seq(Nat) /\ Len(<<>>) = 0 /\ RowLimit \in Nat /\ RowLimit' = RowLimit
    BY LimitsAreNumbers, LimitsFixed
  <2> QED
    BY <1>1, <2>1, <2>2, <2>3 DEF RaceOK
<1>4. DecidedOK'
  BY <1>1 DEF DecidedOK, Pending
<1>5. DumpOK'
  <2> SUFFICES ASSUME fmt = "sql"
               PROVE  (sql = Dump.text /\ ScanRight(scan, Dump, sqlTable, RowLimit))'
    BY <1>1 DEF DumpOK
  <2>1. sql' = Dumps[f.dump].text /\ scan' = FreshScan(NoTable)
    BY DEF BeginRead
  <2>2. Dump' = Dumps[f.dump]
    BY <1>1 DEF Dump
  <2>3. ScanRight(FreshScan(NoTable), Dumps[f.dump], sqlTable', RowLimit')
    BY DumpPrinted, ScanStartsRight
  <2> QED
    BY <2>1, <2>2, <2>3
<1> QED
  BY <1>1, <1>2, <1>3, <1>4, <1>5

\* The events of the stream, the workbook's turns and the return of the rows.
StreamEvent ==
    \/ RefuseRoot \/ Data \/ ParserFails \/ ParserKills \/ SourceFails \/ EndOfStream \/ Close
    \/ RefuseWorkbook \/ EachRow \/ CountRows \/ ReturnRows

ReadKept ==
    UNCHANGED <<uploadVars, job, measured, answer, copy, format, sql, scan>>

LEMMA EventSettles ==
  ASSUME IntakeInv, at = "reading", StreamEvent, ReadKept
  PROVE  /\ at' \in {"reading", "dead"}
         /\ stream' \in {"open", "ended", "destroyed", "broken", "closed"}
         /\ outcome'.kind \in Outcomes
         /\ outcome'.kind = "pending" => outcome' = Pending
         /\ outcome # Pending => outcome' = outcome
         /\ stream' = "open" => outcome' = Pending
         /\ stream' \in {"ended", "destroyed"} => outcome' # Pending
<1> USE DEF Pending, Settles, Accepts, First, Outcomes
<1>1. /\ stream \in {"open", "ended", "destroyed", "broken", "closed"} /\ outcome.kind \in Outcomes
      /\ outcome.kind = "pending" => outcome = Pending
      /\ stream = "open" => outcome = Pending
      /\ outcome = Pending => stream \notin {"ended", "destroyed"}
  BY DEF IntakeInv, ShapeOK, RaceOK
<1>2. CASE RefuseRoot
  BY <1>1, <1>2 DEF RefuseRoot
<1>3. CASE Data
  BY <1>1, <1>3 DEF Data
<1>4. CASE ParserFails
  BY <1>1, <1>4 DEF ParserFails
<1>5. CASE ParserKills
  BY <1>1, <1>5 DEF ParserKills
<1>6. CASE SourceFails
  BY <1>1, <1>6 DEF SourceFails
<1>7. CASE EndOfStream
  BY <1>1, <1>7 DEF EndOfStream
<1>8. CASE Close
  BY <1>1, <1>8 DEF Close
<1>9. CASE RefuseWorkbook
  BY <1>1, <1>9 DEF RefuseWorkbook
<1>10. CASE EachRow
  BY <1>1, <1>10 DEF EachRow
<1>11. CASE CountRows
  BY <1>1, <1>11 DEF CountRows
<1>12. CASE ReturnRows
  <2>1. scan.verdict \in {"rows", "exceeded", "refused"}
    BY <1>12 DEF ReturnRows, IntakeInv, ScanOK
  <2> QED
    BY <1>1, <1>12, <2>1 DEF ReturnRows
<1> QED
  BY <1>2, <1>3, <1>4, <1>5, <1>6, <1>7, <1>8, <1>9, <1>10, <1>11, <1>12 DEF StreamEvent

\* Items are delivered one by one, and a row is collected if there is room for it.
LEMMA EventReads ==
  ASSUME IntakeInv, at = "reading", StreamEvent, ReadKept
  PROVE  /\ next' \in Nat /\ next' <= Items(copy)
         /\ records' \in Seq(Nat) /\ (format # "excel" => Len(records') <= RowLimit)
         /\ outcome' = Pending => Lists(records', RowsUpto(copy, next'))
<1>1. /\ copy \in Files /\ next \in Nat /\ next <= Items(copy)
      /\ records \in Seq(Nat) /\ (format # "excel" => Len(records) <= RowLimit)
      /\ outcome = Pending => Lists(records, RowsUpto(copy, next))
  BY DEF IntakeInv, RaceOK
<1>2. (outcome # Pending => outcome' = outcome) /\ Items(copy) \in Nat
  BY <1>1, EventSettles, FileItems
<1>3. Len(records) \in Nat /\ RowLimit \in Nat
  BY <1>1, LimitsAreNumbers DEF IntakeInv, ShapeOK
<1>4. CASE UNCHANGED <<next, records>>
  BY <1>1, <1>2, <1>4
<1>5. ASSUME next < Items(copy), next' = next + 1,
             \/ records' = records /\ (outcome # Pending \/ copy.items[next'] # "row")
             \/ records' = <<>> /\ outcome' # Pending
             \/ /\ records' = Append(records, next') /\ outcome = Pending
                /\ copy.items[next'] = "row" /\ (format # "excel" => Len(records) < RowLimit)
      PROVE  /\ next' \in Nat /\ next' <= Items(copy)
             /\ records' \in Seq(Nat) /\ (format # "excel" => Len(records') <= RowLimit)
             /\ outcome' = Pending => Lists(records', RowsUpto(copy, next'))
  <2>1. next' \in Nat /\ next' <= Items(copy)
    BY <1>1, <1>2, <1>5
  <2>2. CASE records' = records /\ (outcome # Pending \/ copy.items[next'] # "row")
    BY <1>1, <1>2, <1>5, <2>1, <2>2, ListsNext
  <2>3. CASE records' = <<>> /\ outcome' # Pending
    BY <1>3, <2>1, <2>3
  <2>4. CASE /\ records' = Append(records, next') /\ outcome = Pending
             /\ copy.items[next'] = "row" /\ (format # "excel" => Len(records) < RowLimit)
    <3>1. Lists(records', RowsUpto(copy, next')) /\ records' \in Seq(Nat)
      BY <1>1, <1>5, <2>4, ListsNext
    <3>2. Len(records') = Len(records) + 1
      BY <1>1, <2>1, <2>4
    <3> QED
      BY <1>3, <2>1, <2>4, <3>1, <3>2
  <2> QED
    BY <1>5, <2>2, <2>3, <2>4
<1>6. CASE Data
  <2>1. format # "excel" /\ next < Items(copy) /\ next' = next + 1
    BY <1>6 DEF Data, Reads, Streams
  <2>2. next' \in DOMAIN copy.items
    BY <1>1, <2>1, FileItems
  <2>3. copy.items[next'] \in {"row", "other"}
    BY <1>1, <2>2, ImportIntakeAssumption
  <2>4. Settles("exceeded") # Pending
    BY DEF Settles, Pending
  <2>5. CASE outcome # Pending \/ copy.items[next'] = "other"
    <3>1. records' = records
      BY <1>6, <2>5 DEF Data
    <3> QED
      BY <1>5, <2>1, <2>5, <3>1
  <2>6. CASE ~(outcome # Pending \/ copy.items[next'] = "other")
    <3>1. CASE Len(records) >= RowLimit
      BY <1>5, <1>6, <2>1, <2>4, <2>6, <3>1 DEF Data
    <3>2. CASE ~(Len(records) >= RowLimit)
      BY <1>3, <1>5, <1>6, <2>1, <2>3, <2>6, <3>2 DEF Data
    <3> QED
      BY <3>1, <3>2
  <2> QED
    BY <2>5, <2>6
<1>7. CASE EachRow
  <2>1. /\ format = "excel" /\ stream = "open" /\ next < Items(copy) /\ next' = next + 1
        /\ records' = IF copy.items[next'] = "row" THEN Append(records, next') ELSE records
    BY <1>7 DEF EachRow
  <2>2. outcome = Pending
    BY <2>1 DEF IntakeInv, RaceOK
  <2> QED
    BY <1>5, <2>1, <2>2
<1> QED
  BY <1>4, <1>6, <1>7 DEF StreamEvent, RefuseRoot, ParserFails, ParserKills, SourceFails, EndOfStream, Close,
         RefuseWorkbook, CountRows, ReturnRows

\* What has collected the ceiling's rows and meets another has met too many.
LEMMA MoreThanTheCeiling ==
  ASSUME NEW f \in Files, NEW n \in Nat, n <= Items(f), NEW list \in Seq(Nat),
         Lists(list, RowsUpto(f, n)), NEW limit \in Nat,
         \/ Len(list) > limit
         \/ Len(list) >= limit /\ n + 1 \in DOMAIN f.items /\ f.items[n + 1] = "row"
  PROVE  limit < Cardinality(FileRows(f))
<1>1. /\ DOMAIN f.items = 1..Len(f.items) /\ Len(f.items) \in Nat /\ n <= Len(f.items)
      /\ Len(list) \in Nat
  BY FileItems
<1>2. IsFiniteSet(RowsUpto(f, n)) /\ Cardinality(RowsUpto(f, n)) = Len(list)
  BY ListsCount
<1>3. IsFiniteSet(FileRows(f))
  <2>1. 1 \in Int /\ Len(f.items) \in Int
    BY <1>1
  <2>2. IsFiniteSet(1..Len(f.items))
    BY <2>1, FS_Interval
  <2>3. FileRows(f) \in SUBSET (1..Len(f.items))
    BY <1>1 DEF FileRows
  <2> QED
    BY <2>2, <2>3, FS_Subset
<1>4. Cardinality(FileRows(f)) \in Nat
  BY <1>3, FS_CardinalityType
<1>5. RowsUpto(f, n) \in SUBSET FileRows(f)
  BY <1>1 DEF RowsUpto, FileRows
<1>6. CASE Len(list) > limit
  <2>1. Cardinality(RowsUpto(f, n)) <= Cardinality(FileRows(f))
    BY <1>3, <1>5, FS_Subset
  <2> QED
    BY <1>1, <1>2, <1>4, <1>6, <2>1
<1>7. CASE Len(list) >= limit /\ n + 1 \in DOMAIN f.items /\ f.items[n + 1] = "row"
  <2> DEFINE S == RowsUpto(f, n) \cup {n + 1}
  <2>1. n + 1 \notin RowsUpto(f, n)
    BY DEF RowsUpto
  <2>2. IsFiniteSet(S) /\ Cardinality(S) = Len(list) + 1
    BY <1>2, <2>1, FS_AddElement
  <2>3. S \in SUBSET FileRows(f)
    BY <1>5, <1>7 DEF FileRows
  <2>4. Cardinality(S) <= Cardinality(FileRows(f))
    BY <1>3, <2>3, FS_Subset
  <2> HIDE DEF S
  <2> QED
    BY <1>1, <1>4, <1>7, <2>2, <2>4
<1> QED
  BY <1>6, <1>7

\* What the read settles to is right of the file.
LEMMA EventDecides ==
  ASSUME IntakeInv, at = "reading", StreamEvent, ReadKept
  PROVE  DecidedOK'
<1>1. /\ copy \in Files /\ next \in Nat /\ next <= Items(copy)
      /\ records \in Seq(Nat) /\ (format # "excel" => Len(records) <= RowLimit)
      /\ outcome = Pending => Lists(records, RowsUpto(copy, next))
      /\ stream = "open" => outcome = Pending
      /\ outcome = Pending => stream \notin {"ended", "destroyed"}
  BY DEF IntakeInv, RaceOK
<1>2. copy' = copy /\ format' = format /\ RowLimit' = RowLimit /\ RowLimit \in Nat
      /\ Len(records) \in Nat
  BY <1>1, LimitsFixed, LimitsAreNumbers DEF ReadKept, uploadVars, IntakeInv, ShapeOK
<1>3. DecidedOK
  BY DEF IntakeInv
<1> DEFINE Reason ==
      \/ outcome' = outcome
      \/ outcome'.kind \in {"pending", "unreadable"}
      \/ outcome'.kind = "malformed" /\ Damaged
      \/ outcome'.kind = "exceeded" /\ RowLimit < Cardinality(RowsOf(copy))
      \/ /\ outcome'.kind = "accepted" /\ Len(outcome'.records) <= RowLimit
         /\ WholeRead(outcome'.records)
<1> USE DEF Settles, Accepts, First
<1>4. Reason
  <2>1. CASE RefuseRoot
    BY <2>1 DEF RefuseRoot, Damaged
  <2>2. CASE Data
    <3>1. CASE outcome' = outcome
      BY <3>1
    <3>2. CASE outcome' # outcome
      <4>1. /\ outcome = Pending /\ next < Items(copy) /\ next' = next + 1 /\ copy.items[next'] # "other"
            /\ Len(records) >= RowLimit /\ outcome' = Settles("exceeded")
        BY <2>2, <3>2 DEF Data
      <4>2. next + 1 \in DOMAIN copy.items
        BY <1>1, <4>1, FileItems
      <4>3. copy.items[next + 1] = "row"
        BY <1>1, <4>1, <4>2, ImportIntakeAssumption
      <4>4. RowLimit < Cardinality(RowsOf(copy))
        <5>1. format # "sql"
          BY <2>2 DEF Data, Reads, Streams
        <5>2. RowLimit < Cardinality(FileRows(copy))
          BY <1>1, <1>2, <4>1, <4>2, <4>3, MoreThanTheCeiling
        <5> QED
          BY <5>1, <5>2, RowsAre
      <4> QED
        BY <4>1, <4>4
    <3> QED
      BY <3>1, <3>2
  <2>3. CASE ParserFails
    BY <2>3 DEF ParserFails, Damaged
  <2>4. CASE ParserKills \/ EachRow
    BY <2>4 DEF ParserKills, EachRow
  <2>5. CASE SourceFails
    BY <2>5 DEF SourceFails
  <2>6. CASE EndOfStream
    <3>1. /\ format \notin {"excel", "sql"} /\ copy.whole /\ next = Items(copy) /\ outcome = Pending
          /\ outcome' = Accepts(records)
      BY <1>1, <2>6 DEF EndOfStream, Reads, Streams
    <3>2. Lists(records, RowsOf(copy))
      BY <1>1, <3>1, AllRead, RowsAre
    <3> QED
      BY <1>1, <3>1, <3>2 DEF WholeRead
  <2>7. CASE Close
    BY <1>1, <2>7 DEF Close
  <2>8. CASE RefuseWorkbook
    BY <2>8 DEF RefuseWorkbook, Damaged
  <2>9. CASE CountRows
    <3>1. format # "sql" /\ copy.whole /\ next = Items(copy) /\ outcome = Pending
          /\ outcome' = IF Len(records) > RowLimit THEN Settles("exceeded") ELSE Accepts(records)
      BY <1>1, <2>9 DEF CountRows
    <3>2. Lists(records, RowsOf(copy))
      BY <1>1, <3>1, AllRead, RowsAre
    <3>3. Len(records) > RowLimit => RowLimit < Cardinality(RowsOf(copy))
      <4>1. Len(records) > RowLimit => RowLimit < Cardinality(FileRows(copy))
        BY <1>1, <1>2, <3>1, MoreThanTheCeiling
      <4> QED
        BY <3>1, <4>1, RowsAre
    <3> QED
      BY <1>1, <1>2, <3>1, <3>2, <3>3 DEF WholeRead
  <2>10. CASE ReturnRows
    <3>1. /\ scan.verdict \in {"rows", "exceeded", "refused"} /\ Len(scan.rows) <= RowLimit
          /\ format = "sql" /\ scan.mode = "done"
      BY <2>10 DEF ReturnRows, IntakeInv, ScanOK
    <3>2. ScanRight(scan, Dump, sqlTable, RowLimit)
      BY <3>1 DEF IntakeInv, DumpOK
    <3>3. Concluded(scan, Dump, sqlTable, RowLimit)
      <4>1. ~Reached(scan, Dump)
        BY <3>1 DEF Reached, AtExec, AtTuples, AtTuple, AtDelimiter, AtString
      <4> QED
        BY <3>2, <4>1 DEF ScanRight
    <3>4. /\ scan.verdict = "rows" => Holds(Dump, scan.rows, RowsOf(copy))
          /\ scan.verdict = "exceeded" => RowLimit < Cardinality(RowsOf(copy))
          /\ scan.verdict = "refused" => Damaged
      BY <3>1, <3>3, RowsAre DEF Concluded, Damaged
    <3> QED
      BY <2>10, <3>1, <3>4 DEF ReturnRows, WholeRead
  <2> QED
    BY <2>1, <2>2, <2>3, <2>4, <2>5, <2>6, <2>7, <2>8, <2>9, <2>10 DEF StreamEvent
<1>5. at' = "dead" => format = "json" /\ ~copy.whole
  BY DEF StreamEvent, RefuseRoot, Data, ParserFails, ParserKills, SourceFails, EndOfStream, Close,
         RefuseWorkbook, EachRow, CountRows, ReturnRows
<1>6. CASE outcome' = outcome
  <2>1. /\ RowsOf(copy)' = RowsOf(copy) /\ Damaged' = Damaged
        /\ WholeRead(outcome.records)' <=> WholeRead(outcome.records)
    BY <1>6, FileFixed DEF ReadKept, uploadVars
  <2> QED
    BY <1>2, <1>3, <1>5, <1>6, <2>1 DEF DecidedOK
<1>7. CASE outcome' # outcome
  <2>1. /\ RowsOf(copy)' = RowsOf(copy) /\ Damaged' = Damaged
        /\ WholeRead(outcome'.records) <=> (WholeRead(outcome.records))'
    BY FileFixed DEF ReadKept, uploadVars, WholeRead
  <2> QED
    BY <1>2, <1>4, <1>5, <1>7, <2>1 DEF DecidedOK
<1> QED
  BY <1>6, <1>7

-----------------------------------------------------------------------------
(* The steps of the module, one by one. *)

Reading == RaceOK /\ DecidedOK /\ ScanOK /\ DumpOK

\* A step that leaves the read alone, and begins none.
LEMMA ReadIsKept ==
  ASSUME IntakeInv, mode' = mode, UNCHANGED <<readVars, scanVars>>,
         at' \in {"reading", "archived", "dead"} => at \in {"reading", "archived", "dead"},
         at' \in {"reading", "dead"} => at' = at,
         sqlTable' = sqlTable \/ (at = "idle" /\ copy = NoFile)
  PROVE  Reading'
<1>1. RowLimit' = RowLimit
  BY LimitsFixed
<1>2. UNCHANGED <<copy, format, stream, next, records, outcome, sql, scan>>
  BY DEF readVars, scanVars
<1>3. RaceOK' /\ ScanOK'
  BY <1>1, <1>2 DEF IntakeInv, RaceOK, ScanOK
<1>4. DecidedOK'
  BY <1>2, DecidedKept DEF IntakeInv, RaceOK
<1>5. DumpOK'
  <2> SUFFICES ASSUME at' = "reading" PROVE DumpOK'
    BY DEF DumpOK
  <2>1. at = "reading" /\ sqlTable' = sqlTable
    OBVIOUS
  <2>2. Dump' = Dump
    BY <1>2 DEF Dump
  <2> QED
    BY <1>1, <1>2, <2>1, <2>2 DEF IntakeInv, DumpOK
<1> QED
  BY <1>3, <1>4, <1>5 DEF Reading

LEMMA ReadEventKeeps ==
  ASSUME IntakeInv, ReadEvent
  PROVE  IntakeInv'
<1>1. at = "reading"
  BY DEF ReadEvent
<1>2. /\ UNCHANGED <<uploadVars, job, measured, answer, copy, format>>
      /\ UNCHANGED <<mode, sqlTable, file, puts, verified, due, attempts>>
  BY DEF ReadEvent, uploadVars
<1>3. /\ RowLimit' = RowLimit
      /\ RowsEnvelope' = RowsEnvelope /\ BytesEnvelope' = BytesEnvelope
      /\ MulterEnvelope' = MulterEnvelope /\ PartnerEnvelope' = PartnerEnvelope
  BY <1>2, LimitsFixed
<1>4. CASE StreamEvent /\ UNCHANGED scanVars
  <2>1. ReadKept /\ scan' = scan
    BY <1>2, <1>4 DEF ReadKept, scanVars
  <2>2. /\ at' \in {"reading", "dead"}
        /\ stream' \in {"open", "ended", "destroyed", "broken", "closed"}
        /\ outcome'.kind \in Outcomes
        /\ outcome'.kind = "pending" => outcome' = Pending
        /\ outcome # Pending => outcome' = outcome
        /\ stream' = "open" => outcome' = Pending
        /\ stream' \in {"ended", "destroyed"} => outcome' # Pending
    BY <1>1, <1>4, <2>1, EventSettles
  <2>3. /\ next' \in Nat /\ next' <= Items(copy)
        /\ records' \in Seq(Nat) /\ (format # "excel" => Len(records') <= RowLimit)
        /\ outcome' = Pending => Lists(records', RowsUpto(copy, next'))
    BY <1>1, <1>4, <2>1, EventReads
  <2>4. DecidedOK'
    BY <1>1, <1>4, <2>1, EventDecides
  <2>5. copy \in Files /\ copy # NoFile
    BY <1>1, ImportIntakeAssumption DEF IntakeInv, RaceOK
  <2>6. RaceOK'
    BY <1>2, <1>3, <2>2, <2>3, <2>5 DEF RaceOK
  <2>7. ShapeOK' /\ WaitingOK' /\ StagedOK' /\ RejectedOK'
    BY <1>1, <1>2, <1>3, <2>2
       DEF IntakeInv, ShapeOK, Phases, WaitingOK, Fetched, Stageable, StagedOK, RejectedOK,
           EnvelopeOK
  <2>8. ScanOK'
    BY <1>3, <2>1 DEF IntakeInv, ScanOK
  <2>9. DumpOK'
    <3>1. Dump' = Dump /\ sql' = sql
      BY <1>2, <1>4 DEF Dump, scanVars
    <3> QED
      BY <1>1, <1>2, <1>3, <2>1, <3>1 DEF IntakeInv, DumpOK
  <2> QED
    BY <2>4, <2>6, <2>7, <2>8, <2>9 DEF IntakeInv
<1>5. CASE /\ format = "sql" /\ ScanStep(sqlTable, RowLimit)
           /\ UNCHANGED <<at, stream, next, records, outcome>>
  <2>1. ScanOK'
    BY <1>2, <1>5, ScanStepKeeps, RowsKeptOK DEF IntakeInv, ShapeOK
  <2>2. RaceOK' /\ DecidedOK'
    BY <1>2, <1>3, <1>5, DecidedKept DEF IntakeInv, RaceOK
  <2>4. DumpOK'
    <3> DEFINE d == Dump
    <3>1. sql = d.text /\ ScanRight(scan, d, sqlTable, RowLimit)
      BY <1>1, <1>5 DEF IntakeInv, DumpOK
    <3>2. Printed(d)
      BY <1>1, DumpPrinted DEF IntakeInv, RaceOK, Dump
    <3>3. sqlTable \in {NoTable} \cup DOMAIN NameOf /\ RowLimit \in Nat
      BY ImportIntakeAssumption, LimitsAreNumbers DEF IntakeInv, ShapeOK
    <3>4. d' = d /\ sql' = sql
      BY <1>2, <1>5 DEF Dump, ScanStep
    <3> HIDE DEF d
    <3>5. ScanRight(scan', d, sqlTable, RowLimit)
      BY <1>5, <3>1, <3>2, <3>3, ScanStepRight
    <3> QED
      BY <1>2, <1>3, <3>1, <3>4, <3>5 DEF DumpOK, d
  <2>3. ShapeOK' /\ WaitingOK' /\ StagedOK' /\ RejectedOK'
    BY <1>2, <1>3, <1>5
       DEF IntakeInv, ShapeOK, WaitingOK, Fetched, Stageable, StagedOK, RejectedOK, EnvelopeOK
  <2> QED
    BY <2>1, <2>2, <2>3, <2>4 DEF IntakeInv
<1> QED
  BY <1>4, <1>5 DEF ReadEvent, StreamEvent

LEMMA PostFileKeeps ==
  ASSUME IntakeInv, PostFile
  PROVE  IntakeInv'
<1>1. at = "idle" /\ job = NoJob /\ puts = 0
  BY DEF PostFile
<1>2. PICK f \in Files :
         /\ file' = f /\ sqlTable' \in TableNames(f.label)
         /\ IF f.size > TierBytes["shared"] THEN MulterRefuses
            ELSE IF detectSourceFormat(f.label) = Unknown
            THEN /\ answer' = Answer(400, NoEnvelope)
                 /\ at' = "done" /\ UNCHANGED <<readVars, scanVars>>
            ELSE BeginRead(f, detectSourceFormat(f.label)) /\ UNCHANGED answer
  BY Zenon DEF PostFile
<1>3. UNCHANGED <<mode, puts, verified, due, attempts, job, measured>>
  BY DEF PostFile
<1>4. sqlTable' \in Tables
  BY <1>2, ImportIntakeAssumption DEF TableNames
<1>5. /\ job.status = "none" /\ job.verdict = NoEnvelope
      /\ DOMAIN job = {"status", "label", "verdict", "rows"} /\ ~Fetched /\ ~Fetched'
  <2>1. job.status = "none" /\ job.verdict = NoEnvelope /\ job.label = Unknown
        /\ DOMAIN job = {"status", "label", "verdict", "rows"}
    BY <1>1 DEF NoJob
  <2> QED
    BY <1>3, <2>1 DEF Fetched, Extensions, Unknown
<1>6. attempts = 0 /\ (\A client \in Clients : ~verified[client].exists) /\ copy = NoFile
  BY <1>1, <1>5 DEF IntakeInv, WaitingOK, ShapeOK
<1>7. /\ RowsEnvelope' = RowsEnvelope /\ BytesEnvelope' = BytesEnvelope
      /\ MulterEnvelope' = MulterEnvelope /\ PartnerEnvelope' = PartnerEnvelope
      /\ mode \in Modes /\ ScanOK
  BY <1>3, LimitsFixed DEF IntakeInv, ShapeOK
<1>8. CASE at' = "done" /\ UNCHANGED <<readVars, scanVars>>
           /\ (answer' = Answer(400, NoEnvelope) \/ answer' = Answer(413, MulterEnvelope))
  <2>1. Reading'
    BY <1>1, <1>3, <1>6, <1>8, ReadIsKept
  <2>2. /\ answer'.code \in {400, 413} /\ answer'.envelope \in {NoEnvelope, MulterEnvelope}
    BY <1>8 DEF Answer
  <2>3. ShapeOK'
    BY <1>2, <1>3, <1>4, <1>8, <2>2 DEF IntakeInv, ShapeOK, readVars, Phases
  <2>4. WaitingOK' /\ StagedOK' /\ RejectedOK'
    BY <1>2, <1>3, <1>5, <1>6, <1>7, <1>8, <2>2, EnvelopesTold
       DEF WaitingOK, Stageable, StagedOK, RejectedOK, EnvelopeOK, IsVerdict
  <2> QED
    BY <2>1, <2>3, <2>4 DEF IntakeInv, Reading
<1>9. CASE BeginRead(f, detectSourceFormat(f.label)) /\ UNCHANGED answer
           /\ detectSourceFormat(f.label) # Unknown
  <2>1. detectSourceFormat(f.label) \in Formats
    BY <1>9 DEF detectSourceFormat, Formats, Extensions
  <2>2. RaceOK' /\ DecidedOK' /\ ScanOK' /\ DumpOK'
        /\ copy' = f /\ format' \in Formats /\ stream' = "open" /\ outcome' = Pending /\ at' = "reading"
    BY <1>3, <1>7, <1>9, <2>1, BeginReadOK
  <2>3. ShapeOK'
    BY <1>2, <1>3, <1>4, <1>9, <2>2 DEF IntakeInv, ShapeOK, Phases, Formats, Pending, Outcomes
  <2>4. WaitingOK' /\ StagedOK' /\ RejectedOK'
    BY <1>1, <1>3, <1>5, <1>6, <1>7, <1>9, <2>2
       DEF IntakeInv, WaitingOK, Stageable, StagedOK, RejectedOK, EnvelopeOK
  <2> QED
    BY <2>2, <2>3, <2>4 DEF IntakeInv
<1> QED
  BY <1>2, <1>8, <1>9 DEF MulterRefuses, MulterEnvelope

LEMMA ArchiveKeeps ==
  ASSUME IntakeInv, Archive
  PROVE  IntakeInv'
<1>1. /\ at = "reading" /\ attempts = 0 /\ at' \in {"done", "archived"}
      /\ answer' = answer \/ answer' \in {Answer(400, NoEnvelope), Answer(500, NoEnvelope)}
      /\ UNCHANGED <<job, measured, readVars, scanVars>>
      /\ UNCHANGED <<mode, sqlTable, file, puts, verified, due, attempts>>
  BY DEF Archive, Inline, uploadVars
<1>2. Reading'
  BY <1>1, ReadIsKept
<1>3. /\ RowsEnvelope' = RowsEnvelope /\ BytesEnvelope' = BytesEnvelope
      /\ MulterEnvelope' = MulterEnvelope /\ PartnerEnvelope' = PartnerEnvelope
  BY <1>1, LimitsFixed
<1>4. answer'.code \in {answer.code, 400, 500} /\ answer'.envelope \in {answer.envelope, NoEnvelope}
  BY <1>1 DEF Answer
<1>5. ShapeOK'
  BY <1>1, <1>4 DEF IntakeInv, ShapeOK, Phases, readVars
<1>6. WaitingOK' /\ StagedOK' /\ RejectedOK'
  BY <1>1, <1>3, <1>4
     DEF IntakeInv, WaitingOK, Fetched, StagedOK, RejectedOK, EnvelopeOK, readVars
<1> QED
  BY <1>2, <1>5, <1>6 DEF IntakeInv, Reading

LEMMA RowsAreFinite ==
  ASSUME NEW f \in Files
  PROVE  Cardinality(RowsOf(f)) \in Nat
<1>1. IsFiniteSet(1..Len(f.items)) /\ IsFiniteSet(1..Len(Dumps[f.dump].tuples))
  <2>1. Len(f.items) \in Nat /\ Len(Dumps[f.dump].tuples) \in Nat
    BY FileItems, DumpPrinted DEF Printed
  <2>2. \A n \in Nat : n \in Int
    OBVIOUS
  <2>3. 1 \in Int
    OBVIOUS
  <2> QED
    BY <2>1, <2>2, <2>3, FS_Interval
<1>2. RowsOf(f) \subseteq 1..Len(f.items) \/ RowsOf(f) \subseteq 1..Len(Dumps[f.dump].tuples)
  <2>1. DOMAIN f.items = 1..Len(f.items)
        /\ DOMAIN Dumps[f.dump].tuples = 1..Len(Dumps[f.dump].tuples)
    BY FileItems, DumpPrinted DEF Printed
  <2> QED
    BY <2>1 DEF RowsOf, TuplesOf
<1> QED
  BY <1>1, <1>2, FS_Subset, FS_CardinalityType

LEMMA CreateJobKeeps ==
  ASSUME IntakeInv, CreateJob
  PROVE  IntakeInv'
<1>1. /\ at = "archived" /\ at' = "done" /\ answer' = Answer(201, RowVerdict)
      /\ UNCHANGED <<readVars, scanVars, mode, sqlTable, file, puts, verified, due, attempts>>
      /\ attempts = 0 /\ \A client \in Clients : ~verified[client].exists
  <2>1. /\ at = "archived" /\ at' = "done" /\ answer' = Answer(201, RowVerdict) /\ attempts = 0
        /\ UNCHANGED <<readVars, scanVars, mode, sqlTable, file, puts, verified, due, attempts>>
    BY DEF CreateJob, Inline, uploadVars
  <2> QED
    BY <2>1 DEF IntakeInv, WaitingOK
<1>2. Reading'
  BY <1>1, ReadIsKept
<1>3. /\ RowsEnvelope' = RowsEnvelope /\ BytesEnvelope' = BytesEnvelope
      /\ MulterEnvelope' = MulterEnvelope /\ PartnerEnvelope' = PartnerEnvelope
      /\ RowsEnvelope # NoEnvelope
  BY <1>1, LimitsFixed, EnvelopesTold
<1>4. RowVerdict = IF outcome.kind = "exceeded" THEN RowsEnvelope ELSE NoEnvelope
  BY DEF RowVerdict, RowsEnvelope
<1>5. answer'.code = 201 /\ answer'.envelope = RowVerdict
  BY <1>1 DEF Answer
<1>6. /\ DOMAIN job' = {"status", "label", "verdict", "rows"}
      /\ job'.label = Unknown
      /\ \/ /\ outcome.kind = "exceeded" /\ job'.status = "guardrail_rejected"
            /\ job'.verdict = RowsEnvelope /\ measured' = Cardinality(RowsOf(copy))
         \/ /\ outcome.kind = "accepted" /\ job'.status = "staged" /\ job'.rows = outcome.records
            /\ job'.verdict = NoEnvelope /\ measured' = measured
         \/ /\ outcome.kind = "accepted" /\ job'.status = "failed" /\ job'.verdict = NoEnvelope
            /\ measured' = measured
  BY <1>4 DEF CreateJob, NoJob
<1>9. ~Fetched' /\ measured' \in Nat
  BY <1>1, <1>6, RowsAreFinite DEF Fetched, Extensions, Unknown, IntakeInv, ShapeOK, RaceOK
<1>10. outcome.kind = "exceeded" => RowsEnvelope.limit < Cardinality(RowsOf(copy))
  BY EnvelopesTold DEF IntakeInv, DecidedOK
<1>7. ShapeOK'
  BY <1>1, <1>5, <1>6, <1>9 DEF IntakeInv, ShapeOK, Phases, Statuses, readVars
<1>8. WaitingOK' /\ StagedOK' /\ RejectedOK'
  <2>1. WaitingOK'
    BY <1>1, <1>6, <1>9 DEF WaitingOK
  <2>2. StagedOK'
    BY <1>1, <1>6 DEF StagedOK, readVars
  <2>3. RejectedOK'
    BY <1>1, <1>3, <1>4, <1>5, <1>6, <1>10, EnvelopesTold DEF RejectedOK, EnvelopeOK, readVars
  <2> QED
    BY <2>1, <2>2, <2>3
<1> QED
  BY <1>2, <1>7, <1>8 DEF IntakeInv, Reading

LEMMA CreateDedicatedKeeps ==
  ASSUME IntakeInv, PostFileName \/ InitiateImport
  PROVE  IntakeInv'
<1>1. PICK client \in {"wizard", "partner"}, f \in Files, declared \in BOOLEAN :
        createImportJobDedicated(client, f, declared)
  BY DEF PostFileName, InitiateImport
<1>2. /\ at = "idle" /\ job = NoJob
      /\ UNCHANGED <<mode, file, puts, verified, due, attempts, measured, at, readVars, scanVars>>
  BY <1>1 DEF createImportJobDedicated
<1>4. /\ RowsEnvelope' = RowsEnvelope /\ BytesEnvelope' = BytesEnvelope
      /\ MulterEnvelope' = MulterEnvelope /\ PartnerEnvelope' = PartnerEnvelope
  BY <1>2, LimitsFixed
<1>5. /\ job.status = "none" /\ job.verdict = NoEnvelope
      /\ DOMAIN job = {"status", "label", "verdict", "rows"} /\ ~Fetched
  <2>1. job.status = "none" /\ job.verdict = NoEnvelope /\ job.label = Unknown
        /\ DOMAIN job = {"status", "label", "verdict", "rows"}
    BY <1>2 DEF NoJob
  <2> QED
    BY <2>1 DEF Fetched, Extensions, Unknown
<1>9. /\ file = NoFile /\ copy = NoFile /\ attempts = 0
      /\ \A c \in Clients : ~verified[c].exists
  BY <1>2, <1>5 DEF IntakeInv, WaitingOK, ShapeOK
<1>3. Reading'
  BY <1>2, <1>9, ReadIsKept
<1>6. Told(client, BytesEnvelope) \in {BytesEnvelope, PartnerEnvelope}
  BY <1>1 DEF Told, PartnerEnvelope
<1>7. CASE /\ job' = job /\ sqlTable' = sqlTable
           /\ \E code \in {400, 413, 500} :
                answer' = Answer(code, NoEnvelope) \/ answer' = Answer(code, Told(client, BytesEnvelope))
  <2>1. /\ answer'.code \in {400, 413, 500}
        /\ answer'.envelope \in {NoEnvelope, BytesEnvelope, PartnerEnvelope}
    BY <1>6, <1>7 DEF Answer
  <2>2. ShapeOK'
    BY <1>2, <1>7, <2>1 DEF IntakeInv, ShapeOK, readVars
  <2>3. WaitingOK' /\ StagedOK' /\ RejectedOK'
    BY <1>2, <1>4, <1>5, <1>7, <1>9, <2>1
       DEF IntakeInv, WaitingOK, Fetched, Stageable, StagedOK, RejectedOK, EnvelopeOK, readVars
  <2> QED
    BY <1>3, <2>2, <2>3 DEF IntakeInv, Reading
<1>8. CASE /\ f.label \in DOMAIN Extensions
           /\ job' = [NoJob EXCEPT !.status = "pending_upload", !.label = f.label]
           /\ sqlTable' \in TableNames(f.label)
           /\ answer' = Answer(201, NoEnvelope)
  <2>1. sqlTable' \in Tables
    BY <1>8, ImportIntakeAssumption DEF TableNames
  <2>2. /\ job'.status = "pending_upload" /\ job'.label = f.label /\ job'.verdict = NoEnvelope
        /\ DOMAIN job' = {"status", "label", "verdict", "rows"}
        /\ answer'.code = 201 /\ answer'.envelope = NoEnvelope
    BY <1>8 DEF NoJob, Answer
  <2>3. ShapeOK'
    BY <1>2, <2>1, <2>2 DEF IntakeInv, ShapeOK, Statuses, readVars
  <2>4. WaitingOK' /\ StagedOK' /\ RejectedOK'
    BY <1>2, <1>4, <1>5, <1>8, <1>9, <2>2
       DEF IntakeInv, WaitingOK, Fetched, StagedOK, RejectedOK, EnvelopeOK, IsVerdict
  <2> QED
    BY <1>3, <2>3, <2>4 DEF IntakeInv, Reading
<1> QED
  BY <1>1, <1>7, <1>8 DEF createImportJobDedicated, BytesEnvelope

LEMMA UploadKeeps ==
  ASSUME IntakeInv, Put \/ PostUploadComplete \/ PartnerUploadComplete
  PROVE  IntakeInv'
<1>1. /\ at = "idle" /\ UNCHANGED <<mode, sqlTable, attempts, at, readVars, scanVars>>
      /\ job.status # "none"
  <2>1. /\ at = "idle" /\ UNCHANGED <<mode, sqlTable, attempts, at, readVars, scanVars>>
        /\ \/ job.status \in {"pending_upload", "uploaded", "guardrail_rejected"}
           \/ \E client \in Clients : verified[client].exists
    BY DEF Put, PostUploadComplete, PartnerUploadComplete, Clients, FindUpload, completeImportUpload
  <2> QED
    BY <2>1 DEF IntakeInv, WaitingOK
<1>2. Reading'
  BY <1>1, ReadIsKept
<1>3. /\ RowsEnvelope' = RowsEnvelope /\ BytesEnvelope' = BytesEnvelope
      /\ MulterEnvelope' = MulterEnvelope /\ PartnerEnvelope' = PartnerEnvelope
      /\ BytesEnvelope # NoEnvelope
  BY <1>1, LimitsFixed, EnvelopesTold
<1>4. Fetched /\ DOMAIN job = {"status", "label", "verdict", "rows"}
  BY <1>1 DEF IntakeInv, WaitingOK
<1>5. CASE Put
  <2>1. /\ UNCHANGED <<job, answer, verified, due, measured>> /\ puts' \in 0..MaxPuts
        /\ file' \in Files /\ file'.label = job.label
    BY <1>5, ImportIntakeAssumption DEF Put, IntakeInv, ShapeOK
  <2>2. ShapeOK'
    BY <1>1, <2>1 DEF IntakeInv, ShapeOK, readVars
  <2>3. file' # NoFile
    BY <2>1, ImportIntakeAssumption
  <2>4. WaitingOK' /\ StagedOK' /\ RejectedOK'
    BY <1>1, <1>3, <1>4, <2>1, <2>3
       DEF IntakeInv, WaitingOK, Fetched, StagedOK, RejectedOK, EnvelopeOK, readVars
  <2> QED
    BY <1>2, <2>2, <2>4 DEF IntakeInv, Reading
<1>6. CASE \E client \in Clients : FindUpload(client)
  <2>1. PICK client \in Clients : FindUpload(client)
    BY <1>6
  <2>2. /\ UNCHANGED <<file, puts, due, job, measured>>
        /\ verified' = [verified EXCEPT ![client] = verifyUpload]
        /\ answer' \in {answer, Answer(400, NoEnvelope)}
    BY <2>1 DEF FindUpload
  <2>3. verifyUpload.exists => verifyUpload.sizeBytes \in Nat /\ file # NoFile
    BY ImportIntakeAssumption DEF verifyUpload, Unverified, IntakeInv, ShapeOK
  <2>4. /\ answer'.code \in {answer.code, 400} /\ answer'.envelope \in {answer.envelope, NoEnvelope}
        /\ DOMAIN verified' = Clients
        /\ \A c \in Clients : verified'[c].exists =>
                                verified'[c].sizeBytes \in Nat /\ file # NoFile
    <3>1. /\ DOMAIN verified = Clients
          /\ \A c \in Clients : verified[c].exists => verified[c].sizeBytes \in Nat /\ file # NoFile
      BY DEF IntakeInv, ShapeOK, WaitingOK
    <3>2. \A c \in Clients : verified'[c] = IF c = client THEN verifyUpload ELSE verified[c]
      BY <2>2, <3>1
    <3> QED
      BY <2>2, <2>3, <3>1, <3>2 DEF Answer
  <2>5. ShapeOK'
    BY <1>1, <2>2, <2>4 DEF IntakeInv, ShapeOK, readVars
  <2>6. WaitingOK' /\ StagedOK' /\ RejectedOK'
    BY <1>1, <1>3, <1>4, <2>2, <2>4
       DEF IntakeInv, WaitingOK, Fetched, StagedOK, RejectedOK, EnvelopeOK, readVars
  <2> QED
    BY <1>2, <2>5, <2>6 DEF IntakeInv, Reading
<1>7. CASE \E client \in Clients : completeImportUpload(client)
  <2>1. PICK client \in Clients : completeImportUpload(client)
    BY <1>7
  <2> DEFINE size == verified[client].sizeBytes
  <2>2. /\ UNCHANGED <<file, puts>> /\ file # NoFile /\ size \in Nat
        /\ verified' = [verified EXCEPT ![client] = Unverified]
    <3>1. /\ UNCHANGED <<file, puts>> /\ verified[client].exists
          /\ verified' = [verified EXCEPT ![client] = Unverified]
      BY <2>1 DEF completeImportUpload
    <3>2. verified[client].exists => verified[client].sizeBytes \in Nat /\ file # NoFile
      BY DEF IntakeInv, ShapeOK, WaitingOK
    <3> QED
      BY <3>1, <3>2
  <2>3. Told(client, BytesEnvelope) \in {BytesEnvelope, PartnerEnvelope}
    BY <2>1 DEF Told, PartnerEnvelope, Clients
  <2>4. /\ DOMAIN verified' = Clients
        /\ \A c \in Clients : verified'[c].exists => verified'[c].sizeBytes \in Nat
    BY <2>2 DEF Unverified, IntakeInv, ShapeOK
  <2>5. \A c \in Clients : verified'[c].exists => file # NoFile
    BY <2>2
  <2> HIDE DEF size
  <2>6. /\ DOMAIN job' = DOMAIN job /\ job'.label = job.label /\ job'.rows = job.rows
        /\ answer'.code \in {413, 200, 500}
        /\ answer'.envelope \in {NoEnvelope, BytesEnvelope, PartnerEnvelope}
        /\ due' \in Nat /\ measured' \in Nat
        /\ \/ /\ job'.status = "guardrail_rejected" /\ job'.verdict = BytesEnvelope
              /\ BytesEnvelope.limit < measured'
           \/ job'.status = "uploaded" /\ job'.verdict = job.verdict
    <3>1. due \in Nat /\ measured \in Nat
      BY DEF IntakeInv, ShapeOK
    <3>2. CASE FileTooLarge(size)
      <4>1. /\ job' = [job EXCEPT !.status = "guardrail_rejected", !.verdict = BytesEnvelope]
            /\ answer' = Answer(413, Told(client, job'.verdict))
            /\ due' = due /\ measured' = size
        BY <2>1, <3>2 DEF completeImportUpload, BytesEnvelope, size
      <4>2. job'.verdict = BytesEnvelope
        BY <1>4, <4>1
      <4>3. BytesEnvelope.limit < measured'
        <5>1. ByteLimit \in Nat
          BY LimitsAreNumbers DEF IntakeInv, ShapeOK
        <5> QED
          BY <2>2, <3>2, <4>1, <5>1, EnvelopesTold DEF FileTooLarge
      <4> QED
        BY <1>4, <2>2, <2>3, <3>1, <4>1, <4>2, <4>3 DEF Answer
    <3>3. CASE ~FileTooLarge(size)
      <4>1. /\ job' = [job EXCEPT !.status = "uploaded"] /\ measured' = measured
            /\ \/ due' = due + 1 /\ answer' = Answer(200, NoEnvelope)
               \/ due' = due /\ answer' = Answer(500, NoEnvelope)
        BY <2>1, <3>3 DEF completeImportUpload, size
      <4> QED
        BY <1>4, <3>1, <4>1 DEF Answer
    <3> QED
      BY <3>2, <3>3
  <2>7. ShapeOK'
    BY <1>1, <2>2, <2>4, <2>6 DEF IntakeInv, ShapeOK, Statuses, readVars
  <2>8. WaitingOK'
    BY <1>1, <1>4, <2>2, <2>5, <2>6 DEF IntakeInv, WaitingOK, Fetched, readVars
  <2>9. StagedOK'
    BY <1>1, <2>6 DEF IntakeInv, StagedOK, readVars
  <2>10. RejectedOK'
    BY <1>1, <1>3, <2>6, EnvelopesTold DEF IntakeInv, RejectedOK, EnvelopeOK, readVars
  <2> QED
    BY <1>2, <2>7, <2>8, <2>9, <2>10 DEF IntakeInv, Reading
<1> QED
  BY <1>5, <1>6, <1>7 DEF PostUploadComplete, PartnerUploadComplete, Clients

LEMMA ExecutionKeeps ==
  ASSUME IntakeInv, StartExecution \/ DownloadFails
  PROVE  IntakeInv'
<1>1. /\ at = "idle" /\ Stageable /\ attempts' = attempts + 1 /\ attempts < MaxAttempts
      /\ due' \in {due, due - 1} /\ due > 0
      /\ UNCHANGED <<mode, sqlTable, file, puts, verified, job, measured, answer>>
  BY DEF StartExecution, DownloadFails
<1>2. attempts' \in 0..MaxAttempts /\ attempts' > 0 /\ due' \in Nat
  BY <1>1, ImportIntakeAssumption DEF IntakeInv, ShapeOK
<1>3. /\ RowsEnvelope' = RowsEnvelope /\ BytesEnvelope' = BytesEnvelope
      /\ MulterEnvelope' = MulterEnvelope /\ PartnerEnvelope' = PartnerEnvelope
  BY <1>1, LimitsFixed
<1>6. Fetched /\ file # NoFile /\ job.status \in {"uploaded", "guardrail_rejected"}
  BY <1>1 DEF IntakeInv, WaitingOK, Stageable
<1>4. CASE DownloadFails
  <2>1. at' = at /\ UNCHANGED <<readVars, scanVars>>
    BY <1>4 DEF DownloadFails
  <2>2. Reading'
    BY <1>1, <2>1, ReadIsKept
  <2>3. ShapeOK'
    BY <1>1, <1>2, <2>1 DEF IntakeInv, ShapeOK, readVars
  <2>4. WaitingOK' /\ StagedOK' /\ RejectedOK'
    BY <1>1, <1>2, <1>3, <1>6, <2>1
       DEF IntakeInv, WaitingOK, Fetched, StagedOK, RejectedOK, EnvelopeOK, readVars
  <2> QED
    BY <2>2, <2>3, <2>4 DEF IntakeInv, Reading
<1>5. CASE StartExecution
  <2>1. file \in Files /\ file.label \in DOMAIN Extensions
    BY <1>6 DEF IntakeInv, ShapeOK, WaitingOK, Fetched
  <2>2. Extensions[file.label] \in Formats
    BY <2>1 DEF Extensions, Formats
  <2>3. RaceOK' /\ DecidedOK' /\ ScanOK' /\ DumpOK'
        /\ copy' = file /\ format' \in Formats /\ stream' = "open" /\ outcome' = Pending /\ at' = "reading"
    BY <1>1, <1>5, <2>1, <2>2, BeginReadOK DEF StartExecution, IntakeInv, ShapeOK
  <2>4. ShapeOK'
    BY <1>1, <1>2, <2>1, <2>3 DEF IntakeInv, ShapeOK, Phases, Formats, Pending, Outcomes
  <2>5. WaitingOK' /\ StagedOK' /\ RejectedOK'
    BY <1>1, <1>2, <1>3, <1>6, <2>3
       DEF IntakeInv, WaitingOK, Fetched, Stageable, StagedOK, RejectedOK, EnvelopeOK
  <2> QED
    BY <2>3, <2>4, <2>5 DEF IntakeInv
<1> QED
  BY <1>4, <1>5

LEMMA ForgetsOK ==
  ASSUME mode \in Modes, mode' = mode, Forgets, at' = "idle"
  PROVE  Reading' /\ copy' = NoFile /\ format' = Unknown /\ stream' = "closed" /\ outcome' = Pending
<1>1. /\ copy' = NoFile /\ format' = Unknown /\ stream' = "closed" /\ next' = 0
      /\ records' = <<>> /\ outcome' = Pending /\ scan' = FreshScan(NoTable)
  BY DEF Forgets
<1>2. RowLimit' = RowLimit /\ RowLimit \in Nat
  BY LimitsFixed, LimitsAreNumbers
<1>3. Lists(<<>>, RowsUpto(NoFile, 0)) /\ <<>> \in Seq(Nat) /\ Len(<<>>) = 0
  BY NothingRead
<1>4. RaceOK'
  BY <1>1, <1>2, <1>3, ImportIntakeAssumption DEF RaceOK
<1>5. DecidedOK'
  BY <1>1 DEF DecidedOK, Pending
<1>6. ScanOK'
  BY <1>1, <1>2, ListOfNone, FreshScanOK DEF ScanOK
<1>7. DumpOK'
  BY DEF DumpOK
<1> QED
  BY <1>1, <1>4, <1>5, <1>6, <1>7 DEF Reading

LEMMA FinishKeeps ==
  ASSUME IntakeInv, FinishExecution \/ Restart
  PROVE  IntakeInv'
<1>1. /\ at \in {"reading", "dead"} /\ attempts > 0 /\ at' = "idle"
      /\ UNCHANGED <<answer, mode, sqlTable, file, puts, verified, attempts>>
  BY DEF FinishExecution, Restart
<1>2. /\ RowsEnvelope' = RowsEnvelope /\ BytesEnvelope' = BytesEnvelope
      /\ MulterEnvelope' = MulterEnvelope /\ PartnerEnvelope' = PartnerEnvelope
      /\ RowsEnvelope # NoEnvelope
  BY <1>1, LimitsFixed, EnvelopesTold
<1>3. /\ job.status \in {"uploaded", "guardrail_rejected"} /\ Fetched /\ file # NoFile
      /\ DOMAIN job = {"status", "label", "verdict", "rows"} /\ IsVerdict(job.verdict)
  BY <1>1 DEF IntakeInv, WaitingOK, RejectedOK, ShapeOK, Stageable
<1>4. /\ job' = job \/ outcome.kind = "accepted" \/ outcome.kind = "exceeded"
      /\ due' \in Nat /\ measured' \in Nat
  <2>1. Cardinality(RowsOf(copy)) \in Nat
    BY <1>1, RowsAreFinite DEF IntakeInv, RaceOK
  <2> QED
    BY <2>1 DEF FinishExecution, Restart, IntakeInv, ShapeOK
<1>5. CASE /\ Forgets /\ measured' = measured
           /\ \/ job' = job
              \/ job' = [job EXCEPT !.status = "uploaded", !.verdict = Passed(@)]
  <2>1. Reading' /\ copy' = NoFile /\ format' = Unknown /\ stream' = "closed" /\ outcome' = Pending
    BY <1>1, <1>5, ForgetsOK DEF IntakeInv, ShapeOK
  <2>2. /\ DOMAIN job' = DOMAIN job /\ job'.label = job.label
        /\ job' = job \/ (job'.status = "uploaded" /\ IsVerdict(job'.verdict))
    <3>1. IsVerdict(Passed(job.verdict))
      BY <1>3, PassedIsVerdict
    <3>2. /\ DOMAIN job' = DOMAIN job /\ job'.label = job.label
          /\ job' = job \/ (job'.status = "uploaded" /\ job'.verdict = Passed(job.verdict))
      BY <1>3, <1>5
    <3> QED
      BY <3>1, <3>2
  <2>3. ShapeOK'
    BY <1>1, <1>4, <2>1, <2>2 DEF IntakeInv, ShapeOK, Phases, Statuses, Outcomes, Pending
  <2>4. WaitingOK' /\ StagedOK' /\ RejectedOK'
    BY <1>1, <1>2, <1>3, <1>5, <2>1, <2>2
       DEF IntakeInv, WaitingOK, Fetched, StagedOK, RejectedOK, EnvelopeOK
  <2> QED
    BY <2>1, <2>3, <2>4 DEF IntakeInv, Reading
<1>6. CASE /\ at = "reading" /\ UNCHANGED <<readVars, scanVars>>
           /\ \/ /\ outcome.kind = "exceeded" /\ measured' = Cardinality(RowsOf(copy))
                 /\ job' = [job EXCEPT !.status = "guardrail_rejected", !.verdict = RowVerdict]
              \/ /\ outcome.kind = "accepted" /\ measured' = measured
                 /\ job' = [job EXCEPT !.status = "staged", !.rows = outcome.records,
                                       !.verdict = Passed(@)]
  <2>1. Reading'
    BY <1>1, <1>6, ReadIsKept
  <2>2. outcome.kind = "exceeded" =>
          RowVerdict = RowsEnvelope /\ RowsEnvelope.limit < Cardinality(RowsOf(copy))
    BY EnvelopesTold DEF RowVerdict, RowsEnvelope, IntakeInv, DecidedOK
  <2>3. /\ DOMAIN job' = DOMAIN job /\ job'.label = job.label
        /\ \/ /\ job'.status = "guardrail_rejected" /\ job'.verdict = RowsEnvelope
              /\ RowsEnvelope.limit < measured'
           \/ /\ outcome.kind = "accepted" /\ job'.status = "staged" /\ job'.rows = outcome.records
              /\ IsVerdict(job'.verdict)
    <3>1. IsVerdict(Passed(job.verdict))
      BY <1>3, PassedIsVerdict
    <3>2. /\ DOMAIN job' = DOMAIN job /\ job'.label = job.label
          /\ \/ /\ outcome.kind = "exceeded" /\ measured' = Cardinality(RowsOf(copy))
                /\ job'.status = "guardrail_rejected" /\ job'.verdict = RowVerdict
             \/ /\ outcome.kind = "accepted" /\ job'.status = "staged"
                /\ job'.rows = outcome.records /\ job'.verdict = Passed(job.verdict)
      BY <1>3, <1>6
    <3> QED
      BY <2>2, <3>1, <3>2
  <2>4. ShapeOK'
    BY <1>1, <1>4, <1>6, <2>3 DEF IntakeInv, ShapeOK, Phases, Statuses, readVars
  <2>5. WaitingOK' /\ StagedOK'
    BY <1>1, <1>3, <1>6, <2>3 DEF IntakeInv, WaitingOK, Fetched, StagedOK, readVars
  <2>6. RejectedOK'
    BY <1>1, <1>2, <1>6, <2>3, EnvelopesTold DEF IntakeInv, RejectedOK, EnvelopeOK, readVars
  <2> QED
    BY <2>1, <2>4, <2>5, <2>6 DEF IntakeInv, Reading
<1>7. CASE Restart
  BY <1>5, <1>7 DEF Restart
<1>8. CASE FinishExecution
  BY <1>5, <1>6, <1>8 DEF FinishExecution
<1> QED
  BY <1>7, <1>8

LEMMA IntakeInit == Init => IntakeInv
<1> SUFFICES ASSUME Init PROVE IntakeInv
  OBVIOUS
<1>1. /\ mode \in Modes /\ sqlTable = NoTable /\ file = NoFile /\ puts = 0 /\ job = NoJob
      /\ verified = [client \in Clients |-> Unverified] /\ due = 0 /\ measured = 0
      /\ answer = Answer(0, NoEnvelope) /\ at = "idle" /\ attempts = 0 /\ copy = NoFile
      /\ format = Unknown /\ stream = "closed" /\ next = 0 /\ records = <<>> /\ outcome = Pending
      /\ scan = FreshScan(NoTable)
  BY DEF Init
<1>2. RowLimit \in Nat /\ Lists(<<>>, RowsUpto(NoFile, 0)) /\ <<>> \in Seq(Nat) /\ Len(<<>>) = 0
  BY <1>1, LimitsAreNumbers, NothingRead
<1>3. RaceOK /\ DecidedOK /\ DumpOK
  BY <1>1, <1>2, ImportIntakeAssumption DEF RaceOK, DecidedOK, DumpOK, Pending
<1>4. ScanOK
  BY <1>1, <1>2, ListOfNone, FreshScanOK DEF ScanOK
<1>7. DOMAIN verified = Clients /\ \A client \in Clients : ~verified[client].exists
  BY <1>1 DEF Unverified
<1>5. ShapeOK
  BY <1>1, <1>7, ImportIntakeAssumption DEF ShapeOK, Phases, Statuses, Outcomes, Pending, NoJob, Answer
<1>6. WaitingOK /\ StagedOK /\ RejectedOK
  BY <1>1, <1>7 DEF WaitingOK, Fetched, Extensions, Unknown, StagedOK, RejectedOK, EnvelopeOK,
              IsVerdict, NoJob, Answer
<1> QED
  BY <1>3, <1>4, <1>5, <1>6 DEF IntakeInv

LEMMA IntakeStep == IntakeInv /\ [Next]_vars => IntakeInv'
<1> SUFFICES ASSUME IntakeInv, [Next]_vars PROVE IntakeInv'
  OBVIOUS
<1>1. CASE UNCHANGED vars
  <2>1. /\ UNCHANGED <<mode, sqlTable, file, puts, verified, due, attempts>>
        /\ UNCHANGED <<job, measured, answer, at, readVars, scanVars>>
    BY <1>1 DEF vars, uploadVars
  <2>2. /\ RowsEnvelope' = RowsEnvelope /\ BytesEnvelope' = BytesEnvelope
        /\ MulterEnvelope' = MulterEnvelope /\ PartnerEnvelope' = PartnerEnvelope
    BY <2>1, LimitsFixed
  <2>3. Reading'
    BY <2>1, ReadIsKept
  <2>4. ShapeOK' /\ WaitingOK' /\ StagedOK' /\ RejectedOK'
    BY <2>1, <2>2
       DEF IntakeInv, ShapeOK, WaitingOK, Fetched, Stageable, StagedOK, RejectedOK, EnvelopeOK,
           readVars
  <2> QED
    BY <2>3, <2>4 DEF IntakeInv, Reading
<1> QED
  BY <1>1, PostFileKeeps, ReadEventKeeps, ArchiveKeeps, CreateJobKeeps, CreateDedicatedKeeps, UploadKeeps,
     ExecutionKeeps, FinishKeeps DEF Next

\* The invariant of the intake.
THEOREM IntakeInvariant == Spec => []IntakeInv
BY IntakeInit, IntakeStep, PTL DEF Spec

-----------------------------------------------------------------------------
(* What the invariant says of a tenant's file. *)

LEMMA ToldDimensions ==
  ASSUME NEW e, EnvelopeOK(e)
  PROVE  e.dimension \in Dimensions
BY EnvelopesTold DEF EnvelopeOK, Dimensions

LEMMA InvTyped == IntakeInv => IntakeTypeOK
<1> SUFFICES ASSUME IntakeInv PROVE IntakeTypeOK
  OBVIOUS
<1>1. ShapeOK /\ EnvelopeOK(answer.envelope) /\ IsVerdict(job.verdict)
  BY DEF IntakeInv, RejectedOK
<1>2. answer.envelope.dimension \in Dimensions /\ job.verdict.dimension \in Dimensions
  BY <1>1, ToldDimensions, EnvelopesTold DEF IsVerdict, Dimensions
<1>3. format # "excel" => Len(records) <= RowLimit
  BY DEF IntakeInv, RaceOK
<1>4. /\ scan.mode \in {"exec", "tuples", "tuple", "string", "delimiter", "done"}
      /\ Len(scan.rows) <= RowLimit
  BY DEF IntakeInv, ScanOK
<1> QED
  BY <1>1, <1>2, <1>3, <1>4 DEF IntakeTypeOK, ShapeOK, Phases, Statuses, Outcomes

\* Whatever the file, the fault and the retry, a read holds no more records than the
\* tenant's ceiling (collectBounded, scanSqlDump), a workbook excepted.
THEOREM IntakeTypeCorrect == Spec => []IntakeTypeOK
BY IntakeInvariant, InvTyped, PTL

\* A job whose rows are staged has no more of them than its tenant may import, in any
\* format, a dump or a workbook too (checkGuardrailStreaming).
StagedIsBounded == job.status = "staged" => Len(job.rows) <= RowLimit
THEOREM CeilingIsKept == Spec => []StagedIsBounded
<1>1. IntakeInv => StagedIsBounded
  BY DEF IntakeInv, StagedOK, DecidedOK, StagedIsBounded
<1> QED
  BY <1>1, IntakeInvariant, PTL

\* However the stream's end, close, error and abort race, and whatever stands in the
\* values of a dump, a staged job has all the rows of the file that was read, in their
\* order and as the file has them (collectBounded, parseExcelBounded, scanSqlDump):
\* what a client puts at the URL meanwhile changes none of them.
LEMMA InvWhole == IntakeInv => AcceptedIsWhole
<1> SUFFICES ASSUME IntakeInv, job.status = "staged"
             PROVE  /\ \E places \in [DOMAIN job.rows -> RowsOf(copy)] :
                         Lists(places, RowsOf(copy)) /\ job.rows = RowsAt(copy, places)
                    /\ format # "sql" => copy.whole
                    /\ Len(job.rows) <= RowLimit
  BY DEF AcceptedIsWhole
<1> DEFINE rows == job.rows
           S == RowsOf(copy)
<1>1. WholeRead(rows) /\ Len(rows) <= RowLimit
  BY DEF IntakeInv, StagedOK, DecidedOK
<1>2. ASSUME NEW places \in Seq(Nat), Lists(places, S), DOMAIN rows = DOMAIN places
      PROVE  places \in [DOMAIN rows -> S]
  <2>1. \A i \in DOMAIN places : places[i] \in S
    BY <1>2 DEF Lists
  <2>2. places = [i \in DOMAIN places |-> places[i]]
    OBVIOUS
  <2> HIDE DEF S, rows
  <2> QED
    BY <1>2, <2>1, <2>2
<1>3. CASE format = "sql"
  <2>1. PICK places \in Seq(Nat) : Lists(places, S) /\ rows = RowsFrom(Dump, places)
    BY <1>1, <1>3 DEF WholeRead, Holds
  <2>2. DOMAIN rows = DOMAIN places /\ rows = RowsAt(copy, places)
    BY <1>3, <2>1 DEF RowsFrom, RowsAt, Dump
  <2> QED
    BY <1>1, <1>2, <1>3, <2>1, <2>2
<1>4. CASE format # "sql"
  <2>1. rows \in Seq(Nat) /\ Lists(rows, S) /\ copy.whole
    BY <1>1, <1>4 DEF WholeRead
  <2>2. rows = RowsAt(copy, rows)
    BY <1>4, <2>1 DEF RowsAt
  <2> QED
    BY <1>1, <1>2, <2>1, <2>2
<1> QED
  BY <1>3, <1>4

THEOREM StagedFilesAreWhole == Spec => []AcceptedIsWhole
BY IntakeInvariant, InvWhole, PTL

\* Only a file that is damaged, or a dump that does not say what to import, is answered
\* as malformed, and only a damaged JSON file ends the process (parseJsonBounded's piped
\* parser).
THEOREM RefusedFilesAreDamaged == Spec => []RefusedIsDamaged
<1>1. IntakeInv => RefusedIsDamaged
  BY DEF IntakeInv, DecidedOK, RefusedIsDamaged, Damaged, Dump
<1> QED
  BY <1>1, IntakeInvariant, PTL

\* The two families of settings name the same ceilings, as their defaults do
\* (tierPolicy.js, streamingGuardrail.js), and one's own database allows more.
SettingsAgree ==
    /\ PolicyRows = TierRows /\ PolicyBytes = TierBytes
    /\ TierRows["shared"] < TierRows["own"] /\ TierBytes["shared"] < TierBytes["own"]

LEMMA OfferIsTrue ==
  ASSUME SettingsAgree
  PROVE  /\ UpgradeCta.current.rows = RowLimit /\ UpgradeCta.current.bytes = ByteLimit
         /\ UpgradeCta.available =>
              /\ mode = "shared"
              /\ UpgradeCta.target.rows = TierRows["own"] /\ UpgradeCta.target.bytes = TierBytes["own"]
              /\ TierRows["own"] > RowLimit /\ TierBytes["own"] > ByteLimit
<1>1. TierLimits(Tier).rows = RowLimit /\ TierLimits(Tier).bytes = ByteLimit
  BY DEF TierLimits, RowLimit, ByteLimit, SettingsAgree
<1>2. /\ PolicyRows \in [Tiers -> Nat] /\ PolicyBytes \in [Tiers -> Nat]
      /\ TierRows \in [Tiers -> Nat] /\ TierBytes \in [Tiers -> Nat]
  BY ImportIntakeAssumption
<1>3. CASE mode = "shared"
  <2>1. Tier = "shared" /\ RowLimit = TierRows["shared"] /\ ByteLimit = TierBytes["shared"]
    BY <1>3 DEF Tier, RowLimit, ByteLimit, SettingsAgree
  <2>2. TierRows["own"] > RowLimit /\ TierBytes["own"] > ByteLimit
    BY <1>2, <2>1 DEF SettingsAgree, Tiers
  <2> QED
    BY <1>1, <1>3, <2>1, <2>2 DEF UpgradeCta, TierLimits
<1>4. CASE mode # "shared"
  BY <1>1, <1>4 DEF UpgradeCta, Tier
<1> QED
  BY <1>3, <1>4

LEMMA InvTruthful == SettingsAgree => (IntakeInv => RejectionsTruthful)
<1> SUFFICES ASSUME SettingsAgree, IntakeInv PROVE RejectionsTruthful
  OBVIOUS
<1> DEFINE Of(e, limits) == IF e.dimension = "rows" THEN limits.rows ELSE limits.bytes
           Agrees(e) == /\ e.limit = IF e.dimension = "rows" THEN RowLimit ELSE ByteLimit
                        /\ e.limit = Of(e, e.upgrade.current) /\ e.limit = e.reason.limit
                        /\ e.upgrade.available => e.reason.raisedTo = Of(e, e.upgrade.target)
           Offers(e) == e.upgrade.available => Of(e, e.upgrade.target) > Of(e, e.upgrade.current)
<1>1. /\ RowsEnvelope.upgrade = UpgradeCta /\ BytesEnvelope.upgrade = UpgradeCta
      /\ MulterEnvelope.upgrade = UpgradeCta /\ PartnerEnvelope.upgrade = UpgradeCta
      /\ RowsEnvelope.reason = buildGuardrailRejectionReason(RowLimit)
      /\ BytesEnvelope.reason = buildByteRejectionReason(ByteLimit)
  BY EnvelopesTold DEF RowsEnvelope, BytesEnvelope, MulterEnvelope, PartnerEnvelope, Told,
                       describeGuardrailRejection
<1>2. Agrees(RowsEnvelope) /\ Agrees(BytesEnvelope)
  <2>1. /\ buildGuardrailRejectionReason(RowLimit).limit = RowLimit
        /\ buildByteRejectionReason(ByteLimit).limit = ByteLimit
        /\ mode = "shared" => /\ buildGuardrailRejectionReason(RowLimit).raisedTo = TierRows["own"]
                              /\ buildByteRejectionReason(ByteLimit).raisedTo = TierBytes["own"]
    BY DEF buildGuardrailRejectionReason, buildByteRejectionReason
  <2> QED
    BY <1>1, <2>1, EnvelopesTold, OfferIsTrue
<1>3. Offers(RowsEnvelope) /\ Offers(BytesEnvelope) /\ Offers(MulterEnvelope) /\ Offers(PartnerEnvelope)
  BY <1>1, EnvelopesTold, OfferIsTrue
<1>4. ASSUME NEW e, NEW m \in BOOLEAN,
             \/ Agrees(e) /\ Offers(e)
             \/ m /\ Offers(e)
             \/ e.dimension = "unnamed" /\ Offers(e)
             \/ e.dimension = "none"
      PROVE  Truthful(e, m)
  BY <1>4 DEF Truthful
<1> HIDE DEF Agrees, Offers
<1> DEFINE told == answer.envelope
           byMulter == at = "done" /\ told.dimension = "bytes"
<1>5. Truthful(told, byMulter) /\ (told.dimension = "rows" => told.limit < Cardinality(RowsOf(copy)))
  <2>1. EnvelopeOK(told)
    BY DEF IntakeInv, RejectedOK
  <2>2. CASE told \in {NoEnvelope, BytesEnvelope, PartnerEnvelope}
    BY <1>2, <1>3, <1>4, <2>2, EnvelopesTold
  <2>3. CASE at = "done" /\ told = MulterEnvelope
    BY <1>3, <1>4, <2>3, EnvelopesTold
  <2>4. CASE at = "done" /\ told = RowsEnvelope /\ outcome.kind = "exceeded"
    BY <1>2, <1>3, <1>4, <2>4, EnvelopesTold DEF IntakeInv, DecidedOK
  <2> QED
    BY <2>1, <2>2, <2>3, <2>4 DEF EnvelopeOK
<1>6. ASSUME job.status = "guardrail_rejected"
      PROVE  /\ job.verdict.dimension \in {"rows", "bytes"} /\ Truthful(job.verdict, FALSE)
             /\ job.verdict.limit < measured
  <2>1. job.verdict \in {RowsEnvelope, BytesEnvelope} /\ job.verdict.limit < measured
    BY <1>6 DEF IntakeInv, RejectedOK
  <2> QED
    BY <1>2, <1>3, <1>4, <2>1, EnvelopesTold
<1> QED
  BY <1>5, <1>6 DEF RejectionsTruthful

\* What a tenant is told of a rejection is true (describeGuardrailRejection and its
\* callers), and so is what a rejected job says of itself after any executions, retries
\* and late requests: its own ceiling, prose that agrees with the limits beside it, an
\* offer of more only where there is more, and a file that had more than the ceiling.
THEOREM RejectionsAreTrue ==
  ASSUME SettingsAgree
  PROVE  Spec => []RejectionsTruthful
<1>1. IntakeInv => RejectionsTruthful
  BY InvTruthful, SettingsAgree
<1> QED
  BY <1>1, IntakeInvariant, PTL

=============================================================================
