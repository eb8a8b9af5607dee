---------------------------- MODULE ImportIntake ----------------------------
(***************************************************************************)
(* How a file comes in, up to the decision whether its rows are staged:    *)
(* the two ways POST /imports takes it (http/uploadRoutes.js, http/        *)
(* b2bUploadRoutes.js, orchestration/migrationImport.service.js), the      *)
(* ceilings of the tenant's tier (core/guardrail), and the bounded read    *)
(* (core/parsing), which is a race of a stream's events to settle one      *)
(* promise.  A SQL dump is read by the scanner of SqlDump.                 *)
(*                                                                         *)
(* A small tenant uploads the file with the request; an own-database       *)
(* tenant gets a URL, puts the file there, once or more often, completes   *)
(* the upload, and executions read it.  Of a file that is no dump a record *)
(* is known by its position.                                               *)
(*                                                                         *)
(* A definition commented "Slip" is a mistake this code does not make: a   *)
(* property below must fail when it takes the place of what follows it.    *)
(***************************************************************************)
EXTENDS SqlDump, FiniteSets

CONSTANTS
    Files,          \* the files a client may send
    Objects,        \* those it may put at a URL
    Modes,          \* storage modes the tenant may have
    PolicyRows,     \* row ceiling of each tier, ONBOARDER_*_MAX_ROWS
    PolicyBytes,    \* byte ceiling of each tier, ONBOARDER_*_MAX_BYTES
    TierRows,       \* MIGRATION_*_MAX_IMPORT_ROWS
    TierBytes,      \* MIGRATION_*_MAX_IMPORT_BYTES
    MaxPuts,        \* bound on the uploads to a URL
    MaxAttempts,    \* bound on the executions
    Faults,         \* disk, storage and database calls may fail
    Tables,         \* what an operator may write as the table, NoTable included
    NoFile          \* no file

Tiers == {"shared", "own"}
Unknown == "unknown"
Extensions == [csv |-> "csv", json |-> "json", xlsx |-> "excel", xls |-> "excel", sql |-> "sql"]

\* A file: what its name and type say; its size; and what is in it: a dump,
\* which is empty if the file is none; of other files the items, which are rows or
\* yield none, whether the parser gets through them or fails after the
\* first "bad" of them, and whether a JSON text starts as an array.
ASSUME ImportIntakeAssumption ==
    /\ \A f \in Files :
         /\ f.size \in Nat /\ f.items \in Seq({"row", "other"})
         /\ f.whole \in BOOLEAN /\ f.array \in BOOLEAN /\ f.bad \in 0..Len(f.items)
         /\ f.dump \in DOMAIN Dumps
    /\ Objects \subseteq Files
    /\ Modes \subseteq {"shared", "dedicated", "byod", "local"}
    /\ \A limits \in {PolicyRows, PolicyBytes, TierRows, TierBytes} : limits \in [Tiers -> Nat]
    /\ MaxPuts \in Nat /\ MaxAttempts \in Nat /\ Faults \in BOOLEAN
    /\ NoFile \notin Files
    /\ NoTable \in Tables /\ Tables \ {NoTable} \subseteq DOMAIN NameOf

VARIABLES
    mode,       \* the tenant's storage mode
    sqlTable,   \* the table the operator names, if any
    file,       \* the file sent with the request, or put at the URL
    puts,       \* uploads to the URL so far
    job,        \* the ImportJob
    measured,   \* rows or bytes of the file that its rejection is about
    verified,   \* what those who complete the upload have found at the URL
    due,        \* executions that Cloud Run has still to start
    answer,     \* the last answer to the client
    at,         \* where the request or execution that reads the file is
    attempts,   \* executions so far
    copy,       \* the file it reads
    format,     \* the format it takes it for
    stream,     \* the parser's stream
    next,       \* items it has delivered
    records,    \* what collectBounded has collected
    outcome     \* what the read settled to

scanVars == <<sql, scan>>
readVars == <<copy, format, stream, next, records, outcome>>
uploadVars == <<mode, sqlTable, file, puts, verified, due, attempts>>
vars == <<uploadVars, job, measured, answer, at, readVars, scanVars>>

Pending == [kind |-> "pending", records |-> <<>>]
Accepts(rs) == [kind |-> "accepted", records |-> rs]
Settles(kind) == [kind |-> kind, records |-> <<>>]

NoEnvelope == [dimension |-> "none"]
NoJob == [status |-> "none", label |-> Unknown, verdict |-> NoEnvelope, rows |-> <<>>]
Answer(code, envelope) == [code |-> code, envelope |-> envelope]

-----------------------------------------------------------------------------
(* The tier's ceilings. *)

\* envTierPolicy.resolve: every mode but "shared" has a database of its own.
Tier == IF mode = "shared" THEN "shared" ELSE "own"
RowLimit == PolicyRows[Tier]
ByteLimit == PolicyBytes[Tier]

\* What the upload path for own databases asks for; "local" has none.
hasOwnDatabase == mode \in {"dedicated", "byod"}

TierLimits(t) == [rows |-> TierRows[t], bytes |-> TierBytes[t]]

\* Slip: what is offered to a shared tenant is offered to everyone.
UpgradeCtaAlways ==
    [available |-> TRUE, current |-> TierLimits(Tier), target |-> TierLimits("own")]

\* buildUpgradeCta; only a shared tenant has a tier to move to.
UpgradeCta ==
    IF mode = "shared"
    THEN [available |-> TRUE, current |-> TierLimits("shared"), target |-> TierLimits("own")]
    ELSE [available |-> FALSE, current |-> TierLimits("own"), target |-> TierLimits("own")]

\* What the prose of a rejection says: whose limit was passed, and what it would
\* be on a database of one's own.
buildGuardrailRejectionReason(limit) ==
    [tier |-> Tier, limit |-> limit,
     raisedTo |-> IF mode = "shared" THEN TierRows["own"] ELSE limit]
buildByteRejectionReason(limit) ==
    [tier |-> Tier, limit |-> limit,
     raisedTo |-> IF mode = "shared" THEN TierBytes["own"] ELSE limit]

describeGuardrailRejection(dimension, limit) ==
    [dimension |-> dimension, limit |-> limit, upgrade |-> UpgradeCta,
     reason |-> IF dimension = "bytes" THEN buildByteRejectionReason(limit)
                ELSE buildGuardrailRejectionReason(limit)]

\* checkImportFileSize, with a size that may be undeclared.
FileTooLarge(size) == size > ByteLimit

-----------------------------------------------------------------------------
(* parseStreaming.  The first event that settles the promise decides; those *)
(* that come later change nothing.                                         *)

Items(f) == IF f.whole THEN Len(f.items) ELSE f.bad

BeginRead(f, fmt) ==
    /\ copy' = f /\ format' = fmt
    /\ stream' = "open" /\ next' = 0 /\ records' = <<>> /\ outcome' = Pending
    /\ at' = "reading"
    /\ IF fmt = "sql"
       THEN sql' = Dumps[f.dump].text /\ scan' = FreshScan(NoTable)
       ELSE UNCHANGED scanVars

First(settled) == outcome' = IF outcome = Pending THEN settled ELSE outcome
Streams == format \in {"csv", "json"}

\* assertJsonRootIsArray, before the stream is opened.
RefuseRoot ==
    /\ format = "json" /\ stream = "open" /\ next = 0 /\ ~copy.array
    /\ outcome' = Settles("malformed") /\ stream' = "closed"
    /\ UNCHANGED <<next, records, at>>

Reads == Streams /\ (format = "json" => copy.array)

\* Slip: one row is allowed past the ceiling.
DataLate ==
    /\ Reads /\ stream \in {"open", "destroyed"} /\ next < Items(copy)
    /\ next' = next + 1
    /\ IF outcome # Pending \/ copy.items[next'] = "other" THEN UNCHANGED <<records, outcome, stream>>
       ELSE IF Len(records) > RowLimit
            THEN records' = <<>> /\ outcome' = Settles("exceeded") /\ stream' = "destroyed"
            ELSE records' = Append(records, next') /\ UNCHANGED <<outcome, stream>>
    /\ UNCHANGED at

\* "data".  Empty lines and elements that are no objects yield no record.  The
\* record past the ceiling ends the read, but records that were parsed already
\* may still be delivered.
Data ==
    /\ Reads /\ stream \in {"open", "destroyed"} /\ next < Items(copy)
    /\ next' = next + 1
    /\ IF outcome # Pending \/ copy.items[next'] = "other" THEN UNCHANGED <<records, outcome, stream>>
       ELSE IF Len(records) >= RowLimit
            THEN records' = <<>> /\ outcome' = Settles("exceeded") /\ stream' = "destroyed"
            ELSE records' = Append(records, next') /\ UNCHANGED <<outcome, stream>>
    /\ UNCHANGED at

\* "error" of the CSV parser.
ParserFails ==
    /\ Reads /\ format = "csv" /\ stream = "open" /\ ~copy.whole /\ next = Items(copy)
    /\ First(Settles("malformed")) /\ stream' = "destroyed"
    /\ UNCHANGED <<next, records, at>>

\* "error" of the JSON parser, which is piped into streamArray and which nobody
\* listens to: it ends the process.
ParserKills ==
    /\ Reads /\ format = "json" /\ stream = "open" /\ ~copy.whole /\ next = Items(copy)
    /\ at' = "dead"
    /\ UNCHANGED <<stream, next, records, outcome>>

\* A workbook and a dump are read as a whole before anything is made of them.
InFile == (format = "sql" => scan = FreshScan(NoTable)) /\ (format = "excel" => next = 0)

\* Slip: pipe forwards no error, and nobody listens for it.
SourceUnheard ==
    /\ Faults /\ stream = "open" /\ InFile
    /\ stream' = "broken"
    /\ UNCHANGED <<outcome, next, records, at>>

\* "error" of the file.
SourceFails ==
    /\ Faults /\ stream = "open" /\ InFile
    /\ First(Settles("unreadable")) /\ stream' = "broken"
    /\ UNCHANGED <<next, records, at>>

EndOfStream ==
    /\ Reads /\ stream = "open" /\ copy.whole /\ next = Items(copy)
    /\ First(Accepts(records)) /\ stream' = "ended"
    /\ UNCHANGED <<next, records, at>>

\* Slip: "close" settles what is settled already.
CloseAlways ==
    /\ Reads /\ stream \in {"ended", "destroyed"}
    /\ outcome' = Accepts(records) /\ stream' = "closed"
    /\ UNCHANGED <<next, records, at>>

\* "close" follows "end" and destroy.
Close ==
    /\ Reads /\ stream \in {"ended", "destroyed"}
    /\ First(Accepts(records)) /\ stream' = "closed"
    /\ UNCHANGED <<next, records, at>>

\* A workbook is loaded as a whole, or not at all; its rows are collected, those
\* that are empty left out, and then counted.
RefuseWorkbook ==
    /\ format = "excel" /\ stream = "open" /\ ~copy.whole
    /\ outcome' = Settles("malformed") /\ stream' = "closed"
    /\ UNCHANGED <<next, records, at>>

EachRow ==
    /\ format = "excel" /\ stream = "open" /\ copy.whole /\ next < Items(copy)
    /\ next' = next + 1
    /\ records' = IF copy.items[next'] = "row" THEN Append(records, next') ELSE records
    /\ UNCHANGED <<outcome, stream, at>>

CountRows ==
    /\ format = "excel" /\ stream = "open" /\ copy.whole /\ next = Items(copy)
    /\ outcome' = IF Len(records) > RowLimit THEN Settles("exceeded") ELSE Accepts(records)
    /\ stream' = "closed"
    /\ UNCHANGED <<next, records, at>>

\* parseSqlBounded returns what extractSqlTable does.
ReturnRows ==
    /\ format = "sql" /\ stream = "open" /\ scan.mode = "done"
    /\ stream' = "closed"
    /\ outcome' = CASE scan.verdict = "rows" -> Accepts(scan.rows)
                    [] scan.verdict = "exceeded" -> Settles("exceeded")
                    [] scan.verdict = "refused" -> Settles("malformed")
    /\ UNCHANGED <<next, records, at>>

ReadEvent ==
    /\ at = "reading"
    /\ \/ /\ \/ RefuseRoot \/ Data \/ ParserFails \/ ParserKills \/ SourceFails
             \/ EndOfStream \/ Close \/ RefuseWorkbook \/ EachRow \/ CountRows
             \/ ReturnRows
          /\ UNCHANGED scanVars
       \/ /\ format = "sql" /\ ScanStep(sqlTable, RowLimit)
          /\ UNCHANGED <<at, stream, next, records, outcome>>
    /\ UNCHANGED <<uploadVars, job, measured, answer, copy, format>>

-----------------------------------------------------------------------------
(* POST /imports with a file: multer, then createImportJob. *)

\* By extension, then by type.
detectSourceFormat(label) ==
    IF label \in DOMAIN Extensions THEN Extensions[label]
    ELSE IF label = "plain" THEN "json" ELSE Unknown

\* What the operator may name: nothing, or a table, the dump's or not.
TableNames(label) == IF label = "sql" THEN Tables ELSE {NoTable}

\* Multer's error handler names the tenant's tier, but the ceiling is the shared
\* one, whoever uploads.
MulterRefuses ==
    /\ answer' = Answer(413, describeGuardrailRejection("bytes", TierBytes["shared"]))
    /\ at' = "done" /\ UNCHANGED <<readVars, scanVars>>

PostFile ==
    /\ at = "idle" /\ job = NoJob /\ puts = 0
    /\ \E f \in Files :
         /\ file' = f /\ sqlTable' \in TableNames(f.label)
         /\ IF f.size > TierBytes["shared"] THEN MulterRefuses
            ELSE IF detectSourceFormat(f.label) = Unknown
            THEN /\ answer' = Answer(400, NoEnvelope)
                 /\ at' = "done" /\ UNCHANGED <<readVars, scanVars>>
            ELSE BeginRead(f, detectSourceFormat(f.label)) /\ UNCHANGED answer
    /\ UNCHANGED <<mode, puts, verified, due, attempts, job, measured>>

Inline == at \in {"reading", "archived"} /\ attempts = 0

\* The read has settled: what it threw is answered, or the file is archived,
\* which may fail.
Archive ==
    /\ Inline /\ at = "reading" /\ outcome # Pending
    /\ \/ /\ outcome.kind \in {"malformed", "unreadable"}
          /\ answer' = Answer(400, NoEnvelope) /\ at' = "done"
       \/ /\ outcome.kind \in {"accepted", "exceeded"}
          /\ at' = "archived" /\ UNCHANGED answer
       \/ /\ Faults /\ outcome.kind \in {"accepted", "exceeded"}
          /\ answer' = Answer(500, NoEnvelope) /\ at' = "done"
    /\ UNCHANGED <<uploadVars, job, measured, readVars, scanVars>>

\* The places of the rows in a file.
RowsOf(f) ==
    IF format = "sql" THEN TuplesOf(Dumps[f.dump], Wanted(Dumps[f.dump], sqlTable))
    ELSE {k \in DOMAIN f.items : f.items[k] = "row"}

RowVerdict ==
    IF outcome.kind = "exceeded" THEN describeGuardrailRejection("rows", RowLimit) ELSE NoEnvelope

\* ImportJob.create, and the staging of the rows, which ImportPipeline has in
\* detail.  A rejected job is answered with 201, too.
CreateJob ==
    /\ Inline /\ at = "archived"
    /\ \/ /\ outcome.kind = "exceeded"
          /\ job' = [NoJob EXCEPT !.status = "guardrail_rejected", !.verdict = RowVerdict]
          /\ measured' = Cardinality(RowsOf(copy))
       \/ /\ outcome.kind = "accepted" /\ UNCHANGED measured
          /\ job' = [NoJob EXCEPT !.status = "staged", !.rows = outcome.records]
       \/ /\ Faults /\ outcome.kind = "accepted" /\ UNCHANGED measured
          /\ job' = [NoJob EXCEPT !.status = "failed"]
    /\ answer' = Answer(201, RowVerdict) /\ at' = "done"
    /\ UNCHANGED <<uploadVars, readVars, scanVars>>

-----------------------------------------------------------------------------
(* POST /imports with a fileName: createImportJobDedicated, the upload to the *)
(* URL, completeImportUpload, and the executions.  The wizard and a partner's *)
(* program (http/b2bUploadRoutes.js) call the same services.               *)

\* A partner is told no more of a rejection than what is offered (sendErr).
Told(client, envelope) ==
    IF client = "partner" /\ envelope # NoEnvelope
    THEN [dimension |-> "unnamed", upgrade |-> envelope.upgrade] ELSE envelope

\* The size is what the client declares, if it does.  The URL is made before the
\* job, so that its failure leaves none.
createImportJobDedicated(client, f, declared) ==
    /\ at = "idle" /\ job = NoJob
    /\ \/ /\ ~hasOwnDatabase
          /\ answer' = Answer(400, NoEnvelope) /\ UNCHANGED <<job, sqlTable>>
       \/ /\ hasOwnDatabase /\ declared /\ FileTooLarge(f.size)
          /\ answer' = Answer(413, Told(client, describeGuardrailRejection("bytes", ByteLimit)))
          /\ UNCHANGED <<job, sqlTable>>
       \/ /\ hasOwnDatabase /\ ~(declared /\ FileTooLarge(f.size))
          /\ \/ /\ f.label \in DOMAIN Extensions
                /\ job' = [NoJob EXCEPT !.status = "pending_upload", !.label = f.label]
                /\ sqlTable' \in TableNames(f.label)
                /\ answer' = Answer(201, NoEnvelope)
             \/ /\ f.label \notin DOMAIN Extensions
                /\ answer' = Answer(400, NoEnvelope) /\ UNCHANGED <<job, sqlTable>>
             \/ /\ Faults
                /\ answer' = Answer(500, NoEnvelope) /\ UNCHANGED <<job, sqlTable>>
    /\ UNCHANGED <<mode, file, puts, verified, due, attempts, measured, at, readVars,
                   scanVars>>

PostFileName ==
    \E f \in Files, declared \in BOOLEAN : createImportJobDedicated("wizard", f, declared)

\* A partner must declare the size.
InitiateImport == \E f \in Files : createImportJobDedicated("partner", f, TRUE)

\* The client puts a file at the URL, while it is valid, whatever became of the one
\* before.  An execution reads its own copy.
Put ==
    /\ job.status \in {"pending_upload", "uploaded", "guardrail_rejected"}
    /\ at = "idle" /\ puts < MaxPuts
    /\ \E f \in Objects : f.label = job.label /\ file' = f
    /\ puts' = puts + 1
    /\ UNCHANGED <<mode, sqlTable, verified, due, attempts, job, measured, answer, at,
                   readVars, scanVars>>

Clients == {"wizard", "partner"}
Unverified == [exists |-> FALSE]

verifyUpload == IF file = NoFile THEN Unverified ELSE [exists |-> TRUE, sizeBytes |-> file.size]

\* The request finds the job waiting, and the file at its URL, or not.
FindUpload(client) ==
    /\ at = "idle" /\ job.status = "pending_upload" /\ ~verified[client].exists
    /\ verified' = [verified EXCEPT ![client] = verifyUpload]
    /\ answer' = IF file = NoFile THEN Answer(400, NoEnvelope) ELSE answer
    /\ UNCHANGED <<mode, sqlTable, file, puts, due, attempts, job, measured, at, readVars,
                   scanVars>>

\* It saves what follows from the status and the size it found, which may both be
\* old by now.  An execution is triggered, or the call rejects.  (An execution looks
\* at the status when it starts, so what is saved while one reads is as if saved
\* before.)
completeImportUpload(client) ==
    /\ at = "idle" /\ verified[client].exists
    /\ verified' = [verified EXCEPT ![client] = Unverified]
    /\ \/ /\ FileTooLarge(verified[client].sizeBytes)
          /\ job' = [job EXCEPT !.status = "guardrail_rejected",
                                !.verdict = describeGuardrailRejection("bytes", ByteLimit)]
          /\ measured' = verified[client].sizeBytes
          /\ answer' = Answer(413, Told(client, job'.verdict)) /\ UNCHANGED due
       \/ /\ ~FileTooLarge(verified[client].sizeBytes)
          /\ job' = [job EXCEPT !.status = "uploaded"] /\ UNCHANGED measured
          /\ \/ due' = due + 1 /\ answer' = Answer(200, NoEnvelope)
             \/ Faults /\ UNCHANGED due /\ answer' = Answer(500, NoEnvelope)
    /\ UNCHANGED <<mode, sqlTable, file, puts, attempts, at, readVars, scanVars>>

PostUploadComplete == FindUpload("wizard") \/ completeImportUpload("wizard")
PartnerUploadComplete == FindUpload("partner") \/ completeImportUpload("partner")

\* An execution that was triggered, or that retries one that failed, reads the file
\* of a job that is not staged yet, a rejected one too; of any other it reads none.
Stageable == job.status \in {"uploaded", "guardrail_rejected"}

\* It downloads the file, and goes by the name alone.
StartExecution ==
    /\ at = "idle" /\ attempts < MaxAttempts /\ due > 0
    /\ Stageable
    /\ attempts' = attempts + 1 /\ due' = due - 1
    /\ BeginRead(file, Extensions[file.label])
    /\ UNCHANGED <<mode, sqlTable, file, puts, verified, job, measured, answer>>

\* The download fails, and with it the execution, which is retried.
DownloadFails ==
    /\ Faults /\ at = "idle" /\ attempts < MaxAttempts /\ due > 0
    /\ Stageable
    /\ attempts' = attempts + 1
    /\ UNCHANGED <<mode, sqlTable, file, puts, verified, due, job, measured, answer, at,
                   readVars, scanVars>>

\* The process is gone, and what it had read with it.
Forgets ==
    /\ copy' = NoFile /\ format' = Unknown /\ stream' = "closed" /\ next' = 0
    /\ records' = <<>> /\ outcome' = Pending
    /\ sql' = <<>> /\ scan' = FreshScan(NoTable)

\* What an execution that accepts a file saves: it passed, and the limit it was held
\* to.  The reason of an earlier rejection, and the offer, are left as they are.
Passed(verdict) == IF verdict = NoEnvelope THEN verdict ELSE [verdict EXCEPT !.limit = RowLimit]

\* stepParseAndStage: the verdict is saved, or the rows are staged, or something is
\* thrown, before or after the job is saved as passed, and the execution is retried.
FinishExecution ==
    /\ at = "reading" /\ attempts > 0 /\ outcome # Pending
    /\ \/ /\ outcome.kind = "exceeded"
          /\ job' = [job EXCEPT !.status = "guardrail_rejected", !.verdict = RowVerdict]
          /\ measured' = Cardinality(RowsOf(copy))
          /\ UNCHANGED <<due, readVars, scanVars>>
       \/ /\ outcome.kind = "accepted"
          /\ job' = [job EXCEPT !.status = "staged", !.rows = outcome.records,
                                !.verdict = Passed(@)]
          /\ UNCHANGED <<due, measured, readVars, scanVars>>
       \/ /\ outcome.kind \in {"malformed", "unreadable"} \/ Faults
          /\ \/ UNCHANGED job
             \/ /\ outcome.kind = "accepted"
                /\ job' = [job EXCEPT !.status = "uploaded", !.verdict = Passed(@)]
          /\ due' = due + 1 /\ UNCHANGED measured /\ Forgets
    /\ at' = "idle"
    /\ UNCHANGED <<mode, sqlTable, file, puts, verified, attempts, answer>>

\* Cloud Run starts the task again.
Restart ==
    /\ at = "dead" /\ attempts > 0
    /\ at' = "idle" /\ due' = due + 1 /\ Forgets
    /\ UNCHANGED <<mode, sqlTable, file, puts, verified, attempts, job, measured, answer>>

-----------------------------------------------------------------------------
(* A job starts with a request. *)

Init ==
    /\ mode \in Modes
    /\ sqlTable = NoTable
    /\ file = NoFile /\ puts = 0 /\ verified = [client \in Clients |-> Unverified]
    /\ due = 0 /\ attempts = 0
    /\ job = NoJob /\ measured = 0 /\ answer = Answer(0, NoEnvelope)
    /\ at = "idle"
    /\ copy = NoFile /\ format = Unknown /\ stream = "closed" /\ next = 0
    /\ records = <<>> /\ outcome = Pending
    /\ sql = <<>> /\ scan = FreshScan(NoTable)

Next ==
    \/ PostFile \/ ReadEvent \/ Archive \/ CreateJob
    \/ PostFileName \/ InitiateImport \/ Put \/ PostUploadComplete \/ PartnerUploadComplete
    \/ StartExecution \/ DownloadFails \/ FinishExecution \/ Restart

Spec == Init /\ [][Next]_vars
FairSpec == Spec /\ WF_vars(ReadEvent) /\ WF_vars(Archive) /\ WF_vars(FinishExecution)

-----------------------------------------------------------------------------
(* Properties. *)

Dimensions == {"none", "rows", "bytes", "unnamed"}

\* Whatever the file, no more records are held than the tenant's ceiling, but for
\* a workbook, which is loaded first (collectBounded, scanSqlDump).
IntakeTypeOK ==
    /\ mode \in Modes /\ sqlTable \in Tables
    /\ file \in Files \cup {NoFile} /\ copy \in Files \cup {NoFile}
    /\ puts \in 0..MaxPuts /\ attempts \in 0..MaxAttempts
    /\ \A client \in Clients : verified[client].exists => verified[client].sizeBytes \in Nat
    /\ due \in Nat /\ measured \in Nat
    /\ job.status \in {"none", "pending_upload", "uploaded", "staged", "guardrail_rejected", "failed"}
    /\ job.verdict.dimension \in Dimensions
    /\ answer.code \in {0, 200, 201, 400, 413, 500} /\ answer.envelope.dimension \in Dimensions
    /\ at \in {"idle", "reading", "archived", "done", "dead"}
    /\ format \in {"csv", "json", "excel", "sql", Unknown}
    /\ stream \in {"open", "ended", "destroyed", "broken", "closed"}
    /\ outcome.kind \in {"pending", "accepted", "exceeded", "malformed", "unreadable"}
    /\ scan.mode \in {"exec", "tuples", "tuple", "string", "delimiter", "done"}
    /\ format # "excel" => Len(records) <= RowLimit
    /\ Len(scan.rows) <= RowLimit

\* The rows at a list of places.
RowsAt(f, places) ==
    [i \in DOMAIN places |-> IF format = "sql" THEN Named(Dumps[f.dump].tuples[places[i]]) ELSE places[i]]

\* A job whose rows are staged has all the records of the file that was read, in
\* their order and as the file has them, and no more than its tenant may import:
\* no race of end, close, error and abort, and no text in a dump's values, makes a
\* part of a file pass for the whole.
AcceptedIsWhole ==
    job.status = "staged" =>
        /\ \E places \in [DOMAIN job.rows -> RowsOf(copy)] :
             Lists(places, RowsOf(copy)) /\ job.rows = RowsAt(copy, places)
        /\ format # "sql" => copy.whole
        /\ Len(job.rows) <= RowLimit

\* Only a file that is damaged, or a dump that does not say what to import, is
\* refused as malformed, and only a damaged JSON file ends the process.
RefusedIsDamaged ==
    /\ outcome.kind = "malformed" =>
         IF format = "sql"
         THEN \/ IF sqlTable = NoTable THEN Cardinality(TablesOf(Dumps[copy.dump])) # 1
                 ELSE NameOf[sqlTable] \notin TablesOf(Dumps[copy.dump])
              \/ \E n \in RowsOf(copy) : ColumnsText[Dumps[copy.dump].tuples[n].head] = <<>>
         ELSE ~copy.whole \/ (format = "json" /\ ~copy.array)
    /\ at = "dead" => format = "json" /\ ~copy.whole

\* What a rejection says is true of the file and the tenant: a ceiling it names is
\* the tenant's, its prose and the limits beside it agree with it, and another tier is
\* only offered if it really allows more.  Multer's ceiling is left out, which applies
\* to tenants of every tier and claims to be their own.
Truthful(e, byMulter) ==
    LET Of(limits) == IF e.dimension = "rows" THEN limits.rows ELSE limits.bytes
    IN  /\ e.dimension \in {"rows", "bytes"} /\ ~byMulter =>
             /\ e.limit = IF e.dimension = "rows" THEN RowLimit ELSE ByteLimit
             /\ e.limit = Of(e.upgrade.current) /\ e.limit = e.reason.limit
             /\ e.upgrade.available => e.reason.raisedTo = Of(e.upgrade.target)
        /\ e.dimension # "none" /\ e.upgrade.available =>
             Of(e.upgrade.target) > Of(e.upgrade.current)

\* Every rejection that is answered is truthful, and so is the one that a rejected job
\* has: it is the last one, of a file that had more than the ceiling, whatever
\* executions, retries and late requests found before it.  Nothing is said of a job
\* that is not rejected, which may have been once (stepParseAndStage).
RejectionsTruthful ==
    /\ Truthful(answer.envelope, at = "done" /\ answer.envelope.dimension = "bytes")
    /\ answer.envelope.dimension = "rows" => answer.envelope.limit < Cardinality(RowsOf(copy))
    /\ job.status = "guardrail_rejected" =>
         /\ job.verdict.dimension \in {"rows", "bytes"}
         /\ Truthful(job.verdict, FALSE)
         /\ job.verdict.limit < measured

\* A read that was begun ends, in an answer, a verdict or a failed execution.
ReadSettles == at = "reading" ~> at # "reading"

=============================================================================
