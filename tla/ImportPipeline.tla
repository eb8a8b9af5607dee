--------------------------- MODULE ImportPipeline ---------------------------
(***************************************************************************)
(* One import job from its upload to its commit, and the processes that    *)
(* work on it: the upload of a file (orchestration/migrationImport.        *)
(* service.js), the requests that map, validate and commit it (core/), and *)
(* the Cloud Run executions that stage it and run whatever step its status *)
(* allows (worker/importPipeline.js).  They share nothing but the job      *)
(* document and its staged rows.  Each reads the status, works through the *)
(* rows in chunks and then writes the next status back unconditionally, so *)
(* what a process does rests on a status that may be old; every await is a *)
(* step boundary, and a process may die there.                             *)
(*                                                                         *)
(* The commit is the one of the row ledger: a row takes effect and is      *)
(* reported in one step.  CommitBatch and CommitRequest have its details.  *)
(*                                                                         *)
(* A definition commented "Slip" is a mistake this code does not make: a   *)
(* property below must fail when it takes the place of what follows it.    *)
(***************************************************************************)
EXTENDS Naturals, FiniteSets

CONSTANTS
    N,            \* number of rows in the uploaded file
    FieldMaps,    \* the mappings users ask for
    Sound,        \* per mapping, rows that pass the checks of the row alone
    Identity,     \* per mapping, the value of each row's identity field
    Uploads,      \* POST /imports with a file (shared tier)
    Completions,  \* POST /imports/:id/upload-complete (dedicated tier)
    Executions,   \* Cloud Run executions
    Mappings,     \* POST /imports/:id/mapping
    Validations,  \* POST /imports/:id/validate
    Commits,      \* POST /imports/:id/commit
    Wanted,       \* the mapping each process of Mappings asks for
    Existing,     \* identity values the business collection already holds
    Chunk,        \* rows per insertMany, per cursor batch and per bulkWrite
    Overlapping,  \* may processes that passed their status check overlap?
    Faults,       \* may a database or storage call reject?
    Doomed,       \* the processes that may die
    NoMap, NoKey, \* fieldMap null, identity field null
    Nobody        \* no process

Rows == 1..N
Procs == Uploads \cup Completions \cup Executions \cup Mappings
            \cup Validations \cup Commits
Keys == UNION {{Identity[m][x] : x \in Rows} : m \in FieldMaps}

\* Whoever uploads or stages a file is not also a request that uses it, and an
\* upload of the shared tier is neither of the dedicated tier nor an execution.
ASSUME ImportPipelineAssumption ==
    /\ N \in Nat
    /\ NoMap \notin FieldMaps
    /\ Sound \in [FieldMaps -> SUBSET Rows]
    /\ \A m \in FieldMaps : DOMAIN Identity[m] = Rows
    /\ Wanted \in [Mappings -> FieldMaps]
    /\ Existing \subseteq Keys
    /\ Chunk \in Nat \ {0}
    /\ Overlapping \in BOOLEAN
    /\ Faults \in BOOLEAN
    /\ Doomed \subseteq Procs
    /\ Nobody \notin Procs
    /\ (Uploads \cup Completions \cup Executions)
         \cap (Mappings \cup Validations \cup Commits) = {}
    /\ Uploads \cap (Completions \cup Executions) = {}

VARIABLES
    status,    \* the job's status, "absent" before it is created
    fieldMap,  \* the job's fieldMap
    counts,    \* its stagedRows, validRows and invalidRows
    staged,    \* the process that inserted each row's staged record
    mapped,    \* the mapping each staged record's mappedFields come from
    verdict,   \* its validationStatus
    outcome,   \* its commitStatus
    entity,    \* the documents the commit created
    launches,  \* executions that Cloud Run has still to start
    at,        \* where each process is
    saw,       \* the job's status and fieldMap as the process knows them
    passed,    \* rows the process's loop has passed
    held,      \* staged records a validation has read and not written back
    dupKeys,   \* a validation's duplicateIdentityValues
    seenKeys,  \* its seenIdentityValues
    known,     \* its existingIdentities
    tally      \* its validCount and invalidCount, and whether it found the job
               \* validated already

jobVars == <<status, fieldMap, counts>>
rowVars == <<staged, mapped, verdict, outcome, entity>>
checkVars == <<held, dupKeys, seenKeys, known, tally>>
localVars == <<saw, passed, checkVars>>
vars == <<jobVars, rowVars, launches, at, localVars>>

Terminal == {"completed", "completed_with_errors"}
Stageable == {"uploaded", "guardrail_rejected"}

Staged == {x \in Rows : staged[x] # Nobody}
KeyOf(x) == IF mapped[x] = NoMap THEN NoKey ELSE Identity[mapped[x]][x]

Untallied == [valid |-> 0, invalid |-> 0, again |-> FALSE]
Validating(p) == at[p] \in {"dups", "existing", "check", "flush"}

\* The first n rows of M, in file order.
FirstRows(M, n) == {x \in M : Cardinality({y \in M : y < x}) < n}

AtWork(p) == at[p] \notin {"idle", "trigger", "done", "broken"}

\* A process that is staging a job no other step accepts.
Staging(p) ==
    \/ p \in Uploads
    \/ /\ p \in Executions
       /\ at[p] \in {"parse", "clear", "insert", "stage"}
       /\ saw[p].status \in Stageable

\* Requests may come while the rows are being staged; whether a process may
\* start while another one is past its status check is up to Overlapping.
MayStart(p) ==
    /\ at[p] = "idle"
    /\ p \in Uploads <=> status = "absent"
    /\ Overlapping \/ \A q \in Procs : AtWork(q) =>
                        Staging(q) /\ p \in Mappings \cup Validations \cup Commits

Goes(p, where) == at' = [at EXCEPT ![p] = where]

\* The process is gone; Cloud Run retries an execution that failed.
Breaks(p) ==
    /\ Goes(p, "broken")
    /\ launches' = IF p \in Executions THEN launches + 1 ELSE launches

\* exitCodeForStatus: the statuses with which an execution has not failed.
Succeeds == Terminal \cup {"guardrail_rejected", "staged"}

Init ==
    /\ status \in {"absent", "pending_upload"}
    /\ fieldMap = NoMap
    /\ counts = [staged |-> 0, valid |-> 0, invalid |-> 0]
    /\ staged = [x \in Rows |-> Nobody]
    /\ mapped = [x \in Rows |-> NoMap]
    /\ verdict = [x \in Rows |-> "unvalidated"]
    /\ outcome = [x \in Rows |-> "pending"]
    /\ entity = {}
    /\ launches = 0
    /\ at = [p \in Procs |-> "idle"]
    /\ saw = [p \in Procs |-> [status |-> "absent", map |-> NoMap]]
    /\ passed = [p \in Procs |-> {}]
    /\ held = [p \in Procs |-> {}]
    /\ dupKeys = [p \in Procs |-> {}]
    /\ seenKeys = [p \in Procs |-> {}]
    /\ known = [p \in Procs |-> {}]
    /\ tally = [p \in Procs |-> Untallied]

-----------------------------------------------------------------------------
(* Uploading. *)

\* The shared tier parses the file first: the job is created with its verdict,
\* or not at all.
CreateJob(p) ==
    /\ p \in Uploads /\ MayStart(p)
    /\ \/ status' = "uploaded" /\ Goes(p, "insert")
       \/ status' = "guardrail_rejected" /\ Goes(p, "done")
       \/ UNCHANGED status /\ Goes(p, "done")
    /\ UNCHANGED <<fieldMap, counts, rowVars, launches, localVars>>

\* The dedicated tier: the client says it has put the file into the bucket.
ReadUpload(p) ==
    /\ p \in Completions /\ MayStart(p)
    /\ Goes(p, IF status = "pending_upload" THEN "verify" ELSE "done")
    /\ UNCHANGED <<jobVars, rowVars, launches, localVars>>

\* It is not there, or too large, or the job is ready to be processed.
SaveUploaded(p) ==
    /\ at[p] = "verify"
    /\ \/ UNCHANGED status /\ Goes(p, "done")
       \/ status' = "guardrail_rejected" /\ Goes(p, "done")
       \/ status' = "uploaded" /\ Goes(p, "trigger")
    /\ UNCHANGED <<fieldMap, counts, rowVars, launches, localVars>>

\* The execution starts, or the call rejects: the job is "uploaded" all the same.
Trigger(p) ==
    /\ at[p] = "trigger"
    /\ \/ launches' = launches + 1 /\ Goes(p, "done")
       \/ Faults /\ UNCHANGED launches /\ Goes(p, "broken")
    /\ UNCHANGED <<jobVars, rowVars, localVars>>

-----------------------------------------------------------------------------
(* Staging. *)

StartExecution(p) ==
    /\ p \in Executions /\ MayStart(p)
    /\ launches > 0
    /\ launches' = launches - 1
    /\ saw' = [saw EXCEPT ![p] = [status |-> status, map |-> fieldMap]]
    /\ Goes(p, "parse")
    /\ UNCHANGED <<jobVars, rowVars, passed, checkVars>>

\* Slip: an execution stages the file whatever the job's status.
ParseAlways(p) ==
    /\ at[p] = "parse"
    /\ status' = "uploaded"
    /\ Goes(p, "clear")
    /\ UNCHANGED <<fieldMap, counts, rowVars, launches, localVars>>

\* Download, guardrail and parse; nothing if the job is staged already.
Parse(p) ==
    /\ at[p] = "parse"
    /\ \/ saw[p].status \notin Stageable /\ Goes(p, "automap") /\ UNCHANGED status
       \/ /\ saw[p].status \in Stageable
          /\ \/ status' = "guardrail_rejected" /\ Goes(p, "done")
             \/ status' = "uploaded" /\ Goes(p, "clear")
    /\ UNCHANGED <<fieldMap, counts, rowVars, launches, localVars>>

\* clearStagedRows: what an earlier execution had inserted is deleted.
Clear(p) ==
    /\ at[p] = "clear"
    /\ staged' = [x \in Rows |-> Nobody]
    /\ mapped' = [x \in Rows |-> NoMap]
    /\ verdict' = [x \in Rows |-> "unvalidated"]
    /\ outcome' = [x \in Rows |-> "pending"]
    /\ passed' = [passed EXCEPT ![p] = {}]
    /\ Goes(p, "insert")
    /\ UNCHANGED <<jobVars, entity, launches, saw, checkVars>>

\* The rows of the next insertMany: a chunk, or the whole file (shared tier).
ToInsert(p) == FirstRows(Rows \ passed[p], IF p \in Uploads THEN N ELSE Chunk)

Inserted(p, S) == staged' = [x \in Rows |-> IF x \in S THEN p ELSE staged[x]]

InsertRows(p) ==
    /\ at[p] = "insert"
    /\ ToInsert(p) \cap Staged = {}
    /\ Inserted(p, ToInsert(p))
    /\ passed' = [passed EXCEPT ![p] = @ \cup ToInsert(p)]
    /\ Goes(p, IF passed'[p] = Rows THEN "stage" ELSE "insert")
    /\ UNCHANGED <<jobVars, mapped, verdict, outcome, entity, launches, saw,
                   checkVars>>

\* Slip: duplicate rows and failed inserts are ignored.
InsertFailsIgnored(p) ==
    /\ at[p] = "insert"
    /\ Faults \/ ToInsert(p) \cap Staged # {}
    /\ \E S \in SUBSET (ToInsert(p) \ Staged) : Inserted(p, S)
    /\ Goes(p, "stage")
    /\ UNCHANGED <<jobVars, mapped, verdict, outcome, entity, launches, localVars>>

\* An unordered insertMany that meets a staged row (the index on importJobId
\* and rowIndex is unique) inserts the others and rejects.
InsertFails(p) ==
    /\ at[p] = "insert"
    /\ \/ /\ ToInsert(p) \cap Staged # {}
          /\ Inserted(p, ToInsert(p) \ Staged)
       \/ Faults /\ \E S \in SUBSET (ToInsert(p) \ Staged) : Inserted(p, S)
    /\ IF p \in Uploads THEN Goes(p, "fail") /\ UNCHANGED launches ELSE Breaks(p)
    /\ UNCHANGED <<jobVars, mapped, verdict, outcome, entity, localVars>>

SaveStaged(p) ==
    /\ at[p] = "stage"
    /\ status' = "staged"
    /\ counts' = [counts EXCEPT !.staged = N]
    /\ saw' = [saw EXCEPT ![p] = [status |-> "staged", map |-> fieldMap]]
    /\ Goes(p, IF p \in Executions THEN "automap" ELSE "done")
    /\ UNCHANGED <<fieldMap, rowVars, launches, passed, checkVars>>

\* The shared tier's save of "staged" rejects, which is a failure of staging.
SaveStagedFails(p) ==
    /\ at[p] = "stage" /\ p \in Uploads /\ Faults
    /\ \/ UNCHANGED <<status, counts>>
       \/ status' = "staged" /\ counts' = [counts EXCEPT !.staged = N]
    /\ Goes(p, "fail")
    /\ UNCHANGED <<fieldMap, rowVars, launches, localVars>>

SaveFailed(p) ==
    /\ at[p] = "fail"
    /\ status' = "failed"
    /\ Goes(p, "done")
    /\ UNCHANGED <<fieldMap, counts, rowVars, launches, localVars>>

-----------------------------------------------------------------------------
(* Mapping. *)

\* An execution maps with the job's own fieldMap.  Without one it looks for a
\* mapping to suggest, which never yields one it would apply.
AutoMap(p) ==
    /\ at[p] = "automap"
    /\ Goes(p, IF saw[p].status = "staged" /\ saw[p].map # NoMap
               THEN "mapgate" ELSE "autovalidate")
    /\ UNCHANGED <<jobVars, rowVars, launches, localVars>>

\* Slip: a validated job can be mapped again.
BeginMappingValidated(p) ==
    /\ (p \in Mappings /\ MayStart(p)) \/ at[p] = "mapgate"
    /\ status \in {"staged", "mapped", "validated"}
    /\ saw' = [saw EXCEPT ![p] =
                 [status |-> status,
                  map |-> IF p \in Mappings THEN Wanted[p] ELSE saw[p].map]]
    /\ passed' = [passed EXCEPT ![p] = {}]
    /\ Goes(p, "rewrite")
    /\ UNCHANGED <<jobVars, rowVars, launches, checkVars>>

BeginMapping(p) ==
    /\ (p \in Mappings /\ MayStart(p)) \/ at[p] = "mapgate"
    /\ status \in {"staged", "mapped"}
    /\ saw' = [saw EXCEPT ![p] =
                 [status |-> status,
                  map |-> IF p \in Mappings THEN Wanted[p] ELSE saw[p].map]]
    /\ passed' = [passed EXCEPT ![p] = {}]
    /\ Goes(p, "rewrite")
    /\ UNCHANGED <<jobVars, rowVars, launches, checkVars>>

RefuseMapping(p) ==
    /\ (p \in Mappings /\ MayStart(p)) \/ at[p] = "mapgate"
    /\ status \notin {"staged", "mapped"}
    /\ IF p \in Mappings THEN Goes(p, "done") /\ UNCHANGED launches ELSE Breaks(p)
    /\ UNCHANGED <<jobVars, rowVars, localVars>>

Left(p) == Staged \ passed[p]

\* What a cursor over the job's staged records can return for the next chunk.
\* Mapping and validation ask for no sort, so it may be any of the rows left.
Batches(p) == {S \in SUBSET Left(p) :
                 IF Cardinality(Left(p)) <= Chunk THEN S = Left(p)
                                                  ELSE Cardinality(S) = Chunk}

\* Slip: the loop ends with the first bulkWrite.
RewriteOnce(p) ==
    /\ at[p] = "rewrite"
    /\ \E S \in Batches(p) :
         /\ mapped' = [x \in Rows |-> IF x \in S THEN saw[p].map ELSE mapped[x]]
         /\ passed' = [passed EXCEPT ![p] = @ \cup S]
    /\ Goes(p, "savemap")
    /\ UNCHANGED <<jobVars, staged, verdict, outcome, entity, launches, saw, checkVars>>

RewriteRows(p) ==
    /\ at[p] = "rewrite"
    /\ \E S \in Batches(p) :
         /\ mapped' = [x \in Rows |-> IF x \in S THEN saw[p].map ELSE mapped[x]]
         /\ passed' = [passed EXCEPT ![p] = @ \cup S]
    /\ Goes(p, IF Staged \subseteq passed'[p] THEN "savemap" ELSE "rewrite")
    /\ UNCHANGED <<jobVars, staged, verdict, outcome, entity, launches, saw,
                   checkVars>>

\* save() writes the paths that changed: a job read as "mapped" keeps whatever
\* status it has by now.
SaveMapping(p) ==
    /\ at[p] = "savemap"
    /\ fieldMap' = saw[p].map
    /\ status' = IF saw[p].status = "staged" THEN "mapped" ELSE status
    /\ saw' = [saw EXCEPT ![p] = [@ EXCEPT !.status = "mapped"]]
    /\ Goes(p, IF p \in Mappings THEN "done" ELSE "autovalidate")
    /\ UNCHANGED <<counts, rowVars, launches, passed, checkVars>>

\* saveAsProfile with a blank label is refused once the rows are rewritten.
RefuseProfile(p) ==
    /\ at[p] = "savemap" /\ p \in Mappings
    /\ Goes(p, "broken")
    /\ UNCHANGED <<jobVars, rowVars, launches, localVars>>

-----------------------------------------------------------------------------
(* Validation. *)

AutoValidate(p) ==
    /\ at[p] = "autovalidate"
    /\ Goes(p, IF saw[p].status = "mapped" THEN "checkgate" ELSE "autocommit")
    /\ UNCHANGED <<jobVars, rowVars, launches, localVars>>

BeginValidation(p) ==
    /\ (p \in Validations /\ MayStart(p)) \/ at[p] = "checkgate"
    /\ status \in {"mapped", "validated"}
    /\ passed' = [passed EXCEPT ![p] = {}]
    /\ seenKeys' = [seenKeys EXCEPT ![p] = {}]
    /\ tally' = [tally EXCEPT ![p] = [Untallied EXCEPT !.again = status = "validated"]]
    /\ Goes(p, "dups")
    /\ UNCHANGED <<jobVars, rowVars, launches, saw, held, dupKeys, known>>

\* An execution takes a refusal, like any other error of the validation, for a
\* failure of the job.
RefuseValidation(p) ==
    /\ (p \in Validations /\ MayStart(p)) \/ at[p] = "checkgate"
    /\ status \notin {"mapped", "validated"}
    /\ Goes(p, IF p \in Validations THEN "done" ELSE "giveup")
    /\ UNCHANGED <<jobVars, rowVars, launches, localVars>>

\* Pass 1: identity values that more than one row has.
FindDuplicates(p) ==
    /\ at[p] = "dups"
    /\ dupKeys' = [dupKeys EXCEPT ![p] =
                     {k \in Keys : \E x, y \in Staged :
                        x # y /\ KeyOf(x) = k /\ KeyOf(y) = k} \ {NoKey}]
    /\ Goes(p, "existing")
    /\ UNCHANGED <<jobVars, rowVars, launches, saw, passed, held, seenKeys,
                   known, tally>>

KeyOfEntity(e) == Identity[e.map][e.row]

\* Pass 2: identity values that are in the business collection.
FindExisting(p) ==
    /\ at[p] = "existing"
    /\ known' = [known EXCEPT ![p] =
                   (Existing \cup {KeyOfEntity(e) : e \in entity}) \ {NoKey}]
    /\ Goes(p, "check")
    /\ UNCHANGED <<jobVars, rowVars, launches, saw, passed, held, dupKeys,
                   seenKeys, tally>>

\* The rows of S that come before the others with their identity value, in some
\* order of S.
Firsts(S) == {F \in SUBSET S : \A x \in S :
                \E y \in F : \A z \in F : KeyOf(z) = KeyOf(x) <=> z = y}

\* Slip: seenIdentityValues does not survive a chunk.
PassesInChunk(p, F, x) ==
    /\ mapped[x] # NoMap
    /\ x \in Sound[mapped[x]]
    /\ KeyOf(x) \in dupKeys[p] => x \in F
    /\ KeyOf(x) \notin known[p]

\* Pass 3: the checks of the row alone, and that it is neither a later
\* duplicate in the cursor's order nor there already.
Passes(p, F, x) ==
    /\ mapped[x] # NoMap
    /\ x \in Sound[mapped[x]]
    /\ KeyOf(x) \in dupKeys[p] => x \in F /\ KeyOf(x) \notin seenKeys[p]
    /\ KeyOf(x) \notin known[p]

ReadRows(p) ==
    /\ at[p] = "check"
    /\ Left(p) # {}
    /\ \E S \in Batches(p) : \E F \in Firsts(S) :
         LET ok == {x \in S : Passes(p, F, x)}
         IN  /\ held' = [held EXCEPT ![p] =
                  {[row |-> x, by |-> staged[x],
                    verdict |-> IF x \in ok THEN "valid" ELSE "invalid"] : x \in S}]
             /\ tally' = [tally EXCEPT ![p] =
                  [valid |-> @.valid + Cardinality(ok),
                   invalid |-> @.invalid + Cardinality(S \ ok), again |-> @.again]]
             /\ seenKeys' = [seenKeys EXCEPT ![p] = @ \cup {KeyOf(x) : x \in S}]
             /\ passed' = [passed EXCEPT ![p] = @ \cup S]
    /\ Goes(p, "flush")
    /\ UNCHANGED <<jobVars, rowVars, launches, saw, dupKeys, known>>

\* Slip: the last bulkWrite, of less than a chunk, is forgotten.
FlushFullChunks(p) ==
    /\ at[p] = "flush"
    /\ verdict' = [x \in Rows |->
                     IF Cardinality(held[p]) = Chunk /\ \E h \in held[p] : h.row = x
                     THEN (CHOOSE h \in held[p] : h.row = x).verdict ELSE verdict[x]]
    /\ held' = [held EXCEPT ![p] = {}]
    /\ Goes(p, "check")
    /\ UNCHANGED <<jobVars, staged, mapped, outcome, entity, launches, saw, passed,
                   dupKeys, seenKeys, known, tally>>

\* The bulkWrite finds its records by _id: one that was staged anew is missed.
FlushRows(p) ==
    /\ at[p] = "flush"
    /\ verdict' = [x \in Rows |->
                     IF \E h \in held[p] : h.row = x /\ h.by = staged[x]
                     THEN (CHOOSE h \in held[p] : h.row = x).verdict
                     ELSE verdict[x]]
    /\ held' = [held EXCEPT ![p] = {}]
    /\ Goes(p, "check")
    /\ UNCHANGED <<jobVars, staged, mapped, outcome, entity, launches, saw,
                   passed, dupKeys, seenKeys, known, tally>>

\* Slip: the counts are added to those of an earlier validation.
WriteValidatedAdds(p) ==
    /\ at[p] = "check"
    /\ Left(p) = {}
    /\ status' = "validated"
    /\ counts' = [counts EXCEPT !.valid = @ + tally[p].valid,
                                !.invalid = @ + tally[p].invalid]
    /\ tally' = [q \in Procs |-> IF q # p /\ Validating(q) THEN tally[q] ELSE Untallied]
    /\ Goes(p, IF p \in Validations THEN "done" ELSE "refresh")
    /\ UNCHANGED <<fieldMap, rowVars, launches, saw, passed, held, dupKeys,
                   seenKeys, known>>

\* The verdicts are now all p's; what a validation that broke off had counted, no
\* process has any more.
WriteValidated(p) ==
    /\ at[p] = "check"
    /\ Left(p) = {}
    /\ status' = "validated"
    /\ counts' = [counts EXCEPT !.valid = tally[p].valid,
                                !.invalid = tally[p].invalid]
    /\ tally' = [q \in Procs |-> IF q # p /\ Validating(q) THEN tally[q] ELSE Untallied]
    /\ Goes(p, IF p \in Validations THEN "done" ELSE "refresh")
    /\ UNCHANGED <<fieldMap, rowVars, launches, saw, passed, held, dupKeys,
                   seenKeys, known>>

\* stepValidate reads the job again; if it cannot, it keeps the old one.
Refresh(p) ==
    /\ at[p] = "refresh"
    /\ \/ saw' = [saw EXCEPT ![p] = [status |-> status, map |-> fieldMap]]
       \/ Faults /\ UNCHANGED saw
    /\ Goes(p, "autocommit")
    /\ UNCHANGED <<jobVars, rowVars, launches, passed, checkVars>>

\* stepValidate catches the error and writes it into the job.
GiveUp(p) ==
    /\ at[p] = "giveup"
    /\ status' = "failed"
    /\ Goes(p, "refresh")
    /\ UNCHANGED <<fieldMap, counts, rowVars, launches, localVars>>

-----------------------------------------------------------------------------
(* The commit, in the steps of the row ledger. *)

BeginCommit(p) ==
    /\ \/ /\ p \in Commits /\ MayStart(p)
          /\ Goes(p, IF status = "validated" THEN "mark" ELSE "done")
       \/ /\ at[p] = "autocommit" /\ saw[p].status = "validated"
          /\ Goes(p, "mark")
    /\ UNCHANGED <<jobVars, rowVars, launches, localVars>>

\* The execution ends with the status it knows.
Exit(p) ==
    /\ at[p] = "autocommit" /\ saw[p].status # "validated"
    /\ IF saw[p].status \in Succeeds
       THEN Goes(p, "done") /\ UNCHANGED launches
       ELSE Breaks(p)
    /\ UNCHANGED <<jobVars, rowVars, localVars>>

Mark(p) ==
    /\ at[p] = "mark"
    /\ status' = "committing"
    /\ passed' = [passed EXCEPT ![p] = {}]
    /\ Goes(p, "commit")
    /\ UNCHANGED <<fieldMap, counts, rowVars, launches, saw, checkVars>>

ToCommit(p) == FirstRows({x \in Staged \ passed[p] :
                            verdict[x] = "valid" /\ outcome[x] = "pending"}, 1)

CommitRow(p) ==
    /\ at[p] = "commit"
    /\ \E x \in ToCommit(p) :
         /\ passed' = [passed EXCEPT ![p] = @ \cup {x}]
         /\ \/ /\ entity' = entity \cup {[row |-> x, map |-> mapped[x], by |-> p]}
               /\ outcome' = [outcome EXCEPT ![x] = "committed"]
            \/ /\ Faults
               /\ outcome' = [outcome EXCEPT ![x] = "failed"]
               /\ UNCHANGED entity
    /\ UNCHANGED <<jobVars, staged, mapped, verdict, launches, at, saw, checkVars>>

\* Which of the two statuses it is, CommitRequest tells.
WriteResult(p) ==
    /\ at[p] = "commit"
    /\ ToCommit(p) = {}
    /\ status' \in Terminal
    /\ Goes(p, "done")
    /\ UNCHANGED <<fieldMap, counts, rowVars, launches, localVars>>

-----------------------------------------------------------------------------
(* Failures. *)

\* A call rejects without effect.  An execution that was validating goes on to
\* report it; any other process ends.
Rejects(p) ==
    /\ Faults /\ AtWork(p)
    /\ at[p] # "refresh" /\ ~(p \in Uploads /\ at[p] \in {"insert", "stage"})
    /\ IF p \in Executions /\ Validating(p)
       THEN Goes(p, "giveup") /\ UNCHANGED launches
       ELSE Breaks(p)
    /\ UNCHANGED <<jobVars, rowVars, localVars>>

Dies(p) ==
    /\ p \in Doomed /\ AtWork(p)
    /\ Breaks(p)
    /\ UNCHANGED <<jobVars, rowVars, localVars>>

-----------------------------------------------------------------------------
Step(p) ==
    \/ CreateJob(p) \/ ReadUpload(p) \/ SaveUploaded(p) \/ Trigger(p)
    \/ StartExecution(p) \/ Parse(p) \/ Clear(p)
    \/ InsertRows(p) \/ InsertFails(p)
    \/ SaveStaged(p) \/ SaveStagedFails(p) \/ SaveFailed(p)
    \/ AutoMap(p) \/ BeginMapping(p) \/ RefuseMapping(p)
    \/ RewriteRows(p) \/ SaveMapping(p) \/ RefuseProfile(p)
    \/ AutoValidate(p) \/ BeginValidation(p) \/ RefuseValidation(p)
    \/ FindDuplicates(p) \/ FindExisting(p) \/ ReadRows(p) \/ FlushRows(p)
    \/ WriteValidated(p) \/ Refresh(p) \/ GiveUp(p)
    \/ BeginCommit(p) \/ Exit(p) \/ Mark(p) \/ CommitRow(p) \/ WriteResult(p)

Next == \E p \in Procs : Step(p) \/ Rejects(p) \/ Dies(p)

Spec == Init /\ [][Next]_vars

-----------------------------------------------------------------------------
(* Properties. *)

Ready == {"staged", "mapped", "validated", "committing"} \cup Terminal
Statuses == Ready \cup Stageable \cup {"absent", "pending_upload", "failed"}

\* The job and its rows keep their shape: a verdict or a commitStatus is one
\* the schema has, and only a staged row has mappedFields, a verdict or an
\* outcome (ImportStagedRecord.model.js).
ImportTypeOK ==
    /\ status \in Statuses
    /\ fieldMap \in FieldMaps \cup {NoMap}
    /\ counts \in [staged : 0..N, valid : 0..N, invalid : 0..N]
    /\ staged \in [Rows -> Procs \cup {Nobody}]
    /\ mapped \in [Rows -> FieldMaps \cup {NoMap}]
    /\ verdict \in [Rows -> {"unvalidated", "valid", "invalid"}]
    /\ outcome \in [Rows -> {"pending", "committed", "failed"}]
    /\ entity \subseteq [row : Rows, map : FieldMaps \cup {NoMap}, by : Procs]
    /\ \A x \in Rows \ Staged : /\ mapped[x] = NoMap
                               /\ verdict[x] = "unvalidated"
                               /\ outcome[x] = "pending"

\* A job that got past staging has exactly one staged record for each row of
\* the file, and says so, however many executions died while inserting
\* (stepParseAndStage, createImportJob).
StagedIsWholeFile ==
    status \in Ready => Staged = Rows /\ counts.staged = N

\* A job that got past mapping has no row without mappedFields, even if
\* requests to map it anew died half way (applyMapping).
RowsAreMapped ==
    status \in Ready \ {"staged"} => \A x \in Rows : mapped[x] # NoMap

\* The checks that need no other row of the file.
PassesAlone(x) ==
    /\ x \in Sound[mapped[x]]
    /\ KeyOf(x) = NoKey \/ KeyOf(x) \notin Existing

Twins(x, y) == x # y /\ KeyOf(x) = KeyOf(y) /\ KeyOf(x) # NoKey

\* p has begun to check a validated job once more, and neither it nor a later one
\* has written a result: it may be at it, or have broken off.
HalfWay(p) == tally[p].again /\ tally[p].valid + tally[p].invalid > 0

NoneHalfWay == \A p \in Procs : ~HalfWay(p)

\* Verdicts v of the rows of S: what is wrong with a row of its own decides, and a
\* row without a twin that nothing is wrong with is valid.
CheckedAlone(v, S) ==
    \A x \in S :
        /\ v[x] # "unvalidated"
        /\ v[x] = "valid" => PassesAlone(x)
        /\ PassesAlone(x) /\ (\A y \in Rows : ~Twins(x, y)) => v[x] = "valid"

\* Of the rows of S with the same identity value one escapes the check for
\* duplicates, whichever the cursor returned first: no two are valid, and if
\* none is, then the one that escaped failed on its own.
OneOfTwins(v, S) ==
    \A x \in S :
        /\ v[x] = "valid" => \A y \in S : Twins(x, y) => v[y] = "invalid"
        /\ PassesAlone(x) /\ v[x] = "invalid" =>
              \E y \in S : Twins(x, y) /\ (v[y] = "valid" \/ ~PassesAlone(y))

\* The verdicts and counts of a validated job are those of its rows as they are
\* mapped now, in whatever chunks and order the cursor returned them.  While it
\* is validated once more, or if that broke off, this is not said of rows with
\* the same identity value and of the counts: another cursor may have let
\* another one of them escape (validateImportJob).
ValidatedIsChecked ==
    status = "validated" =>
        /\ CheckedAlone(verdict, Rows)
        /\ NoneHalfWay => /\ OneOfTwins(verdict, Rows)
                          /\ counts.valid = Cardinality({x \in Rows : verdict[x] = "valid"})
                          /\ counts.invalid = N - counts.valid

\* A row that reaches the business collection passes the checks under the very
\* mapping it is written with: no re-mapping slips in after the validation.
WrittenRowsAreSound ==
    \A e \in entity : e.map # NoMap /\ e.row \in Sound[e.map]

\* One document per identity value, those that were there before included,
\* without the help of a unique index; unless the validated job was validated
\* once more and that broke off half way (validateImportJob, commitBatch).
NoTwoOfAKey ==
    \A e \in entity : KeyOfEntity(e) # NoKey =>
        /\ KeyOfEntity(e) \notin Existing
        /\ NoneHalfWay => \A d \in entity \ {e} : KeyOfEntity(d) # KeyOfEntity(e)

\* A row that is committed is never staged, mapped, checked or committed again
\* by a retried execution or a late request.
CommittedRowIsFrozen ==
    [][\A x \in Rows : outcome[x] = "committed" =>
          /\ staged'[x] = staged[x] /\ mapped'[x] = mapped[x]
          /\ verdict'[x] = verdict[x] /\ outcome'[x] = outcome[x]]_vars

Ledger == INSTANCE RowLedger WITH
    Eligible <- Rows,
    report <- [x \in Rows |-> IF outcome[x] = "pending" THEN "open" ELSE outcome[x]],
    effect <- [x \in Rows |-> Cardinality({e \in entity : e.row = x})]

\* The whole job, from the upload to the last retry, keeps the ledger's promise for
\* the rows of the file: each takes effect at most once, and is reported once and
\* for good, though its staged record can be deleted and inserted again
\* (importPipeline.js:131, commitBatch.js).
JobImplementsLedger == Ledger!Spec

=============================================================================
