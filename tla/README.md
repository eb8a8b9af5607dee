# A model of the data onboarder

TLA+ modules for the server side of this repository: what happens to one import
job, from the upload of its file to the last of its rows, and to a session of
several, when requests overlap, processes die, database calls fail, streams race
and retries come late. TLC checks the modules
on small instances; TLAPS proves the results that matter most for every value
of the constants.

## The system

An *import job* is one uploaded file on its way into a business collection. Its
document has a `status`, a `fieldMap` and `counts`; every row of the file is a
*staged record* with its own `mappedFields`, `validationStatus`, `commitStatus`
and `committedEntityId`. There is no lock and, apart from one commit protocol, no
transaction: whoever works on a job reads the status, compares it, works through
the rows with a cursor, and writes the next status back without a condition.

| component | its state | its operations | interacts with |
| --- | --- | --- | --- |
| routes `http/uploadRoutes.js`, `http/b2bUploadRoutes.js` | none that lasts | multer's ceiling, the two ways of POST /imports, upload-complete, sessions | call the services, answer what they throw |
| upload service `orchestration/migrationImport.service.js` | job | `createImportJob`, `createImportJobDedicated`, `completeImportUpload` | stages rows itself (shared tier), or triggers Cloud Run (dedicated tier) |
| guardrail and tiers `core/guardrail` | none that lasts | ceilings of a tenant's tier, verdicts, reasons, the upgrade that is offered | called by the upload service and the pipeline |
| parsers `core/parsing` | a read: its stream, what it collected | bounded read of CSV, JSON, Excel; two scans of a SQL dump | called with a file and a limit |
| mapping `core/mapping` | `fieldMap`, `mappedFields` | `applyMapping`, suggestions | reads what staging wrote |
| validation `core/validation` | `validationStatus`, counts | `validateImportJob` (three passes) | reads what mapping wrote, and the business collection |
| commit engine `core/commit` | `commitStatus`, `committedEntityId`, the cached transaction probe | `commitBatch` (reserve / write / link, or one transaction per row) | the target's `commitRow`, external |
| commit requests `commitImportJob`, `stepCommit` | status, counts, event | read, mark, commit or enqueue, write the result, emit | the engine, the queue, the event bus |
| commit worker `worker/bullmqCommitWorker.js` | totals of an attempt | loop of limited `commitBatch` calls | BullMQ, external |
| import pipeline `worker/importPipeline.js`, `worker/cloudRunEntrypoint.js` | none that lasts | stage, auto-map, validate, commit; the session loop | all of the above; Cloud Run retries, external |
| session manager `orchestration/sessionManager.js`, `runSessionPipeline` | session document | create a session, add jobs, compute the order, run it, resolve references between its jobs | the dependency graph, the pipeline, validation |
| dependency graph `orchestration/dependencyGraph.js` | none that lasts | `computeSessionExecutionOrder`: Kahn's algorithm over the session's entities | called by the session manager with what the descriptors declare |
| registry, topology, in-memory store, UI, examples | wiring | | not modelled |

Where it is hard: two callers that both pass the status check; a cursor's
documents that are stale when they are acted on; a process that dies between two
writes of one row, or between two chunks; a marker that does not say which of two
things happened; a retry that starts its totals from zero; a limit that is not a
multiple of a batch; a job nobody is left to finish; a document that is saved from
a copy, by position in an array that has changed; a stream's end, close, error and
abort that race to settle one promise; text in a value that looks like a statement.
`PROJECT.json` lists these
hazards at their lines, with the properties that are aimed at each of them.

## Modules

```
RowLedger  <---refines---  CommitBatch  <---EXTENDS---  CommitRequest
   (promise)              (commitBatch)                 (commitImportJob, stepCommit)
    ^                          ^-----------EXTENDS----  CommitWorker
    |                                                   (bullmqCommitWorker)
    +--------refines-----  ImportPipeline
                           (upload, stage, map, validate, commit in one step per row)
SessionOrder     (computeSessionExecutionOrder)
MigrationSession (sessionManager, runSessionPipeline)
SqlDump  <---EXTENDS---  ImportIntake   (routes, ceilings, bounded read)
```

`MC*` modules give the constants their values for TLC. `*Proofs` modules hold the
theorems.

**RowLedger** is the promise of a commit: a ledger row takes effect at most once,
its report is made at most once, and a row reported committed has taken effect.

**CommitBatch** is `core/commit/commitBatch.js:58-159` with the store calls it
makes. A *run* is one call in one process; its local variables are functions of
the run (`pc`, `useTransaction`, the rows `ahead` of its cursor, the `batch` in
hand, `wasReserved`, `committed`, `failed`). Each await ends a step: `CallBatch`,
`FetchBatch`, then per row `Reserve`, `RowWritten` / `RowDuplicate` / `RowThrows`,
`Link` / `LinkThrows` / `Adopt` / `Reject`, or `TxnCommits` / `TxnAborts`. `Die`
is the death of a process anywhere, `BatchThrows` a rejected store call.
`Election` takes the replica set's primary away, which is what
`idempotency.js:32-46` caches a wrong answer from. The business collection is
`entity[x]`, the documents created for a row, and `others`, identity values
other writers created; `Unique` says if it has the unique index.

**CommitRequest** adds the job document and the two callers without a queue:
`ReadJob`, `MarkCommitting`, `OpenBatch`, the engine's steps, `WriteResult`,
`EmitEvent`; `EnqueueThrows` is what `enqueueMigrationCommit` does as shipped
(below). `Overlapping` says if a caller may start while another one is at work.

**CommitWorker** adds BullMQ: messages, attempts, locks that are lost, stalls,
and a worker's loop of limited calls (`OpenChunk`, `CountChunk`, `WriteFinal`).
A slot is one of the worker's concurrent processors.

**ImportPipeline** is the life of the whole job, `worker/importPipeline.js` and
the services it shares with the requests. A process is an upload, an
upload-complete, an execution, or a mapping, validation or commit request; `at` is
where it is, `saw` what it knows of the job. A row's staged record is known by
its rowIndex (the index on importJobId and rowIndex is unique) and by the process
that inserted it, which stands for its `_id`. `fieldMap` and `mapped` are names of
mappings: what a mapping makes of a row is in the constants `Sound` (does it pass
the checks of the row alone: required, enum, references) and `Identity`. The
cursors of mapping and validation ask for no sort (`applyMapping.js:167`,
`validateRows.js:90`), so a chunk is any of the rows left (`Batches`), and of the rows
of a chunk that repeat an identity value any may come first (`Firsts`). That such a
cursor returns every row, and none twice, is assumed of MongoDB: it is so if the cursor
goes along an index whose fields the loop does not write, as all but the one on
`validationStatus` (`ImportStagedRecord.model.js:100`) are. The
commit is the ledger's: one step per row. `JobImplementsLedger` says that the job as a
whole keeps the ledger's promise, although staged records can be deleted and inserted
again.

**SessionOrder** is `orchestration/dependencyGraph.js`. The session and what its
descriptors declare are chosen in `Init`; `Take` is one turn of the `while` loop of
`isAcyclic` or of `topologicalSort` (`pass` says which), `Restart` what lies between
them and `Refuse` the 400; `Place` and `NextEntity` are the turns of the two nested
loops that list the jobs, `Return` the end. `placed` holds positions of the
session's entries and `orderedIds` the jobs at them: a job that was added twice is
two entries and listed twice, since the `Set` of placed jobs holds ObjectIds, which
are never the same object (`dependencyGraph.js:173`). The queue is a set: in which
order a `Map` yields its keys is not a matter of the result's correctness. The second
check for a cycle (`dependencyGraph.js:120-128`) and the loop over jobs left over
(183-189, the last turn of `Here`) can never do anything, as both passes take the
same entities and every job has one of them.

**MigrationSession** is the session document and all who write it: requests
(`PostJob`, `PostComputeOrder`, `PostPopulate`) and executions (`StartSession`,
`Claim`, `OrderSession`, `FollowOrder`, then per job `NextJob`, `ReadEntry`,
`SaveEntry`, `RunJob` / `JobThrows`, `Populate`). Every operation reads the document,
decides and saves; `seen[p]` is the copy it decides from, `before` what a lagging
replica may answer. A save follows Mongoose: a `$push` is unconditional and increments
the version `v`; a write into or over an array asks for the version that was read,
`MaySave` (and for the schema's enum); other paths are set unconditionally, so that
`Claim` overwrites any status. `Path` keeps what a save does not touch. The sort is
one step (it has no await) and is taken from what `SessionOrder` shows of it,
`IsOrder`. A job's own pipeline is one step with the five ways `runJobPipeline` can
end, and one row that refers to a row of each entity its own depends on
(`Resolved`, `StagedParent`).

**SqlDump** is `core/parsing/sqlDumpParser.js`, one action per turn of a loop:
`NextInsert`, `NextTuple`, `NextValue`, `Delimiter`, `ReadString`. The text is a
sequence of tokens; the heads are what `INSERT_PREFIX` matches, and may stand inside a
string as well. A dump (`Dumps`) is a text together with where in it the tool that made
it has put which tuple, value and character; `Printed`, assumed of every dump and
evaluated by TLC for those of `MCImportIntake`, says that it stands there the way
mysqldump or pg_dump writes it. So what a dump holds (`TuplesOf`, `Named`) is known
independently of the scanner. `unquoteIdent` and `splitColumns` work on the tokens of
identifiers, and `Written` says which name an identifier stands for.

**ImportIntake** is everything before the rows are staged: multer
(`MulterRefuses`), `PostFile` with the inline read, `Archive` and `CreateJob`; or
`PostFileName` / `InitiateImport`, `Put`, `PostUploadComplete` /
`PartnerUploadComplete`, and the executions with `DownloadFails`, `Restart`. A
completion is two steps, as it awaits the store in between: `FindUpload` reads the
status and measures the object, `completeImportUpload` saves what follows from that,
however old it is by then, and adds to the executions that are `due`. An execution
runs on a job that is uploaded and on one that was rejected (`Stageable`,
`importPipeline.js:131`), and its verdict replaces the one before; one that accepts
the file (`Passed`) leaves the old reason and offer on the job. `measured` remembers
what the last rejection has seen of the file. The read
is `collectBounded`'s race: `Data`, `ParserFails`, `ParserKills`, `SourceFails`,
`EndOfStream` and `Close` each try to settle `outcome`, and the first one does. A
workbook is loaded as a whole (`RefuseWorkbook`), its rows collected (`EachRow`) and
then counted (`CountRows`). The ceilings are `RowLimit` and `ByteLimit` of `envTierPolicy`; the verdicts carry what
`describeGuardrailRejection` puts into them.

A definition that is commented "Slip" belongs to no specification. It is a
plausible mistake in the definition that follows it; put in its place, it makes
the property named with it in `PROJECT.json` fail, which shows that the property
depends on that part of the code.

## Runs

| run | what it shows | instance |
| --- | --- | --- |
| `engine_ledger` | the row protocol implements the ledger through crashes; limits are kept, a short return means drained | 5 rows, one of them invalid, batches of 2, limit 3, 4 calls, one run, unique index, one refused row |
| `engine_overlap` | what is reported committed exists, what is linked was created for the row | 2 overlapping runs, 3 calls, 3 rows of which two share a key, another writer, lost acknowledgements, elections, both protocols |
| `one_commit` | counts, status and event of a finished job agree with its rows and stay | 2 requests (thresholds above and below the number of rows) and an execution, one after the other, each may die or fail |
| `commit_settles` | overlapping callers leave a finished job behind (liveness) | a request exactly at its threshold and an execution, no failures |
| `worker` | a finished job is drained, "completed" is true, counts never run ahead, the message ends (liveness) | 4 rows in chunks of 2, 2 attempts, 1 stall, lock loss, another writer |
| `pipeline` | the rows are what the job's status says; only checked rows are written; committed rows are not touched again; the whole job implements the ledger | 3 rows in chunks of 2, which the cursors return in any order, 2 mappings, 8 processes, all of which may fail or die |
| `dependency_order` | the order lists each job as often as it was added, after those it depends on; only circular sessions are refused | every graph on 3 entities, self-loops included; every session of 1 to 3 entries, of 4 jobs of which two share an entity, duplicates included |
| `session` | entries, counts and links agree with the jobs; parents go first and are known; an execution that ends leaves nothing open | 3 jobs of 2 entities, one of them missing; 2 clients with 3 requests and 2 executions in every interleaving, 1 stale read |
| `read` | a job gets all rows of its file or none, and no more than its ceiling; only damaged files are refused; rejections are truthful; every read settles (liveness) | CSV, JSON and Excel files of up to 3 items, whole or damaged at each place; dumps of both tools with quotes, parentheses, backslashes and heads in their strings; 3 tenant modes, the object put twice, 2 completions at once, 3 executions started, faults; ceilings of 1 row (shared) and 2 (own) |
| `bug_adopt`, `bug_commit_stuck`, `bug_session_stuck` | each refutes one statement of the repository: see Findings | |

*Why the bounds are enough.* The row protocols touch one row at a time, so what
rows can do to each other is reached with two rows that share a key; a third and
a fourth make the last batch, chunk or limit partly filled, or exactly full.
Two runs are needed for an overlap, a third call for a crash of both and a clean
pass. Two executions are one retry; a second retry starts from a state the first
one could have started from. One refused row and one foreign identity value are
the two ways a row can fail. `MaxCalls` bounds the calls of `commitBatch`,
`MaxAttempts` and `MaxStalls` are BullMQ's settings, the number of processes
bounds everything in `ImportPipeline`: there a validation by request can break off half
way or follow the execution's; that a later one repairs what an earlier one left half
done takes one request more, which the theorem covers. Three entities have every kind of cycle (of
one, two and three) and every acyclic shape that Kahn's loop tells apart: a chain,
a fork and a join; `MaxJobs` bounds the entries of a session. In `session`, three
requests are enough to add a job, order the session and add another one behind its
back, and the second execution is the one whose claim comes late. One stale read is
what it takes to get past `computeSessionOrder`'s 409 (see Findings): without it no
loop ever runs. In `read`, a ceiling of 1 and of 2 with files of 0 to 3 items meets
"one less", "just" and "one more", with and without items that yield no row. A
scanner's state is its mode and position, so strings of up to two characters, each
of which means something to it, before and after every kind of delimiter, reach every
pair of tokens it looks at together. `CHECK_DEADLOCK FALSE` is in every cfg
because all of these systems stop when their callers have answered.

*Fairness.* `FairRequestSpec` and `FairWorkerSpec` assume weak fairness of the
steps of a process that lives, that is of a Node event loop that goes on with a
promise that has settled, and of BullMQ handing out and checking messages.
`MigrationSession`'s `FairSpec` does so of the executions, `ImportIntake`'s of a stream
that goes on delivering and of what follows the read. Deaths,
failures, elections and other writers are never fair: they need not happen.

## Proofs

Checked by TLAPS, with the constants' assumptions `CommitBatchAssumption`,
`CommitRequestAssumption`, `CommitWorkerAssumption`, `ImportPipelineAssumption`,
`SessionOrderAssumption`, `MigrationSessionAssumption`, `SqlDumpAssumption` and
`ImportIntakeAssumption` only, unless stated. `ImportPipelineProofs`,
`MigrationSessionProofs` and so on prove about the module they are named after;
`ImportIntakeProofs` builds on `SqlDumpProofs`.

* `TypeCorrect`: `Spec => []TypeOK`.
* `ReportsAreBacked`: a row reported committed has its document, and a linked one
  its own, for any number of rows and runs, any overlap, crash and failure. The
  inductive invariant is `ReportInv`: besides the two properties it says that a
  run which is about to link or adopt a row has the document behind it, and
  `DocumentsPersist` says that nothing takes a document away.
* `LedgerImplemented`: under `OneProtocol` and `OwnKeysOnly`,
  `Spec /\ []NoOverlap => ImplementsLedger`, for any number of runs and through any
  number of crashes. `NoOverlap` is that no two calls are in `commitBatch` at once,
  whoever makes them; `OneProtocol` is transactions
  on a replica set that keeps its primary or else a unique index; `OwnKeysOnly`
  is that no other row or writer has a row's identity value and that a call which
  reports an error changed nothing. Without them it is false, and `bug_adopt` and
  the overlaps noted below show it. `Emptied` (a run that returned or died holds no
  documents, proved without `NoOverlap`) is what makes a call that is the only active
  one alone with the rows (`ActiveIsAlone`, `CallIsAlone`). `LedgerInv` relates, for each row, its status, its document
  and where the run in charge of it is: a row that is pending has no document, a row
  that is reserved has at most one, and a duplicate key can then only be the row's
  own (`DuplicateIsOwn`).
* `LimitHolds` (`LimitInv`: a cursor never hands out more than what is left of the
  limit) and `ReturnDrains`, again under `[]NoOverlap` (`DrainInv`: every open row is still
  ahead of the cursor or in hand, unless the limit closed it; and for a call that has
  returned there is none, which later calls cannot undo, `OthersStayDrained`).
* `RequestIsEngine` and `WorkerIsEngine`: the callers' specifications imply the
  engine's, so `RequestReportsAreBacked` and `WorkerReportsAreBacked` follow
  however callers and redeliveries overlap.
* `RequestImplementsLedger` and `WorkerImplementsLedger`: the callers keep the ledger's
  promise, as their own scheduling makes `NoOverlap` true. For requests and executions
  it follows from `~Overlapping` and the status check (`RequestsDoNotOverlap`, from
  `CallersInv`). For workers it follows from `OneSlotAtATime` (`SlotsDoNotOverlap`): any
  number of slots, one message, and no lock lost but by the death of its holder; or
  any messages and lost locks, but one slot. `LockInv` says that a slot is inside
  `commitBatch` only in a chunk, and at work only on a message whose lock it holds.
* `OnlySoundRowsAreWritten`: under `OneMapping`, that all mapping requests ask for
  the same mapping, `Spec => []WrittenRowsAreSound` for the whole pipeline, any file,
  chunk and number of processes, with every overlap. It rests on `SoundInv`. Its
  heart is `InsertsOnce`: a staged record is known by who inserted it, and a process
  that has yet to insert a row is named by no record, staged or held; so the verdict
  a validation holds of a record that was deleted in the meantime cannot be written
  to its successor. `HeldIsSound` says that of the verdicts in hand, `ValidIsSound`
  of the ones written. With two mappings and overlapping requests the property is
  false, as a validation may write what it found under the first; `pipeline` shows
  that it holds for two mappings when the status checks are not overtaken.
* `ImportTypeCorrect`, whatever overlaps: it needs that a validation has counted
  the rows its loop has passed (`TallyOK`), for the counts it writes to be counts of rows.
* Under `~Overlapping` all properties of `pipeline`, for any file, mappings, chunk and
  processes: `StagedJobsAreWhole`, `MappedJobsAreMapped`, `VerdictsAreRight`,
  `KeysAreWrittenOnce`, `NoRemappingSlipsIn` and `CommittedRowsStay`. `WholeInv` is the
  half about staging: while the job has a status in which it can be staged nobody
  relies on a row (`Fresh`), and whoever stages is alone, so rows that are relied on
  are never deleted. `TurnsInv` is the other half: `Exclusive`, which leaves beside a
  process at work only an upload that is about to write "failed"; what each process
  relies on at its place (`ProcOK`), which `OthersKeepProc` shows nobody else to change;
  and `Loop`, what a validation knows after any number of chunks, in whatever order they
  come: the rows passed have the verdict of their own checks (`CheckedAlone`), the
  identity values it has seen are theirs, and of the rows passed that share one exactly
  one has escaped the check for duplicates (`OneOfTwins`). Which one that is depends on
  the cursor, so a validation does not in general repeat the verdicts of the one before
  it. `ValidatedIsChecked` and `NoTwoOfAKey` therefore say nothing of twins (nor of the
  counts) while a further validation of a validated job is at work or has broken off
  (`HalfWay`); `HalfWayLater` says that no process is before it has read a row,
  and `OnlyResultsEnd` that only a validation that writes its result ends it. `~Overlapping`
  is needed: of two executions that stage one job, the second may delete rows of the
  first after it has passed them.
* `JobIsLedger`: under `~Overlapping`, `Spec => JobImplementsLedger`. A step maps to
  `CreateAndReport`, to `ReportFailed` or to a stutter: `OnlyCommitSettles` says that no
  other step than the commit's writes outcomes or documents, and that once a row has
  either (`Written`) no step but the commit's writes anything of the rows. Without
  `~Overlapping` TLC refutes it: two upload-completes start two executions, and the one
  that is slow between its status check and `clearStagedRows` deletes committed rows,
  whose successors nothing marks as committed.
* `SortRespectsDependencies` and `CircularIsRefused`: for any finite set of entities,
  `Spec => []DependenciesFirst` (no entity is taken before one it depends on) and `Spec => []RefusedMeansCircular`. `KahnInv` says
  that indegrees count the dependencies that were not taken and the queue holds
  those that wait for none; `TakenAcyclic`, that every set of taken entities has one
  which depends on no other of them, is what makes "done" exclude a cycle without an
  induction over the list.
* `SessionTypeCorrect`, `LinkedJobsAreListed`, `EntriesAreTruthful` and
  `CommittedParentsAreKnown`: for any jobs, graph, executions, requests and stale
  reads. The proof goes through `NextDocStep`: whatever a step does, it leaves the
  document alone or writes one of four (`ClaimedDoc`, `PushedDoc`, `SortedDoc`,
  `EnteredDoc`). `DocsInv` says of every copy that it is no newer than the document
  and, at the same version, has its order: so a save that passes the version check
  puts a status at the position its job has now. `RunnerOK` says that what an
  execution is about to record of a completed job is that job's status, and
  `JobsStep` that a final status and a mapped row never change again.
* `OrderIsOfAllJobs`: `Spec => []OrderIsRight`, for any session and graph. `PlaceInv`
  says of the nested loops, while they run, that `placed` holds no position twice
  (`Placement`), that all entries of the entities passed are placed (`Upto`), that
  nothing else is but the first ones of the entity in hand (`Through`), and that
  `placed` follows `sorted` (`InOrder`); `KahnInv` then turns that order into "no entry
  before one it depends on". `SortTypeCorrect` is that indegrees stay natural numbers.
* `CountsAreTruthful`, `ReturnedIsFinal` and `ParentsRunFirst`: the session's loop, for
  any jobs, graph, executions and requests, while at most one read is answered late
  (`stale <= 1`). `LeadInv` says that only the execution which claimed the session
  first gets past the sort, and only from a copy that was read late: everybody else
  reads a session that is not "pending" and is refused. `FreshInv` says that nothing has
  been recorded while such a copy is about, `SortInv` that a saved order respects the
  dependencies. `ReadOnceInv` is the loop's invariant: with the one late read spent, an
  execution that reads its entry holds the session's own entries and counts (`CopyOK`),
  and every job behind it is recorded as over (`BehindOK`); `TotalInv` and `TurnsInv` say
  where it can be. The bound on late reads is needed: with a second one TLC refutes
  the first two theorems' properties, and the third one's if a job's document is gone
  (`Missing`). `ParentsRunFirst` assumes that only registered entities declare dependencies,
  as those of others are not looked up (`collectDependencies`).
* `WorkerDrains`: under `OneSlotAtATime` a job is only finished when no
  valid row is open, whichever slots its attempts ran in; `WorkerDrainInv` carries the short return of the last chunk
  to the final write, over `OpenRowsOnlyClose`.
* `WorkerCountsAreTrue` and `WorkerCompletesTheJob`, under `OneSlotAtATime` as well: the counts
  a worker publishes are never ahead of what it processed, and "completed" means that
  every valid row is committed. `CountInv` bounds the attempt's totals by the rows with
  an outcome: `BatchStepCounts` says that a step of the engine which counts a row has
  settled one, and `SettledStay` that no row is unsettled, so an attempt that starts its
  totals from zero can only count too little. `WorkerTypeCorrect` needs no assumption;
  `AttemptsLeft`, that a message still in the queue has attempts and deliveries left,
  makes it inductive.
* `CountsAreTrue`, `CompletedIsCommitted`, `EventsAreTrue` and `FinishedStays`, under
  `~Overlapping`: what the job document and its event report is what became of the
  rows. `CallersInv` says that at most one caller gets through: after it, the job is
  "committing" or finished and every other call is refused, which is also why a caller
  that dies leaves the job stuck (`bug_commit_stuck`). `TallyInv` equates its tally with
  the rows it settled, `FinishedIsSettled` closes the gap with `DrainInv`: the call is
  alone (`Alone`), so its return leaves no row open. `RequestTypeCorrect` and
  `LinkedRowsHaveTheirOwn` need no assumption.

* `ScanStepRight`: the scanner of dumps, for any dump of either tool, any table and
  limit. `ScanRight` says that it is at a place the tool has put something (`Reached`:
  before a statement, between tuples, at value `v` of a tuple, at character `c` of a
  string), that what it has read of the tuple, the value and the string is what stands
  before that place, and that it holds the rows of the table before it, in their order;
  or that it has stopped with a verdict the dump bears out (`Concluded`). It needs no
  induction over the text: the dump says where everything stands, so a turn of a loop
  goes from one known place to the next. `CharacterRead` is what makes strings safe: at
  a place where the tool has written a character, escaped its way, the scanner takes it
  and no other; `StatementFound` and `EndFound` say the same of heads and
  the end of the text. `HeadsRead` shows that `unquoteIdent` and `splitColumns` give the names
  that identifiers stand for.
* `IntakeTypeCorrect`, `CeilingIsKept`, `StagedFilesAreWhole` and
  `RefusedFilesAreDamaged`: for any files, tenants, ceilings, uploads, executions and
  failures. `IntakeInv` says of the race (`RaceOK`) that until it is settled the records
  are the rows among the items delivered, and that a stream which has ended or was
  destroyed has settled it, so the "close" that follows changes nothing; of a dump
  (`DumpOK`) that its scan is right, by `ScanStepRight`; `DecidedOK`
  gives each outcome its reason in the file, `MoreThanTheCeiling` the one of a rejection;
  `WaitingOK` says that an execution reads the file of a job that waits for it, and
  `ScanOK` that the scanner of dumps keeps the ceiling. `RejectionsAreTrue` says two things: that
  what a tenant is told of a rejection names a ceiling of the tenant's own and offers only
  what is more, and that a job which is rejected has the verdict of its last rejection,
  whose file had more than that ceiling (`RejectedOK`), whatever executions, puts and late
  completions came before. It says nothing of the reason a job keeps after a later
  execution has accepted its file (see below). It assumes in
  addition that `ONBOARDER_*` and `MIGRATION_*` name the same ceilings and that one's
  own database allows more (`SettingsAgree`), as the defaults do: nothing in the code
  keeps an operator from setting one family and not the other, and then a rejection
  contradicts itself.

Model-checked only: liveness (`CommitSettles`, `MessagesEnd` and
`ReadSettles`), which is out of these provers' reach as `ENABLED` is; and the session's
properties from the second late read on, where they are false.

## Findings

Each is a run that TLC refutes; `PROJECT.json` quotes the lines.

1. `bug_adopt`: the "committing" marker is taken for an earlier write of the row
   itself; after a crash before `commitRow`, a row whose key another row holds is
   reported committed and was never written.
2. `bug_commit_stuck`: a caller that dies while committing leaves a job that no
   call accepts any more, against "Crash mid-commit? Re-run".
3. `bug_session_stuck`: an execution marks the session "processing" and then has
   `computeSessionOrder` refuse it for not being "pending"; no session ever runs as
   shipped. Only a stale read (a secondary read preference) gets past it, which is why
   `session` allows one.

Met while modelling, and not given a run:

* `enqueueMigrationCommit` calls `.add` on the promise of the async `getQueue`
  (`bullmqAdapter.js:17, 43`): a TypeError, after the job was marked "committing".
  `CommitRequest!EnqueueThrows` models it; `CommitWorker` starts from a message
  that some other producer queued.
* `importPipeline.js:29-32` imports `listTargetEntities` from `sessionManager.js`,
  which does not export it, so the module does not load as shipped. The modules
  describe the code as if the name resolved.
* The transaction probe made while a replica set has no primary is cached as "no
  transactions" (`idempotency.js:33-46`): a `commitInTransaction` target without a
  unique index then runs the row protocol, where a crash can write a row twice.
* Two requests that both read "validated" both commit (`commitBatch.js:163,
  175` writes "committing" without a condition); the job can say completed while the
  second one turns rows back, against `ImportJob.model.js:91`.
* `applyMapping` rewrites the rows before it checks the profile label and saves the
  job (`applyMapping.js:206`): a refused or dead mapping leaves rows that are mapped
  otherwise than the job's `fieldMap` says.
* Two overlapping runs can turn a committed row back to "committing" and then
  "failed" (`commitBatch.js:117, 145`).
* A retried worker attempt counts from zero, so that an import without an error
  ends as `completed_with_errors`; a second message for a finished import resets
  its counts; a message that is given up leaves the job "committing", as no code
  sets `commit_failed` (`bullmqCommitWorker.js:53, 75, 101`).
* A job with invalid rows ends as "completed" (`commitBatch.js:188`), which
  `ImportJob.model.js:91` reserves for "zero invalid rows".
* When `triggerProcessingJob` rejects, the job is "uploaded" already and a second
  upload-complete is refused (`migrationImport.service.js:400, 455-460`).
* Two upload-complete requests can both trigger; the second execution's
  `clearStagedRows` can remove rows the first one staged, which then reports all
  of them.
* Validating a validated job again is allowed, and its cursor may return the rows in
  another order. If it breaks off between two bulkWrites, two rows with the same
  identity value can both be valid, one by each validation, and the commit writes both
  unless the collection has a unique index. TLC finds it as soon as `NoneHalfWay` is
  left out of `ValidatedIsChecked` or `NoTwoOfAKey`.
* Which of the rows with one identity value is imported is up to the cursor, not to the
  file: `validateRows.js:90` asks for no sort, as `commitBatch.js:84` does.
* A row that repeats an identity value is a duplicate even if every earlier row
  with it is invalid (`validateRows.js:123-127`): then no row with it is imported.
* The comment of `computeSessionExecutionOrder` says that entities without declared
  dependencies come last (`dependencyGraph.js:141-142`); they are sources of the
  graph and may come first. Either order respects the dependencies.
* `patchStagedRecordFields` edits a lean record and calls `markModified` or `save`
  on it: it always throws. `suggestMappingForJob` returns no
  `suggestedFieldMap`: the automatic mapping of `stepAutoMap` never applies.
* Of sessions: a death between the session's save and the job's link leaves a job
  that no retry links (`sessionManager.js:299-302`), so that its references are not
  looked up in the session. Two requests that add a job at once both push it; the
  second entry is never advanced. A job that is added while another one's result is
  being saved makes that save fail with a VersionError, and a completed job is
  recorded as failed. The results "staged" and "guardrail_rejected" are not in the
  schema's enum of entries and are recorded as "failed" too. A failed job sets the
  session to "completed_with_errors" while the rest still runs. `counts.failed`
  counts skipped jobs. `collectDependencies` only looks into "hr" and "businessops",
  where its comment says "across all modules" (`sessionManager.js:23-30`).
* Of reading: a damaged JSON file raises "error" on the parser between the file and
  `streamArray`, where nobody listens (`streamingParser.js:216-219`): the process dies
  instead of answering 400. An execution that cannot parse its file leaves the job
  "uploaded". An object that is put again after upload-complete is not measured again.
  A job that was rejected is executed again if an execution is still due
  (`importPipeline.js:131`), although `ImportJob.model.js` says that the import stops
  there; if that execution accepts the file, `guardrail.reason` and `guardrail.upgrade`
  keep what the rejection wrote (162-169), although the schema has `upgrade` "Null on the
  pass path". A completion that read the job before another one saved it sets whatever
  status the job has by then back to "uploaded" or "guardrail_rejected". A CSV
  that is sent as text/plain under a name without extension is read as JSON. The bound
  on memory does not hold for workbooks, which are loaded first.
* Of dumps: if a table has INSERTs with and without columns, the last one decides
  (`sqlDumpParser.js:176`, against its header, lines 14-16). Backslashes in pg_dump's
  strings are taken for escapes, and an unquoted `NOW()` ends its tuple early.
* Of rejections: multer's ceiling is the shared one, also for tenants with a database
  of their own who post the file itself (`uploadRoutes.js:619-641`). The ceilings of
  `tierPolicy.js` and of `streamingGuardrail.js` read different variables
  (ONBOARDER_*, MIGRATION_*) and agree only by their defaults.
* `requireTarget.middleware.js` calls `getTenantConfig` and `getTenantAccessDenial`,
  which it does not import, and the two route modules use names they do not import;
  the modules describe them as if the names resolved.
* The shared tier's `createImportJob` stores `uploaded.public_id`
  (`migrationImport.service.js:135`), where the shipped adapters return `publicId`
  (`gcsAdapter.js:18`, `localFsAdapter.js:15`). The schema requires `file.publicId` of a
  job without a GCS object, so that as shipped `ImportJob.create` refuses every upload of
  the shared tier, after the file was archived. The modules describe the code with an
  adapter that returns `public_id`, as the Cloudinary one did that the schema's comment
  names.

## Not modelled

The in-memory job store (a double for tests; the modules follow the Mongoose store),
the insides of the storage and topology adapters, the registry, the UI, the
documentation server and the examples, none of which keeps state of the system;
Joi schemas, authorization and the listings, which change none. `PATCH
/imports/:id/rows/:rowId` always throws as shipped (above). The suggestion of
mappings (`suggestMapping`) is a pure function whose result nothing applies. The
contents of rows, coercion and error texts are behind `Sound` and `Identity`; what
csv-parse, stream-json and exceljs make of bytes is an item that is a row or is
not. Of dumps, those with mixed statements for one table, identifiers that hold
quotes and pg_dump strings with backslashes are left out of the dumps (the first two
notes on dumps say what happens to them). The documents of the business collection
are only created: other writers that delete or change them are outside the model.

## Plan

What is left, in this order:

1. That `MigrationSession`'s one-step job is what `ImportPipeline` does.
2. `suggestMapping` as a function, against its three tiers.
