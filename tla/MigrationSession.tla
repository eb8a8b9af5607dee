-------------------------- MODULE MigrationSession --------------------------
(***************************************************************************)
(* One migration session: the requests that add jobs to it and order them  *)
(* (orchestration/sessionManager.js) and the Cloud Run executions that run *)
(* its jobs one after the other (runSessionPipeline of worker/             *)
(* importPipeline.js).  They share the session document.  Every operation  *)
(* reads it, decides, and saves; Mongoose writes the paths that were       *)
(* changed, asks for the version that was read when the write replaces an  *)
(* array or goes into one, and then answers VersionError if another        *)
(* process has pushed or replaced one meanwhile.                           *)
(*                                                                         *)
(* A job's own pipeline is ImportPipeline; here it is one step with its    *)
(* possible results, and a job has one row, which refers to one row of     *)
(* each entity its own depends on.  The sort is SessionOrder's, one step   *)
(* here since it has no await.  A process that dies is one that takes no   *)
(* further step; the retry of an execution is another execution.           *)
(*                                                                         *)
(* A definition commented "Slip" is a mistake this code does not make: a   *)
(* property below must fail when it takes the place of what follows it.    *)
(***************************************************************************)
EXTENDS Naturals, Sequences, FiniteSets

CONSTANTS
    JobIds,         \* the import jobs there are
    Entities,       \* the entity keys
    EntityOf,       \* each job's entity key
    Dependencies,   \* the dependencies each entity's descriptor declares
    Registered,     \* entities of a module collectDependencies looks into
    Missing,        \* jobs whose document is gone when the session runs
    Runners,        \* Cloud Run executions started for the session
    Clients,        \* connections that send requests
    MaxRequests,    \* bound on the requests sent
    MaxStaleReads,  \* bound on the reads a lagging replica answers
    None            \* no job

Procs == Runners \cup Clients

ASSUME MigrationSessionAssumption ==
    /\ EntityOf \in [JobIds -> Entities]
    /\ Dependencies \in [Entities -> SUBSET Entities]
    /\ Registered \subseteq Entities
    /\ Missing \subseteq JobIds
    /\ Runners \cap Clients = {}
    /\ MaxRequests \in Nat
    /\ MaxStaleReads \in Nat
    /\ None \notin JobIds

VARIABLES
    session,   \* the session document
    before,    \* the document before the last write: what a replica may hold
    stale,     \* reads that were answered with it
    requests,  \* requests sent so far
    status,    \* each job's status, "uploaded" until its pipeline has run
    linked,    \* jobs whose document carries the session's id
    row,       \* what became of the job's row, "none" while it is not mapped
    external,  \* jobs whose row has its externalId
    at,        \* where each process is
    seen,      \* the session as the process read it, until it has saved it
    job,       \* the job a client adds
    order,     \* the executionOrder an execution follows
    pos,       \* how far it has come in it
    target     \* the status it is about to record for that job

docVars == <<session, before, stale>>
jobVars == <<status, linked, row, external>>
runVars == <<order, pos, target>>
vars == <<docVars, requests, jobVars, at, seen, job, runVars>>

Done == {"completed", "completed_with_errors"}
EntryStatuses == Done \cup {"pending", "processing", "failed", "skipped"}
Results == Done \cup {"failed", "staged"}

\* createSession.
Created == [status |-> "pending", jobs |-> <<>>, order |-> <<>>, entries |-> <<>>,
            total |-> 0, completed |-> 0, failed |-> 0, v |-> 0]

\* POST /sessions, after which the rest may happen.
PostSession == session = Created /\ before = Created

Init ==
    /\ PostSession
    /\ stale = 0 /\ requests = 0
    /\ status = [j \in JobIds |-> "uploaded"]
    /\ linked = {}
    /\ row = [j \in JobIds |-> "none"]
    /\ external = {}
    /\ at = [p \in Procs |-> "idle"]
    /\ seen = [p \in Procs |-> Created]
    /\ job = [p \in Clients |-> None]
    /\ order = [p \in Runners |-> <<>>]
    /\ pos = [p \in Runners |-> 1]
    /\ target = [p \in Runners |-> "pending"]

Goes(p, where) == at' = [at EXCEPT ![p] = where]

\* findOne or findById of the session returns doc.  The last bounded stale read
\* ends the lag, for nobody would notice it.
Reads(doc) ==
    /\ \/ doc = session /\ stale' = stale
       \/ doc = before /\ doc # session /\ stale < MaxStaleReads /\ stale' = stale + 1
    /\ before' = IF stale' < MaxStaleReads THEN before ELSE session
    /\ UNCHANGED session

Keeps(p, doc) == seen' = [seen EXCEPT ![p] = doc]

Saves(p, doc) ==
    /\ session' = doc
    /\ before' = IF stale < MaxStaleReads THEN session ELSE doc
    /\ seen' = [seen EXCEPT ![p] = Created]
    /\ UNCHANGED stale

\* The value a save leaves in a path: its own if it changed what it had read.
Path(read, new, stored) == IF new # read THEN new ELSE stored

EntitiesIn(jobs) == {EntityOf[jobs[i]] : i \in DOMAIN jobs}
Listed(jobs) == {jobs[i] : i \in DOMAIN jobs}

-----------------------------------------------------------------------------
(* POST /sessions/:id/jobs. *)

Requests(p) ==
    /\ p \in Clients /\ at[p] = "idle" /\ requests < MaxRequests
    /\ requests' = requests + 1

\* Slip: the job is linked to the session before it is listed in it.
AddJobLinks(p, j) ==
    \E doc \in {session, before} :
        /\ Reads(doc)
        /\ IF doc.status # "pending" \/ j \in Listed(doc.jobs)
           THEN UNCHANGED <<at, seen, job, linked>>
           ELSE /\ Goes(p, "add") /\ Keeps(p, doc)
                /\ job' = [job EXCEPT ![p] = j] /\ linked' = linked \cup {j}
        /\ UNCHANGED <<status, row, external, runVars>>

\* Up to the save.  A session that is not pending is refused with 409, a job it
\* lists already is left as it is.
AddJob(p, j) ==
    \E doc \in {session, before} :
        /\ Reads(doc)
        /\ IF doc.status # "pending" \/ j \in Listed(doc.jobs)
           THEN UNCHANGED <<at, seen, job>>
           ELSE Goes(p, "add") /\ Keeps(p, doc) /\ job' = [job EXCEPT ![p] = j]
        /\ UNCHANGED <<jobVars, runVars>>

\* $push with $inc of the version, on whatever the document is by now; the
\* total is computed from what was read.
PushedDoc(p) ==
    [session EXCEPT !.jobs = Append(@, job[p]),
                    !.total = Len(seen[p].jobs) + 1,
                    !.v = @ + 1]

PushJob(p) ==
    /\ p \in Clients /\ at[p] = "add"
    /\ Saves(p, PushedDoc(p))
    /\ Goes(p, "link")
    /\ UNCHANGED <<requests, jobVars, job, runVars>>

LinkJob(p) ==
    /\ p \in Clients /\ at[p] = "link"
    /\ linked' = linked \cup {job[p]}
    /\ Goes(p, "idle") /\ job' = [job EXCEPT ![p] = None]
    /\ UNCHANGED <<docVars, requests, status, row, external, seen, runVars>>

-----------------------------------------------------------------------------
(* computeSessionOrder, by request or by an execution. *)

\* The modules it looks into are "hr" and "businessops"; an entity of another one
\* passes for one without dependencies.
collectDependencies(e) == IF e \in Registered THEN Dependencies[e] ELSE {}

\* The sort's refusal, with 400.
Circular(jobs) ==
    \E E \in SUBSET EntitiesIn(jobs) :
        E # {} /\ \A e \in E : collectDependencies(e) \cap E # {}

JobsOf(jobs, e) == SelectSeq(jobs, LAMBDA j : EntityOf[j] = e)

\* Slip: the jobs stay in the order they were added.
OrderAsAdded(jobs, o) == o = jobs

\* What the sort answers (SessionOrder!OrderIsRight).
IsOrder(jobs, o) ==
    /\ Listed(o) = Listed(jobs)
    /\ \A e \in Entities : JobsOf(o, e) = JobsOf(jobs, e)
    /\ \A i, k \in DOMAIN o : i < k =>
         EntityOf[o[k]] \notin collectDependencies(EntityOf[o[i]])

\* Up to the save.  What it refuses, with 409 or 400, an execution does not catch.
ComputeOrder(p) ==
    \E doc \in {session, before} :
        /\ Reads(doc)
        /\ IF doc.status = "pending" /\ doc.jobs # <<>> /\ ~Circular(doc.jobs)
           THEN Goes(p, "sort") /\ Keeps(p, doc)
           ELSE Goes(p, IF p \in Runners THEN "threw" ELSE "idle") /\ UNCHANGED seen
        /\ UNCHANGED <<jobVars, job, runVars>>

\* Slip: the entries of an earlier order stay.
SortedDocKeeps(o) == [session EXCEPT !.order = o, !.v = @ + 1]

SortedDoc(o) ==
    [session EXCEPT !.order = o,
                    !.entries = [i \in DOMAIN o |-> "pending"],
                    !.v = @ + 1]

\* Slip: the save replaces the arrays of any version.
SaveOrderUnchecked(p) ==
    /\ at[p] = "sort"
    /\ \E o \in [DOMAIN seen[p].jobs -> JobIds] :
           IsOrder(seen[p].jobs, o) /\ Saves(p, SortedDoc(o))
    /\ Goes(p, IF p \in Runners THEN "follow" ELSE "idle")
    /\ UNCHANGED <<requests, jobVars, job, runVars>>

\* Replaces three arrays, if the version is still the one that was read.
SaveOrder(p) ==
    /\ at[p] = "sort" /\ session.v = seen[p].v
    /\ \E o \in [DOMAIN seen[p].jobs -> JobIds] :
           IsOrder(seen[p].jobs, o) /\ Saves(p, SortedDoc(o))
    /\ Goes(p, IF p \in Runners THEN "follow" ELSE "idle")
    /\ UNCHANGED <<requests, jobVars, job, runVars>>

SaveOrderFails(p) ==
    /\ at[p] = "sort" /\ session.v # seen[p].v
    /\ Goes(p, IF p \in Runners THEN "threw" ELSE "idle") /\ Keeps(p, Created)
    /\ UNCHANGED <<docVars, requests, jobVars, job, runVars>>

-----------------------------------------------------------------------------
(* runSessionPipeline, up to its loop. *)

StartSession(p) ==
    /\ p \in Runners /\ at[p] = "idle"
    /\ \E doc \in {session, before} :
         /\ Reads(doc)
         /\ Goes(p, IF doc.status = "pending" THEN "claim" ELSE "skipped")
    /\ UNCHANGED <<requests, jobVars, seen, job, runVars>>

\* $set of the status alone: no version is asked for.
Claim(p) ==
    /\ at[p] = "claim"
    /\ Saves(p, [session EXCEPT !.status = "processing"])
    /\ Goes(p, "order")
    /\ UNCHANGED <<requests, jobVars, job, runVars>>

OrderSession(p) == at[p] = "order" /\ ComputeOrder(p) /\ UNCHANGED requests

FollowOrder(p) ==
    /\ at[p] = "follow"
    /\ \E doc \in {session, before} :
         Reads(doc) /\ order' = [order EXCEPT ![p] = doc.order]
    /\ Goes(p, "next")
    /\ UNCHANGED <<requests, jobVars, seen, job, pos, target>>

-----------------------------------------------------------------------------
(* Its loop, and advanceSessionJobStatus. *)

Current(p) == order[p][pos[p]]

\* The next job, if its document is there.
NextJob(p) ==
    /\ at[p] = "next" /\ pos[p] <= Len(order[p])
    /\ IF Current(p) \in Missing
       THEN Goes(p, "catch") /\ target' = [target EXCEPT ![p] = "skipped"]
       ELSE Goes(p, "mark") /\ target' = [target EXCEPT ![p] = "processing"]
    /\ UNCHANGED <<docVars, requests, jobVars, seen, job, order, pos>>

\* "mark" is inside the try block, "catch" is not.
ReadEntry(p) ==
    /\ at[p] \in {"mark", "catch"}
    /\ \E doc \in {session, before} : Reads(doc) /\ Keeps(p, doc)
    /\ Goes(p, IF at[p] = "mark" THEN "marking" ELSE "catching")
    /\ UNCHANGED <<requests, jobVars, job, runVars>>

\* The entry that find yields: of a job that was added twice, the first.
Places(doc, j) ==
    {i \in DOMAIN doc.order : doc.order[i] = j /\ \A k \in 1..(i - 1) : doc.order[k] # j}
Count(entries, S) == Cardinality({i \in DOMAIN entries : entries[i] \in S})

\* Slip: the counts are taken before the entry is changed.
AdvancedLate(doc, j, st) ==
    LET completed == Count(doc.entries, Done)
        failed == Count(doc.entries, {"failed", "skipped"})
    IN  [doc EXCEPT
           !.entries = [i \in DOMAIN @ |-> IF i \in Places(doc, j) THEN st ELSE @[i]],
           !.completed = completed,
           !.failed = failed,
           !.status = IF completed + failed = Len(doc.entries)
                      THEN IF failed > 0 THEN "completed_with_errors" ELSE "completed"
                      ELSE IF st = "failed" THEN "completed_with_errors" ELSE "processing"]

\* The document as advanceSessionJobStatus has it when it saves.
Advanced(doc, j, st) ==
    LET entries == [i \in DOMAIN doc.entries |->
                      IF i \in Places(doc, j) THEN st ELSE doc.entries[i]]
        completed == Count(entries, Done)
        failed == Count(entries, {"failed", "skipped"})
    IN  [doc EXCEPT
           !.entries = entries,
           !.completed = completed,
           !.failed = failed,
           !.status = IF completed + failed = Len(entries)
                      THEN IF failed > 0 THEN "completed_with_errors" ELSE "completed"
                      ELSE IF st = "failed" THEN "completed_with_errors" ELSE "processing"]

\* The schema's enum, and the version if the entry was changed.
MaySave(p) ==
    LET new == Advanced(seen[p], Current(p), target[p]) IN
    /\ Places(seen[p], Current(p)) # {} => target[p] \in EntryStatuses
    /\ new.entries # seen[p].entries => session.v = seen[p].v

EnteredDoc(p) ==
    LET new == Advanced(seen[p], Current(p), target[p]) IN
    [session EXCEPT
       !.entries = IF new.entries = seen[p].entries THEN @
                   ELSE [i \in DOMAIN @ |-> Path(seen[p].entries[i], new.entries[i], @[i])],
       !.completed = Path(seen[p].completed, new.completed, @),
       !.failed = Path(seen[p].failed, new.failed, @),
       !.status = Path(seen[p].status, new.status, @)]

SaveEntry(p) ==
    /\ at[p] \in {"marking", "catching"} /\ MaySave(p)
    /\ Saves(p, EnteredDoc(p))
    /\ IF target[p] = "processing" THEN Goes(p, "run") /\ UNCHANGED pos
       ELSE IF target[p] \in Done THEN Goes(p, "populate") /\ UNCHANGED pos
       ELSE Goes(p, "next") /\ pos' = [pos EXCEPT ![p] = @ + 1]
    /\ UNCHANGED <<requests, jobVars, job, order, target>>

\* ValidationError or VersionError: caught once, and recorded as a failure.
SaveEntryFails(p) ==
    /\ at[p] \in {"marking", "catching"} /\ ~MaySave(p)
    /\ IF at[p] = "marking"
       THEN Goes(p, "catch") /\ target' = [target EXCEPT ![p] = "failed"]
       ELSE Goes(p, "threw") /\ UNCHANGED target
    /\ Keeps(p, Created)
    /\ UNCHANGED <<docVars, requests, jobVars, job, order, pos>>

\* Slip: any row with the key will do.
StagedParentAny(d) ==
    \E p \in Listed(session.jobs) : EntityOf[p] = d /\ p \in external

\* resolveSessionReferences: a row of the session, committed or not, unless it
\* was found invalid.
StagedParent(d) ==
    \E p \in Listed(session.jobs) :
        EntityOf[p] = d /\ p \in external /\ row[p] \notin {"none", "invalid"}

\* Every reference of the row resolves: in the business collections, or among
\* the rows of the session if the job is linked to one.
Resolved(j) ==
    \A d \in Dependencies[EntityOf[j]] :
        \/ \E p \in JobIds : EntityOf[p] = d /\ row[p] = "committed"
        \/ j \in linked /\ StagedParent(d)

\* The row after runJobPipeline has ended with result r.  Rows that were found
\* invalid do not keep a job from being completed.
RowAfter(j, r) ==
    LET accepted(S) == IF Resolved(j) THEN S ELSE {} IN
    CASE r = "completed" -> {"invalid"} \cup accepted({"committed"})
      [] r = "completed_with_errors" -> accepted({"failed"})
      [] r = "failed" -> {"none", "unvalidated"}
      [] r = "staged" -> {"none"}
      [] r = "stopped" -> {"none", "unvalidated", "invalid"}
                             \cup accepted({"valid", "failed", "committed"})

Open == {"uploaded", "staged"}

Ends(j, r) ==
    /\ status[j] \in Open
    /\ \E w \in RowAfter(j, r) : row' = [row EXCEPT ![j] = w]
    /\ status' = [status EXCEPT ![j] = r]

\* runJobPipeline returns; a job that is not open it returns as it is.
RunJob(p) ==
    /\ at[p] = "run"
    /\ \E r \in Results \cup {"stopped"} :
         /\ \/ r \in Results /\ Ends(Current(p), r)
            \/ r = status[Current(p)] /\ r \notin Open /\ UNCHANGED <<status, row>>
         /\ target' = [target EXCEPT ![p] = r]
    /\ Goes(p, "mark")
    /\ UNCHANGED <<docVars, requests, linked, external, seen, job, order, pos>>

\* Slip: what is thrown is lost and the job passes for done.
JobThrowsLost(p) ==
    /\ at[p] = "run"
    /\ Ends(Current(p), "stopped")
    /\ target' = [target EXCEPT ![p] = "completed"]
    /\ Goes(p, "mark")
    /\ UNCHANGED <<docVars, requests, linked, external, seen, job, order, pos>>

JobThrows(p) ==
    /\ at[p] = "run"
    /\ Ends(Current(p), "stopped")
    /\ target' = [target EXCEPT ![p] = "failed"]
    /\ Goes(p, "catch")
    /\ UNCHANGED <<docVars, requests, linked, external, seen, job, order, pos>>

\* populateSessionExternalIds, as far as it gets: a job's rows that are mapped
\* get the value of their identity field.
Populates ==
    \E doc \in {session, before} : \E n \in 0..Len(doc.jobs) :
        /\ Reads(doc)
        /\ external' = external \cup {j \in Listed(SubSeq(doc.jobs, 1, n)) : row[j] # "none"}

\* Whether it gets there or not.
Populate(p) ==
    /\ at[p] = "populate" /\ Populates
    /\ Goes(p, "next") /\ pos' = [pos EXCEPT ![p] = @ + 1]
    /\ UNCHANGED <<requests, status, linked, row, seen, job, order, target>>

FinishSession(p) ==
    /\ at[p] = "next" /\ pos[p] > Len(order[p])
    /\ \E doc \in {session, before} : Reads(doc)
    /\ Goes(p, "returned")
    /\ UNCHANGED <<requests, jobVars, seen, job, runVars>>

-----------------------------------------------------------------------------
(* The requests. *)

PostJob(p) == Requests(p) /\ \E j \in JobIds : AddJob(p, j)
PostComputeOrder(p) == Requests(p) /\ ComputeOrder(p)
PostPopulate(p) ==
    /\ Requests(p) /\ Populates
    /\ UNCHANGED <<status, linked, row, at, seen, job, runVars>>

ClientStep(p) ==
    \/ PostJob(p) \/ PushJob(p) \/ LinkJob(p)
    \/ PostComputeOrder(p) \/ SaveOrder(p) \/ SaveOrderFails(p)
    \/ PostPopulate(p)

RunnerStep(p) ==
    \/ StartSession(p) \/ Claim(p) \/ OrderSession(p) \/ SaveOrder(p) \/ SaveOrderFails(p)
    \/ FollowOrder(p) \/ NextJob(p) \/ ReadEntry(p) \/ SaveEntry(p) \/ SaveEntryFails(p)
    \/ RunJob(p) \/ JobThrows(p) \/ Populate(p) \/ FinishSession(p)

Next == (\E p \in Clients : ClientStep(p)) \/ (\E p \in Runners : RunnerStep(p))

Spec == Init /\ [][Next]_vars
FairSpec == Spec /\ \A p \in Runners : WF_vars(RunnerStep(p))

-----------------------------------------------------------------------------
(* Properties. *)

Locations == {"idle", "add", "link", "sort", "claim", "order", "follow", "next", "mark",
              "marking", "catch", "catching", "run", "populate", "returned", "skipped", "threw"}

Documents ==
    [status : {"pending", "processing"} \cup Done, jobs : Seq(JobIds), order : Seq(JobIds),
     entries : Seq(EntryStatuses), total : Nat, completed : Nat, failed : Nat, v : Nat]

DocTypeOK(doc) == doc \in Documents /\ Len(doc.entries) = Len(doc.order)

\* The document keeps its shape: one entry of jobStatuses per job of
\* executionOrder, each with a status of the schema's enum.
SessionTypeOK ==
    /\ DocTypeOK(session) /\ DocTypeOK(before) /\ \A p \in Procs : DocTypeOK(seen[p])
    /\ stale \in 0..MaxStaleReads /\ requests \in 0..MaxRequests
    /\ status \in [JobIds -> Open \cup Results \cup {"stopped"}]
    /\ row \in [JobIds -> {"none", "unvalidated", "invalid", "valid", "failed", "committed"}]
    /\ linked \subseteq JobIds /\ external \subseteq JobIds
    /\ at \in [Procs -> Locations]
    /\ job \in [Clients -> JobIds \cup {None}]
    /\ order \in [Runners -> Seq(JobIds)]
    /\ pos \in [Runners -> Nat]
    /\ target \in [Runners -> EntryStatuses \cup Results \cup {"stopped"}]

\* A job that carries the session's id is listed in the session: addJobToSession
\* links it last, and no save loses a job another request pushed.
LinkedIsListed == linked \subseteq Listed(session.jobs)

\* An entry of jobStatuses only says completed if its job is, with the same
\* errors, whichever positions other saves have given the jobs meanwhile
\* (advanceSessionJobStatus).
EntriesAgreeWithJobs ==
    \A i \in DOMAIN session.entries :
        session.entries[i] \in Done => status[session.order[i]] = session.entries[i]

\* The session's counts are those of its entries, and it never counts more jobs
\* than it has.
CountsTruthful ==
    /\ session.completed = Count(session.entries, Done)
    /\ session.failed = Count(session.entries, {"failed", "skipped"})
    /\ session.total <= Len(session.jobs)

\* While a job runs, those of the same run it depends on have run or are
\* recorded as failed (computeSessionOrder, runSessionPipeline).
ParentsFirst ==
    \A p \in Runners : at[p] = "run" =>
        \A k \in DOMAIN order[p] :
            EntityOf[order[p][k]] \in Dependencies[EntityOf[Current(p)]] =>
                \/ status[order[p][k]] # "uploaded"
                \/ \E i \in Places(session, order[p][k]) :
                     session.entries[i] \in {"failed", "skipped"}

\* No row is committed while a row it refers to was refused or never mapped: its
\* parents are committed, or staged in the session.
ParentsAreKnown ==
    \A j \in JobIds : row[j] = "committed" =>
        \A d \in Dependencies[EntityOf[j]] :
            \E p \in JobIds : EntityOf[p] = d /\ row[p] \notin {"none", "invalid"}

\* An execution that gets to the end of its loop leaves no job of the session's
\* order without a final status, and the session with one unless another
\* execution has claimed it, which no version check keeps it from.  A job that
\* was added twice has a second entry, which nothing ever advances.
ReturnedMeansFinal ==
    \A p \in Runners :
      at[p] = "returned" /\ Cardinality(Listed(session.order)) = Len(session.order) =>
        /\ \/ session.status \in Done
           \/ \E q \in Runners \ {p} : at[q] \in {"order", "threw"}
        /\ \A i \in DOMAIN session.entries :
             session.entries[i] \in Done \cup {"failed", "skipped"}

\* "The Cloud Run entrypoint reads the session, runs each job's pipeline in
\* execution order, and advances the session's status" (MigrationSession.model.js).
SessionRuns == session.status = "processing" ~> session.status \in Done

=============================================================================
