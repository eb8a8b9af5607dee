----------------------- MODULE MigrationSessionProofs -----------------------
(* What holds of a session for any jobs, entities, executions and requests,     *)
(* and any number of reads that a lagging replica answers.                      *)
EXTENDS MigrationSession, SequenceTheorems, FiniteSetTheorems, WellFoundedInduction, TLAPS

USE DEF Procs

\* A step leaves the document as it is, or writes one of four.
Looks ==
    /\ session' = session /\ before' \in {before, session}
    /\ \A q \in Procs : seen'[q] \in {seen[q], session, before, Created}

Writes(doc) ==
    /\ session' = doc /\ before' \in {session, doc}
    /\ \A q \in Procs : seen'[q] \in {seen[q], Created}

ClaimedDoc == [session EXCEPT !.status = "processing"]

DocStep ==
    \/ Looks
    \/ Writes(ClaimedDoc)
    \/ \E p \in Clients : at[p] = "add" /\ Writes(PushedDoc(p))
    \/ \E p \in Procs : \E o \in [DOMAIN seen[p].jobs -> JobIds] : Writes(SortedDoc(o))
    \/ \E p \in Runners : /\ at[p] \in {"marking", "catching"} /\ MaySave(p)
                          /\ Writes(EnteredDoc(p))

SeenOK == seen = [p \in Procs |-> seen[p]]

LEMMA SavesWrites ==
    ASSUME SeenOK, NEW p \in Procs, NEW doc, Saves(p, doc)
    PROVE  Writes(doc)
BY DEF SeenOK, Saves, Writes

LEMMA ReadsLooks ==
    ASSUME SeenOK, NEW doc, Reads(doc), UNCHANGED seen
    PROVE  Looks
BY DEF Reads, Looks

LEMMA KeepsLooks ==
    ASSUME SeenOK, NEW doc \in {session, before, Created}, NEW p \in Procs, Keeps(p, doc),
           session' = session, before' \in {before, session}
    PROVE  Looks
BY DEF SeenOK, Keeps, Looks

LEMMA ReadsKeepsLooks ==
    ASSUME SeenOK, NEW doc \in {session, before}, NEW p \in Procs, Reads(doc), Keeps(p, doc)
    PROVE  Looks
<1>1. session' = session /\ before' \in {before, session}
  BY DEF Reads
<1> QED BY <1>1, KeepsLooks

LEMMA ComputeOrderLooks ==
    ASSUME SeenOK, NEW p \in Procs, ComputeOrder(p)
    PROVE  Looks
<1>1. PICK doc \in {session, before} :
        Reads(doc) /\ (Keeps(p, doc) \/ UNCHANGED seen)
  BY DEF ComputeOrder
<1> QED BY <1>1, ReadsLooks, ReadsKeepsLooks

LEMMA PopulatesLooks ==
    ASSUME SeenOK, Populates, UNCHANGED seen
    PROVE  Looks
BY ReadsLooks DEF Populates

LEMMA ClientDocStep ==
    ASSUME SeenOK, NEW p \in Clients, ClientStep(p)
    PROVE  DocStep
<1>1. CASE PostJob(p)
  <2>1. PICK j \in JobIds : AddJob(p, j)
    BY <1>1 DEF PostJob
  <2>2. PICK doc \in {session, before} : Reads(doc) /\ (Keeps(p, doc) \/ UNCHANGED seen)
    BY <2>1 DEF AddJob
  <2> QED BY <2>2, ReadsLooks, ReadsKeepsLooks DEF DocStep
<1>2. CASE PushJob(p)
  BY <1>2, SavesWrites DEF PushJob, DocStep
<1>3. CASE LinkJob(p)
  BY <1>3 DEF LinkJob, docVars, DocStep, Looks
<1>4. CASE PostComputeOrder(p)
  BY <1>4, ComputeOrderLooks DEF PostComputeOrder, DocStep
<1>5. CASE SaveOrder(p)
  BY <1>5, SavesWrites DEF SaveOrder, DocStep
<1>6. CASE SaveOrderFails(p)
  BY <1>6, KeepsLooks DEF SaveOrderFails, docVars, DocStep
<1>7. CASE PostPopulate(p)
  BY <1>7, PopulatesLooks DEF PostPopulate, DocStep
<1> QED BY <1>1, <1>2, <1>3, <1>4, <1>5, <1>6, <1>7 DEF ClientStep

LEMMA RunnerDocStep ==
    ASSUME SeenOK, NEW p \in Runners, RunnerStep(p)
    PROVE  DocStep
<1>1. CASE StartSession(p)
  BY <1>1, ReadsLooks DEF StartSession, DocStep
<1>2. CASE Claim(p)
  BY <1>2, SavesWrites DEF Claim, ClaimedDoc, DocStep
<1>3. CASE OrderSession(p)
  BY <1>3, ComputeOrderLooks DEF OrderSession, DocStep
<1>4. CASE SaveOrder(p)
  BY <1>4, SavesWrites DEF SaveOrder, DocStep
<1>5. CASE SaveOrderFails(p)
  BY <1>5, KeepsLooks DEF SaveOrderFails, docVars, DocStep
<1>6. CASE FollowOrder(p)
  BY <1>6, ReadsLooks DEF FollowOrder, DocStep
<1>7. CASE NextJob(p)
  BY <1>7 DEF NextJob, docVars, DocStep, Looks
<1>8. CASE ReadEntry(p)
  BY <1>8, ReadsKeepsLooks DEF ReadEntry, DocStep
<1>9. CASE SaveEntry(p)
  BY <1>9, SavesWrites DEF SaveEntry, DocStep
<1>10. CASE SaveEntryFails(p)
  BY <1>10, KeepsLooks DEF SaveEntryFails, docVars, DocStep
<1>11. CASE RunJob(p) \/ JobThrows(p)
  BY <1>11 DEF RunJob, JobThrows, docVars, DocStep, Looks
<1>12. CASE Populate(p)
  BY <1>12, PopulatesLooks DEF Populate, DocStep
<1>13. CASE FinishSession(p)
  BY <1>13, ReadsLooks DEF FinishSession, DocStep
<1> QED BY <1>1, <1>2, <1>3, <1>4, <1>5, <1>6, <1>7, <1>8, <1>9, <1>10, <1>11, <1>12, <1>13
        DEF RunnerStep

\* Whatever a step does, it does to the document in one of these ways.
LEMMA NextDocStep ==
    ASSUME SeenOK, [Next]_vars
    PROVE  DocStep
<1>1. CASE UNCHANGED vars
  BY <1>1 DEF vars, docVars, DocStep, Looks
<1> QED BY <1>1, ClientDocStep, RunnerDocStep DEF Next


-----------------------------------------------------------------------------
(* The document. *)

\* What was written at a version has the order that version has.
NoNewer(D, S) == D.v <= S.v /\ (D.v = S.v => D.order = S.order)

DocsInv ==
    /\ DocTypeOK(session) /\ DocTypeOK(before)
    /\ NoNewer(Created, session) /\ NoNewer(before, session)
    /\ \A q \in Procs : DocTypeOK(seen[q]) /\ NoNewer(seen[q], session)

LEMMA CreatedType == DocTypeOK(Created)
<1>1. <<>> \in Seq(JobIds) /\ <<>> \in Seq(EntryStatuses) /\ Len(<<>>) = 0
  OBVIOUS
<1> QED BY <1>1 DEF DocTypeOK, Documents, Created

LEMMA Fields ==
    ASSUME NEW doc \in Documents
    PROVE  /\ doc.status \in {"pending", "processing"} \cup Done
           /\ doc.jobs \in Seq(JobIds) /\ doc.order \in Seq(JobIds)
           /\ doc.entries \in Seq(EntryStatuses)
           /\ doc.total \in Nat /\ doc.completed \in Nat /\ doc.failed \in Nat /\ doc.v \in Nat
BY DEF Documents

LEMMA CountNat ==
    ASSUME NEW S, NEW T, NEW entries \in Seq(T)
    PROVE  Count(entries, S) \in Nat
<1>1. IsFiniteSet(DOMAIN entries)
  <2>1. DOMAIN entries = 1..Len(entries) /\ Len(entries) \in Int
    OBVIOUS
  <2> QED BY <2>1, FS_Interval
<1>2. {i \in DOMAIN entries : entries[i] \in S} \subseteq DOMAIN entries
  OBVIOUS
<1> QED BY <1>1, <1>2, FS_Subset, FS_CardinalityType DEF Count

\* What a write makes of the document.
Follows(new) ==
    /\ DocTypeOK(new) /\ NoNewer(session, new)
    /\ Listed(session.jobs) \subseteq Listed(new.jobs)

LEMMA ClaimedFollows ==
    ASSUME DocsInv
    PROVE  Follows(ClaimedDoc) /\ ClaimedDoc.order = session.order
             /\ ClaimedDoc.entries = session.entries
<1>1. session \in Documents /\ Len(session.entries) = Len(session.order)
  BY DEF DocsInv, DocTypeOK
<1>2. /\ ClaimedDoc \in Documents
      /\ ClaimedDoc.entries = session.entries /\ ClaimedDoc.order = session.order
      /\ ClaimedDoc.v = session.v /\ ClaimedDoc.jobs = session.jobs
  BY <1>1 DEF ClaimedDoc, Documents
<1> QED BY <1>1, <1>2, Fields DEF Follows, DocTypeOK, NoNewer

LEMMA PushedFollows ==
    ASSUME DocsInv, NEW p \in Clients, job[p] \in JobIds
    PROVE  Follows(PushedDoc(p)) /\ PushedDoc(p).order = session.order
             /\ PushedDoc(p).entries = session.entries
<1> DEFINE jobs == Append(session.jobs, job[p])
           total == Len(seen[p].jobs) + 1
           v == session.v + 1
<1>1. session \in Documents /\ seen[p] \in Documents /\ Len(session.entries) = Len(session.order)
  BY DEF DocsInv, DocTypeOK
<1>2. /\ session.jobs \in Seq(JobIds) /\ Len(seen[p].jobs) \in Nat
      /\ session.v \in Nat
  BY <1>1, Fields
<1>3. jobs \in Seq(JobIds) /\ total \in Nat /\ v \in Nat /\ v > session.v
  BY <1>2
<1>4. Listed(session.jobs) \subseteq Listed(jobs)
  BY <1>2 DEF Listed
<1>5. PushedDoc(p) = [session EXCEPT !.jobs = jobs, !.total = total, !.v = v]
  BY DEF PushedDoc
<1> HIDE DEF jobs, total, v
<1>6. /\ PushedDoc(p) \in Documents
      /\ PushedDoc(p).entries = session.entries /\ PushedDoc(p).order = session.order
      /\ PushedDoc(p).v = v /\ PushedDoc(p).jobs = jobs
  BY <1>1, <1>3, <1>5 DEF Documents
<1> QED BY <1>1, <1>2, <1>3, <1>4, <1>6 DEF Follows, DocTypeOK, NoNewer

LEMMA SortedFollows ==
    ASSUME DocsInv, NEW p \in Procs, NEW o \in [DOMAIN seen[p].jobs -> JobIds]
    PROVE  Follows(SortedDoc(o)) /\ SortedDoc(o).order = o
                /\ SortedDoc(o).entries = [i \in DOMAIN o |-> "pending"]
<1> DEFINE entries == [i \in DOMAIN o |-> "pending"]
           v == session.v + 1
<1>1. session \in Documents /\ seen[p] \in Documents
  BY DEF DocsInv, DocTypeOK
<1>2. seen[p].jobs \in Seq(JobIds) /\ session.v \in Nat
  BY <1>1, Fields
<1>3. o \in Seq(JobIds) /\ DOMAIN o = 1..Len(o) /\ Len(o) \in Nat
  BY <1>2
<1>4. entries \in Seq(EntryStatuses) /\ Len(entries) = Len(o)
  BY <1>3 DEF EntryStatuses
<1>5. v \in Nat /\ v > session.v
  BY <1>2
<1>6. SortedDoc(o) = [session EXCEPT !.order = o, !.entries = entries, !.v = v]
  BY DEF SortedDoc
<1>7. entries = [i \in DOMAIN o |-> "pending"]
  OBVIOUS
<1> HIDE DEF entries, v
<1>8. /\ SortedDoc(o) \in Documents
      /\ SortedDoc(o).entries = entries /\ SortedDoc(o).order = o
      /\ SortedDoc(o).v = v /\ SortedDoc(o).jobs = session.jobs
  BY <1>1, <1>3, <1>4, <1>5, <1>6 DEF Documents
<1> QED BY <1>1, <1>2, <1>4, <1>5, <1>7, <1>8 DEF Follows, DocTypeOK, NoNewer

\* If the save of an entry changes the entries, it finds those it has read, and
\* changes only the ones of its job.
LEMMA EnteredEntries ==
    ASSUME DocsInv, NEW p \in Runners, MaySave(p)
    PROVE  /\ EnteredDoc(p).entries \in Seq(EntryStatuses)
           /\ Len(EnteredDoc(p).entries) = Len(session.entries)
           /\ \A i \in DOMAIN session.entries :
                EnteredDoc(p).entries[i] # session.entries[i] =>
                    EnteredDoc(p).entries[i] = target[p] /\ session.order[i] = Current(p)
<1> DEFINE new == Advanced(seen[p], Current(p), target[p])
           places == Places(seen[p], Current(p))
<1>1. session \in Documents /\ seen[p] \in Documents
        /\ Len(session.entries) = Len(session.order) /\ Len(seen[p].entries) = Len(seen[p].order)
  BY DEF DocsInv, DocTypeOK
<1>2. new.entries = [i \in DOMAIN seen[p].entries |->
                       IF i \in places THEN target[p] ELSE seen[p].entries[i]]
  BY <1>1 DEF Advanced, Documents
<1>3. EnteredDoc(p).entries =
        IF new.entries = seen[p].entries THEN session.entries
        ELSE [i \in DOMAIN session.entries |->
                Path(seen[p].entries[i], new.entries[i], session.entries[i])]
  BY <1>1 DEF EnteredDoc, Documents
<1>4. CASE new.entries = seen[p].entries
  BY <1>1, <1>3, <1>4 DEF Documents
<1>5. CASE new.entries # seen[p].entries
  <2>1. seen[p].order = session.order /\ DOMAIN seen[p].entries = DOMAIN session.entries
    BY <1>1, <1>5 DEF MaySave, DocsInv, NoNewer, Documents
  <2>2. places # {}
    <3>1. SUFFICES ASSUME places = {} PROVE new.entries = seen[p].entries
      BY <1>5
    <3>2. new.entries = [i \in DOMAIN seen[p].entries |-> seen[p].entries[i]]
      BY <1>2, <3>1
    <3> QED BY <1>1, <3>2 DEF Documents
  <2>3. target[p] \in EntryStatuses
    BY <2>2 DEF MaySave
  <2>4. \A i \in DOMAIN session.entries :
          /\ EnteredDoc(p).entries[i] \in EntryStatuses
          /\ EnteredDoc(p).entries[i] # session.entries[i] =>
               EnteredDoc(p).entries[i] = target[p] /\ session.order[i] = Current(p)
    <3> TAKE i \in DOMAIN session.entries
    <3>1. EnteredDoc(p).entries[i] = Path(seen[p].entries[i], new.entries[i], session.entries[i])
      BY <1>3, <1>5
    <3>2. new.entries[i] = IF i \in places THEN target[p] ELSE seen[p].entries[i]
      BY <1>2, <2>1
    <3>3. i \in places => seen[p].order[i] = Current(p)
      BY DEF Places
    <3>4. session.entries[i] \in EntryStatuses
      BY <1>1 DEF Documents
    <3> QED BY <3>1, <3>2, <3>3, <3>4, <2>1, <2>3 DEF Path
  <2>5. DOMAIN EnteredDoc(p).entries = DOMAIN session.entries
          /\ EnteredDoc(p).entries = [i \in DOMAIN session.entries |-> EnteredDoc(p).entries[i]]
    BY <1>3, <1>5
  <2>6. DOMAIN session.entries = 1..Len(session.entries) /\ Len(session.entries) \in Nat
    BY <1>1 DEF Documents
  <2>7. EnteredDoc(p).entries \in Seq(EntryStatuses)
    BY <2>4, <2>5, <2>6
  <2>8. Len(EnteredDoc(p).entries) = Len(session.entries)
    BY <2>5, <2>6, <2>7
  <2> QED BY <2>4, <2>7, <2>8
<1> QED BY <1>4, <1>5

LEMMA EnteredFollows ==
    ASSUME DocsInv, NEW p \in Runners, MaySave(p)
    PROVE  Follows(EnteredDoc(p)) /\ EnteredDoc(p).order = session.order
<1> DEFINE new == Advanced(seen[p], Current(p), target[p])
           entries == [i \in DOMAIN seen[p].entries |->
                         IF i \in Places(seen[p], Current(p)) THEN target[p]
                         ELSE seen[p].entries[i]]
<1>1. session \in Documents /\ seen[p] \in Documents
        /\ Len(session.entries) = Len(session.order)
  BY DEF DocsInv, DocTypeOK
<1>2. entries \in Seq(EntryStatuses \cup {target[p]})
  <2>1. seen[p].entries \in Seq(EntryStatuses)
    BY <1>1, Fields
  <2> QED BY <2>1
<1>3. Count(entries, Done) \in Nat /\ Count(entries, {"failed", "skipped"}) \in Nat
  BY <1>2, CountNat
<1>4. new.completed \in Nat /\ new.failed \in Nat
  BY <1>1, <1>3 DEF Advanced, Documents
<1>5. new.status \in {"pending", "processing"} \cup Done
  BY <1>1 DEF Advanced, Documents, Done
<1>6. /\ EnteredDoc(p) \in Documents
      /\ EnteredDoc(p).order = session.order /\ EnteredDoc(p).v = session.v
      /\ EnteredDoc(p).jobs = session.jobs
  <2>1. EnteredDoc(p) =
          [session EXCEPT !.entries = EnteredDoc(p).entries,
             !.completed = Path(seen[p].completed, new.completed, session.completed),
             !.failed = Path(seen[p].failed, new.failed, session.failed),
             !.status = Path(seen[p].status, new.status, session.status)]
    BY <1>1 DEF EnteredDoc, Documents
  <2>2. /\ Path(seen[p].completed, new.completed, session.completed) \in Nat
        /\ Path(seen[p].failed, new.failed, session.failed) \in Nat
        /\ Path(seen[p].status, new.status, session.status) \in {"pending", "processing"} \cup Done
    BY <1>1, <1>4, <1>5 DEF Path, Documents
  <2>3. EnteredDoc(p).entries \in Seq(EntryStatuses)
    BY EnteredEntries
  <2> HIDE DEF new
  <2> QED BY <1>1, <2>1, <2>2, <2>3 DEF Documents
<1> QED BY <1>1, <1>6, EnteredEntries DEF Follows, DocTypeOK, NoNewer, Documents

\* The documents are well formed after any step.
LEMMA DocsStep ==
    ASSUME DocsInv, SeenOK, [Next]_vars,
           \A p \in Clients : at[p] = "add" => job[p] \in JobIds
    PROVE  DocsInv' /\ Listed(session.jobs) \subseteq Listed(session'.jobs)
<1>1. CASE Looks
  <2>1. session' = session /\ before' \in {before, session}
    BY <1>1 DEF Looks
  <2>2. NoNewer(session, session)
    BY Fields DEF DocsInv, DocTypeOK, NoNewer
  <2>3. ASSUME NEW q \in Procs
        PROVE  DocTypeOK(seen'[q]) /\ NoNewer(seen'[q], session)
    BY <1>1, <2>2, CreatedType DEF Looks, DocsInv
  <2>4. DocTypeOK(before') /\ NoNewer(before', session)
    BY <2>1, <2>2 DEF DocsInv
  <2> QED BY <2>1, <2>3, <2>4 DEF DocsInv, NoNewer, DocTypeOK
<1>2. ASSUME NEW doc, Writes(doc), Follows(doc)
      PROVE  DocsInv' /\ Listed(session.jobs) \subseteq Listed(session'.jobs)
  <2>1. \A D : D \in Documents /\ NoNewer(D, session) => NoNewer(D, doc)
    BY <1>2, Fields DEF Follows, NoNewer, DocTypeOK, DocsInv
  <2>2. NoNewer(doc, doc) /\ NoNewer(session, doc)
    BY <1>2, Fields DEF Follows, NoNewer, DocTypeOK
  <2>3. ASSUME NEW D, DocTypeOK(D), NoNewer(D, session) \/ D = doc
        PROVE  DocTypeOK(D) /\ NoNewer(D, doc)
    BY <2>1, <2>2, <2>3 DEF DocTypeOK
  <2>4. session' = doc /\ before' \in {session, doc}
          /\ \A q \in Procs : seen'[q] \in {seen[q], Created}
    BY <1>2 DEF Writes
  <2>5. DocTypeOK(doc) /\ NoNewer(session, session)
    BY <1>2, Fields DEF Follows, NoNewer, DocTypeOK, DocsInv
  <2>6. DocTypeOK(before') /\ NoNewer(before', doc)
    BY <2>3, <2>4, <2>5 DEF DocsInv
  <2>7. NoNewer(Created, doc)
    BY <2>3, CreatedType DEF DocsInv
  <2>8. ASSUME NEW q \in Procs
        PROVE  DocTypeOK(seen'[q]) /\ NoNewer(seen'[q], doc)
    BY <2>3, <2>4, CreatedType DEF DocsInv
  <2> QED BY <1>2, <2>4, <2>5, <2>6, <2>7, <2>8 DEF Follows, DocsInv, NoNewer, DocTypeOK
<1> QED BY <1>1, <1>2, NextDocStep, ClaimedFollows, PushedFollows, SortedFollows, EnteredFollows
        DEF DocStep


-----------------------------------------------------------------------------
(* The processes. *)

InLoop == {"mark", "marking", "catch", "catching", "run", "populate"}
Recording == {"mark", "marking", "catch", "catching"}

JobStatuses == Open \cup Results \cup {"stopped"}
Rows == {"none", "unvalidated", "invalid", "valid", "failed", "committed"}

\* In the loop, an execution is at a job of its order; what it is about to record
\* of a completed job is that job's status.
RunnerOK(p) ==
    /\ at[p] \in Locations
    /\ order[p] \in Seq(JobIds) /\ pos[p] \in Nat \ {0}
    /\ target[p] \in EntryStatuses \cup Results \cup {"stopped"}
    /\ at[p] \in InLoop => pos[p] \in 1..Len(order[p])
    /\ at[p] \in Recording /\ target[p] \in Done => status[Current(p)] = target[p]

\* What a client is about to link is listed.
ClientOK(p) ==
    /\ at[p] \in Locations
    /\ job[p] \in JobIds \cup {None}
    /\ at[p] \in {"add", "link"} => job[p] \in JobIds
    /\ at[p] = "link" => job[p] \in Listed(session.jobs)

ShapeOK ==
    /\ SeenOK
    /\ at = [p \in Procs |-> at[p]]
    /\ job = [p \in Clients |-> job[p]]
    /\ order = [p \in Runners |-> order[p]]
    /\ pos = [p \in Runners |-> pos[p]]
    /\ target = [p \in Runners |-> target[p]]

JobsOK ==
    /\ status \in [JobIds -> JobStatuses] /\ row \in [JobIds -> Rows]
    /\ \A j \in JobIds : status[j] \in Open => row[j] = "none"

BoundsOK == stale \in 0..MaxStaleReads /\ requests \in 0..MaxRequests

ProcsInv ==
    /\ ShapeOK /\ JobsOK
    /\ \A p \in Runners : RunnerOK(p)
    /\ \A p \in Clients : ClientOK(p)

\* A status only changes from an open one.
JobEnds == \E j \in JobIds : \E r \in Results \cup {"stopped"} : Ends(j, r)

LEMMA CurrentIsJob ==
    ASSUME NEW p \in Runners, RunnerOK(p), at[p] \in InLoop
    PROVE  Current(p) \in JobIds
BY DEF RunnerOK, Current

LEMMA NextJobs ==
    ASSUME ProcsInv, [Next]_vars
    PROVE  UNCHANGED <<status, row>> \/ JobEnds
<1>1. CASE UNCHANGED vars
  BY <1>1 DEF vars, jobVars
<1>2. ASSUME NEW p \in Clients, ClientStep(p) PROVE UNCHANGED <<status, row>>
  BY <1>2 DEF ClientStep, PostJob, AddJob, PushJob, LinkJob, PostComputeOrder, ComputeOrder,
              SaveOrder, SaveOrderFails, PostPopulate, jobVars
<1>3. ASSUME NEW p \in Runners, RunJob(p) \/ JobThrows(p) PROVE UNCHANGED <<status, row>> \/ JobEnds
  <2>1. Current(p) \in JobIds
    BY <1>3, CurrentIsJob DEF ProcsInv, RunJob, JobThrows, InLoop
  <2> QED BY <1>3, <2>1 DEF RunJob, JobThrows, JobEnds
<1>4. ASSUME NEW p \in Runners, RunnerStep(p), ~RunJob(p), ~JobThrows(p)
      PROVE  UNCHANGED <<status, row>>
  BY <1>4 DEF RunnerStep, StartSession, Claim, OrderSession, ComputeOrder, SaveOrder,
              SaveOrderFails, FollowOrder, NextJob, ReadEntry, SaveEntry, SaveEntryFails,
              Populate, FinishSession, jobVars
<1> QED BY <1>1, <1>2, <1>3, <1>4 DEF Next

LEMMA JobsStep ==
    ASSUME ProcsInv, [Next]_vars
    PROVE  /\ JobsOK'
           /\ \A j \in JobIds : status[j] \in Done => status'[j] = status[j]
           /\ \A j \in JobIds : row[j] # "none" => row'[j] = row[j]
<1>1. CASE UNCHANGED <<status, row>>
  BY <1>1 DEF ProcsInv, JobsOK
<1>2. ASSUME NEW j \in JobIds, NEW r \in Results \cup {"stopped"}, Ends(j, r)
      PROVE  /\ JobsOK'
             /\ \A k \in JobIds : status[k] \in Done => status'[k] = status[k]
             /\ \A k \in JobIds : row[k] # "none" => row'[k] = row[k]
  <2>1. status \in [JobIds -> JobStatuses] /\ row \in [JobIds -> Rows] /\ row[j] = "none"
    BY <1>2 DEF ProcsInv, JobsOK, Ends
  <2>2. PICK w \in RowAfter(j, r) : row' = [row EXCEPT ![j] = w]
    BY <1>2 DEF Ends
  <2>3. status' = [status EXCEPT ![j] = r] /\ status[j] \in Open
    BY <1>2 DEF Ends
  <2>4. w \in Rows /\ (r = "staged" => w = "none")
    BY <2>2 DEF RowAfter, Rows, Results, Done
  <2>5. r \in JobStatuses /\ (r \in Open => r = "staged")
    BY DEF JobStatuses, Open, Results, Done
  <2>6. status[j] \notin Done
    BY <2>3 DEF Open, Done
  <2> QED BY <2>1, <2>2, <2>3, <2>4, <2>5, <2>6 DEF JobsOK, ProcsInv
<1> QED BY <1>1, <1>2, NextJobs DEF JobEnds

\* A step is one process's.
OthersRest(p) ==
    /\ \A q \in Procs \ {p} : at'[q] = at[q]
    /\ \A q \in Clients \ {p} : job'[q] = job[q]
    /\ \A q \in Runners \ {p} :
         order'[q] = order[q] /\ pos'[q] = pos[q] /\ target'[q] = target[q]

LEMMA ClientAlone ==
    ASSUME ShapeOK, NEW p \in Clients, ClientStep(p)
    PROVE  OthersRest(p) /\ ShapeOK'
<1>1. CASE PostJob(p)
  BY <1>1 DEF PostJob, AddJob, Goes, Keeps, ShapeOK, SeenOK, OthersRest, runVars
<1>2. CASE PushJob(p) \/ LinkJob(p)
  BY <1>2 DEF PushJob, LinkJob, Saves, Goes, ShapeOK, SeenOK, OthersRest, runVars
<1>3. CASE PostComputeOrder(p)
  BY <1>3 DEF PostComputeOrder, ComputeOrder, Keeps, Goes, ShapeOK, SeenOK, OthersRest, runVars
<1>4. CASE SaveOrder(p) \/ SaveOrderFails(p)
  BY <1>4 DEF SaveOrder, SaveOrderFails, Saves, Keeps, Goes, ShapeOK, SeenOK, OthersRest, runVars
<1>5. CASE PostPopulate(p)
  BY <1>5 DEF PostPopulate, ShapeOK, SeenOK, OthersRest, runVars
<1> QED BY <1>1, <1>2, <1>3, <1>4, <1>5 DEF ClientStep

LEMMA RunnerAlone ==
    ASSUME ShapeOK, NEW p \in Runners, RunnerStep(p)
    PROVE  OthersRest(p) /\ ShapeOK'
<1>1. CASE StartSession(p) \/ FollowOrder(p) \/ FinishSession(p)
  BY <1>1 DEF StartSession, FollowOrder, FinishSession, Goes, ShapeOK, SeenOK, OthersRest, runVars
<1>2. CASE Claim(p) \/ SaveOrder(p) \/ SaveOrderFails(p)
  BY <1>2 DEF Claim, SaveOrder, SaveOrderFails, Saves, Keeps, Goes, ShapeOK, SeenOK, OthersRest, runVars
<1>3. CASE OrderSession(p)
  BY <1>3 DEF OrderSession, ComputeOrder, Keeps, Goes, ShapeOK, SeenOK, OthersRest, runVars
<1>4. CASE NextJob(p) \/ ReadEntry(p)
  BY <1>4 DEF NextJob, ReadEntry, Keeps, Goes, ShapeOK, SeenOK, OthersRest, runVars
<1>5. CASE SaveEntry(p) \/ SaveEntryFails(p)
  BY <1>5 DEF SaveEntry, SaveEntryFails, Saves, Keeps, Goes, ShapeOK, SeenOK, OthersRest, runVars
<1>6. CASE RunJob(p) \/ JobThrows(p) \/ Populate(p)
  BY <1>6 DEF RunJob, JobThrows, Populate, Goes, ShapeOK, SeenOK, OthersRest, runVars
<1> QED BY <1>1, <1>2, <1>3, <1>4, <1>5, <1>6 DEF RunnerStep

LEMMA ClientsStep ==
    ASSUME ProcsInv, DocsInv, [Next]_vars
    PROVE  \A q \in Clients : ClientOK(q)'
<1> SUFFICES ASSUME NEW q \in Clients PROVE ClientOK(q)'
  OBVIOUS
<1>1. ClientOK(q) /\ ShapeOK /\ Listed(session.jobs) \subseteq Listed(session'.jobs)
  BY DocsStep DEF ProcsInv, ShapeOK, ClientOK
<1>2. ASSUME at'[q] = at[q], job'[q] = job[q] PROVE ClientOK(q)'
  BY <1>1, <1>2 DEF ClientOK
<1>3. CASE UNCHANGED vars
  BY <1>2, <1>3 DEF vars
<1>4. ASSUME NEW p \in Runners, RunnerStep(p) PROVE ClientOK(q)'
  <2>1. p # q
    BY MigrationSessionAssumption
  <2>2. OthersRest(p) /\ UNCHANGED job
    BY <1>1, <1>4, RunnerAlone
      DEF RunnerStep, StartSession, Claim, OrderSession, ComputeOrder, SaveOrder, SaveOrderFails,
          FollowOrder, NextJob, ReadEntry, SaveEntry, SaveEntryFails, RunJob, JobThrows, Populate,
          FinishSession
  <2> QED BY <1>2, <2>1, <2>2 DEF OthersRest
<1>5. ASSUME NEW p \in Clients, ClientStep(p), p # q PROVE ClientOK(q)'
  BY <1>1, <1>2, <1>5, ClientAlone DEF OthersRest
<1>6. ASSUME ClientStep(q) PROVE ClientOK(q)'
  <2>1. CASE PostJob(q)
    BY <1>1, <1>2, <2>1 DEF PostJob, AddJob, Goes, Keeps, ShapeOK, ClientOK, Locations
  <2>2. CASE PushJob(q)
    <3>1. job[q] \in Listed(session'.jobs)
      <4>1. session'.jobs = Append(session.jobs, job[q]) /\ session.jobs \in Seq(JobIds)
        BY <2>2, Fields DEF PushJob, Saves, PushedDoc, DocsInv, DocTypeOK, Documents
      <4>2. Append(session.jobs, job[q])[Len(session.jobs) + 1] = job[q]
              /\ Len(session.jobs) + 1 \in DOMAIN Append(session.jobs, job[q])
        BY <4>1
      <4> QED BY <4>1, <4>2 DEF Listed
    <3> QED BY <1>1, <2>2, <3>1 DEF PushJob, Goes, ShapeOK, ClientOK, Locations
  <2>3. CASE LinkJob(q)
    BY <1>1, <2>3 DEF LinkJob, Goes, ShapeOK, ClientOK, Locations
  <2>4. CASE PostComputeOrder(q)
    BY <1>1, <1>2, <2>4, MigrationSessionAssumption
      DEF PostComputeOrder, ComputeOrder, Goes, ShapeOK, ClientOK, Locations
  <2>5. CASE SaveOrder(q) \/ SaveOrderFails(q)
    BY <1>1, <2>5, MigrationSessionAssumption
      DEF SaveOrder, SaveOrderFails, Goes, ShapeOK, ClientOK, Locations
  <2>6. CASE PostPopulate(q)
    BY <1>2, <2>6 DEF PostPopulate
  <2> QED BY <1>6, <2>1, <2>2, <2>3, <2>4, <2>5, <2>6 DEF ClientStep
<1> QED BY <1>3, <1>4, <1>5, <1>6 DEF Next

LEMMA RunnersStep ==
    ASSUME ProcsInv, DocsInv, [Next]_vars
    PROVE  \A q \in Runners : RunnerOK(q)'
<1> SUFFICES ASSUME NEW q \in Runners PROVE RunnerOK(q)'
  OBVIOUS
<1>1. /\ RunnerOK(q) /\ ShapeOK /\ JobsOK
      /\ \A j \in JobIds : status[j] \in Done => status'[j] = status[j]
  BY JobsStep DEF ProcsInv
<1>2. ASSUME at'[q] = at[q], order'[q] = order[q], pos'[q] = pos[q], target'[q] = target[q]
      PROVE  RunnerOK(q)'
  <2>1. Current(q)' = Current(q)
    BY <1>2 DEF Current
  <2>2. at[q] \in Recording => Current(q) \in JobIds
    BY <1>1, CurrentIsJob DEF Recording, InLoop
  <2> QED BY <1>1, <1>2, <2>1, <2>2 DEF RunnerOK
<1>3. CASE UNCHANGED vars
  BY <1>2, <1>3 DEF vars, runVars
<1>4. ASSUME NEW p \in Clients, ClientStep(p) PROVE RunnerOK(q)'
  <2>1. p # q
    BY MigrationSessionAssumption
  <2> QED BY <1>1, <1>2, <1>4, <2>1, ClientAlone DEF OthersRest
<1>5. ASSUME NEW p \in Runners, RunnerStep(p), p # q PROVE RunnerOK(q)'
  BY <1>1, <1>2, <1>5, RunnerAlone DEF OthersRest
<1>6. ASSUME RunnerStep(q) PROVE RunnerOK(q)'
  <2> USE DEF Goes, ShapeOK, RunnerOK, Locations, InLoop, Recording
  <2>0. \A doc \in {session, before} : doc.order \in Seq(JobIds)
    BY Fields DEF DocsInv, DocTypeOK
  <2>1. CASE StartSession(q) \/ FinishSession(q)
    BY <1>1, <2>1 DEF StartSession, FinishSession, runVars
  <2>2. CASE Claim(q) \/ SaveOrder(q) \/ SaveOrderFails(q)
    BY <1>1, <2>2 DEF Claim, SaveOrder, SaveOrderFails, runVars
  <2>3. CASE OrderSession(q)
    BY <1>1, <2>3 DEF OrderSession, ComputeOrder, runVars
  <2>4. CASE FollowOrder(q)
    BY <1>1, <2>0, <2>4 DEF FollowOrder
  <2>5. CASE NextJob(q)
    <3>1. pos[q] \in 1..Len(order[q]) /\ order' = order /\ pos' = pos
      BY <1>1, <2>5 DEF NextJob
    <3>2. /\ at'[q] \in {"mark", "catch"} /\ target'[q] \in {"skipped", "processing"}
      BY <1>1, <2>5 DEF NextJob
    <3> QED BY <1>1, <3>1, <3>2 DEF EntryStatuses, Done
  <2>6. CASE ReadEntry(q)
    <3>1. at'[q] \in {"marking", "catching"} /\ order' = order /\ pos' = pos /\ target' = target
            /\ status' = status /\ at[q] \in {"mark", "catch"}
      BY <1>1, <2>6 DEF ReadEntry, runVars, jobVars
    <3> QED BY <1>1, <3>1 DEF Current
  <2>7. CASE SaveEntry(q)
    <3>1. /\ at[q] \in {"marking", "catching"} /\ order' = order /\ target' = target
          /\ \/ at'[q] \in {"run", "populate"} /\ pos' = pos
             \/ at'[q] = "next" /\ pos'[q] = pos[q] + 1
      BY <1>1, <2>7 DEF SaveEntry
    <3> QED BY <1>1, <3>1
  <2>8. CASE SaveEntryFails(q)
    <3>1. /\ at[q] \in {"marking", "catching"} /\ order' = order /\ pos' = pos
          /\ \/ at'[q] = "catch" /\ target'[q] = "failed"
             \/ at'[q] = "threw" /\ target' = target
      BY <1>1, <2>8 DEF SaveEntryFails
    <3> QED BY <1>1, <3>1 DEF EntryStatuses, Done
  <2>9. CASE RunJob(q)
    <3>1. PICK r \in Results \cup {"stopped"} :
            /\ \/ Ends(Current(q), r)
               \/ r = status[Current(q)] /\ UNCHANGED status
            /\ target' = [target EXCEPT ![q] = r]
      BY <2>9 DEF RunJob
    <3>2. Current(q) \in JobIds
      BY <1>1, <2>9, CurrentIsJob DEF RunJob
    <3>3. status'[Current(q)] = r
      BY <1>1, <3>1, <3>2 DEF Ends, JobsOK
    <3>4. at'[q] = "mark" /\ at[q] = "run" /\ order' = order /\ pos' = pos /\ target'[q] = r
      BY <1>1, <2>9, <3>1 DEF RunJob
    <3> QED BY <1>1, <3>3, <3>4 DEF Current
  <2>10. CASE JobThrows(q)
    <3>1. at'[q] = "catch" /\ at[q] = "run" /\ order' = order /\ pos' = pos /\ target'[q] = "failed"
      BY <1>1, <2>10 DEF JobThrows
    <3> QED BY <1>1, <3>1 DEF EntryStatuses, Done
  <2>11. CASE Populate(q)
    <3>1. at'[q] = "next" /\ order' = order /\ pos'[q] = pos[q] + 1 /\ target' = target
      BY <1>1, <2>11 DEF Populate
    <3> QED BY <1>1, <3>1
  <2> QED BY <1>6, <2>1, <2>2, <2>3, <2>4, <2>5, <2>6, <2>7, <2>8, <2>9, <2>10, <2>11
          DEF RunnerStep
<1> QED BY <1>3, <1>4, <1>5, <1>6 DEF Next

LEMMA BoundsStep ==
    ASSUME BoundsOK, [Next]_vars
    PROVE  BoundsOK'
<1>1. ASSUME NEW doc, Reads(doc) PROVE stale' \in 0..MaxStaleReads
  BY <1>1, MigrationSessionAssumption DEF Reads, BoundsOK
<1>2. CASE UNCHANGED vars
  BY <1>2 DEF vars, docVars, BoundsOK
<1>3. ASSUME NEW p \in Clients, ClientStep(p) PROVE BoundsOK'
  BY <1>1, <1>3, MigrationSessionAssumption
    DEF ClientStep, PostJob, AddJob, PushJob, LinkJob, PostComputeOrder, ComputeOrder, SaveOrder,
        SaveOrderFails, PostPopulate, Populates, Requests, Saves, docVars, BoundsOK
<1>4. ASSUME NEW p \in Runners, RunnerStep(p) PROVE BoundsOK'
  BY <1>1, <1>4
    DEF RunnerStep, StartSession, Claim, OrderSession, ComputeOrder, SaveOrder, SaveOrderFails,
        FollowOrder, NextJob, ReadEntry, SaveEntry, SaveEntryFails, RunJob, JobThrows, Populate,
        Populates, FinishSession, Saves, docVars, BoundsOK
<1> QED BY <1>2, <1>3, <1>4 DEF Next

LEMMA LinksStep ==
    ASSUME linked \subseteq JobIds, external \subseteq JobIds, ProcsInv, DocsInv, LinkedIsListed,
           [Next]_vars
    PROVE  linked' \subseteq JobIds /\ external' \subseteq JobIds /\ LinkedIsListed'
<1>1. Listed(session.jobs) \subseteq Listed(session'.jobs)
  BY DocsStep DEF ProcsInv, ShapeOK, ClientOK
<1>2. linked' = linked \/ \E p \in Clients : at[p] = "link" /\ linked' = linked \cup {job[p]}
  BY DEF Next, vars, jobVars, ClientStep, PostJob, AddJob, PushJob, LinkJob, PostComputeOrder,
         ComputeOrder, SaveOrder, SaveOrderFails, PostPopulate, RunnerStep, StartSession, Claim,
         OrderSession, FollowOrder, NextJob, ReadEntry, SaveEntry, SaveEntryFails, RunJob,
         JobThrows, Populate, FinishSession
<1>3. ASSUME Populates PROVE external' \subseteq JobIds
  <2>1. PICK doc \in {session, before} : \E n \in 0..Len(doc.jobs) :
          external' = external \cup {j \in Listed(SubSeq(doc.jobs, 1, n)) : row[j] # "none"}
    BY <1>3 DEF Populates
  <2>2. PICK n \in 0..Len(doc.jobs) :
          external' = external \cup {j \in Listed(SubSeq(doc.jobs, 1, n)) : row[j] # "none"}
    BY <2>1
  <2>3. doc.jobs \in Seq(JobIds)
    BY Fields DEF DocsInv, DocTypeOK
  <2>4. Listed(SubSeq(doc.jobs, 1, n)) \subseteq JobIds
    BY <2>3 DEF Listed
  <2> QED BY <2>2, <2>4
<1>4. external' = external \/ Populates
  BY DEF Next, vars, jobVars, ClientStep, PostJob, AddJob, PushJob, LinkJob, PostComputeOrder,
         ComputeOrder, SaveOrder, SaveOrderFails, PostPopulate, RunnerStep, StartSession, Claim,
         OrderSession, FollowOrder, NextJob, ReadEntry, SaveEntry, SaveEntryFails, RunJob,
         JobThrows, Populate, FinishSession
<1>5. \A p \in Clients : at[p] = "link" => job[p] \in JobIds /\ job[p] \in Listed(session.jobs)
  BY DEF ProcsInv, ClientOK
<1> QED BY <1>1, <1>2, <1>3, <1>4, <1>5 DEF LinkedIsListed

-----------------------------------------------------------------------------
(* Entries and rows. *)

LEMMA EntriesStep ==
    ASSUME ProcsInv, DocsInv, EntriesAgreeWithJobs, [Next]_vars
    PROVE  EntriesAgreeWithJobs'
<1>1. \A j \in JobIds : status[j] \in Done => status'[j] = status[j]
  BY JobsStep
<1>2. /\ session.order \in Seq(JobIds) /\ session.entries \in Seq(EntryStatuses)
      /\ Len(session.entries) = Len(session.order)
  BY Fields DEF DocsInv, DocTypeOK
<1>3. ASSUME NEW i \in DOMAIN session.entries, session.entries[i] \in Done
      PROVE  status'[session.order[i]] = session.entries[i]
  BY <1>1, <1>2, <1>3 DEF EntriesAgreeWithJobs
<1>4. ASSUME session'.entries = session.entries, session'.order = session.order
      PROVE  EntriesAgreeWithJobs'
  BY <1>3, <1>4 DEF EntriesAgreeWithJobs
<1>5. CASE Looks
  BY <1>4, <1>5 DEF Looks
<1>6. CASE Writes(ClaimedDoc)
  BY <1>4, <1>6, ClaimedFollows DEF Writes
<1>7. ASSUME NEW p \in Clients, at[p] = "add", Writes(PushedDoc(p)) PROVE EntriesAgreeWithJobs'
  BY <1>4, <1>7, PushedFollows DEF Writes, ProcsInv, ClientOK
<1>8. ASSUME NEW p \in Procs, NEW o \in [DOMAIN seen[p].jobs -> JobIds], Writes(SortedDoc(o))
      PROVE  EntriesAgreeWithJobs'
  <2>1. session'.entries = [i \in DOMAIN o |-> "pending"]
    BY <1>8, SortedFollows DEF Writes
  <2> QED BY <2>1 DEF EntriesAgreeWithJobs, Done
<1>9. ASSUME NEW p \in Runners, at[p] \in {"marking", "catching"}, MaySave(p), Writes(EnteredDoc(p))
      PROVE  EntriesAgreeWithJobs'
  <2>1. /\ session' = EnteredDoc(p) /\ session'.order = session.order
        /\ DOMAIN session'.entries = DOMAIN session.entries
    BY <1>2, <1>9, EnteredFollows, EnteredEntries DEF Writes
  <2>2. target[p] \in Done => status'[Current(p)] = target[p]
    BY <1>1, <1>9, CurrentIsJob DEF ProcsInv, RunnerOK, Recording, InLoop
  <2>3. ASSUME NEW i \in DOMAIN session.entries, session'.entries[i] \in Done
        PROVE  status'[session.order[i]] = session'.entries[i]
    BY <1>3, <1>9, <2>1, <2>2, <2>3, EnteredEntries
  <2> QED BY <2>1, <2>3 DEF EntriesAgreeWithJobs
<1>10. SeenOK
  BY DEF ProcsInv, ShapeOK
<1> QED BY <1>5, <1>6, <1>7, <1>8, <1>9, <1>10, NextDocStep DEF DocStep

\* A row that is mapped and was not found invalid.
Stands(p) == row[p] \notin {"none", "invalid"}

LEMMA ParentsStep ==
    ASSUME ProcsInv, DocsInv, ParentsAreKnown, [Next]_vars
    PROVE  ParentsAreKnown'
<1>1. \A j \in JobIds : row[j] # "none" => row'[j] = row[j]
  BY JobsStep
<1>2. ASSUME NEW j \in JobIds, row'[j] = "committed", NEW d \in Dependencies[EntityOf[j]]
      PROVE  \E p \in JobIds : EntityOf[p] = d /\ Stands(p)
  <2>1. CASE row[j] = "committed"
    BY <1>2, <2>1 DEF ParentsAreKnown, Stands
  <2>2. CASE row[j] # "committed"
    <3>1. PICK k \in JobIds, r \in Results \cup {"stopped"} : Ends(k, r)
      BY <1>2, <2>2, NextJobs DEF JobEnds
    <3>2. PICK w \in RowAfter(k, r) : row' = [row EXCEPT ![k] = w]
      BY <3>1 DEF Ends
    <3>3. k = j /\ w = "committed"
      BY <1>2, <2>2, <3>2 DEF ProcsInv, JobsOK
    <3>4. Resolved(j)
      BY <3>2, <3>3 DEF RowAfter, Results, Done
    <3>5. CASE StagedParent(d)
      <4>1. Listed(session.jobs) \subseteq JobIds
        BY Fields DEF DocsInv, DocTypeOK, Listed
      <4> QED BY <3>5, <4>1 DEF StagedParent, Stands
    <3> QED BY <1>2, <3>4, <3>5 DEF Resolved, Stands
  <2> QED BY <2>1, <2>2
<1>3. \A p \in JobIds : Stands(p) => row'[p] \notin {"none", "invalid"}
  BY <1>1 DEF Stands
<1> QED BY <1>2, <1>3 DEF ParentsAreKnown

-----------------------------------------------------------------------------
(* The invariant, and what follows from it. *)

SessionInv ==
    /\ DocsInv /\ ProcsInv /\ BoundsOK
    /\ linked \subseteq JobIds /\ external \subseteq JobIds
    /\ LinkedIsListed /\ EntriesAgreeWithJobs /\ ParentsAreKnown

LEMMA SessionInit == Init => SessionInv
<1> SUFFICES ASSUME Init PROVE SessionInv
  OBVIOUS
<1>1. DocsInv
  BY CreatedType, Fields DEF Init, PostSession, DocsInv, NoNewer, DocTypeOK
<1>2. ProcsInv
  <2>1. <<>> \in Seq(JobIds)
    OBVIOUS
  <2>2. ShapeOK /\ JobsOK
    BY DEF Init, ShapeOK, SeenOK, JobsOK, JobStatuses, Open, Rows
  <2>3. \A p \in Runners : RunnerOK(p)
    BY <2>1 DEF Init, RunnerOK, Locations, InLoop, Recording, EntryStatuses
  <2>4. \A p \in Clients : ClientOK(p)
    BY DEF Init, ClientOK, Locations
  <2> QED BY <2>2, <2>3, <2>4 DEF ProcsInv
<1>3. BoundsOK
  BY MigrationSessionAssumption DEF Init, BoundsOK
<1>4. LinkedIsListed /\ EntriesAgreeWithJobs /\ ParentsAreKnown
  BY DEF Init, PostSession, Created, LinkedIsListed, EntriesAgreeWithJobs, ParentsAreKnown
<1> QED BY <1>1, <1>2, <1>3, <1>4 DEF SessionInv, Init

LEMMA SessionStep == SessionInv /\ [Next]_vars => SessionInv'
<1> SUFFICES ASSUME SessionInv, [Next]_vars PROVE SessionInv'
  OBVIOUS
<1>1. DocsInv /\ ProcsInv /\ BoundsOK
  BY DEF SessionInv
<1>2. SeenOK /\ ShapeOK
  BY <1>1 DEF ProcsInv, ShapeOK
<1>3. DocsInv'
  BY <1>1, <1>2, DocsStep DEF ProcsInv, ClientOK
<1>4. ShapeOK'
  <2>1. CASE UNCHANGED vars
    BY <1>2, <2>1 DEF vars, runVars, ShapeOK, SeenOK
  <2> QED BY <1>2, <2>1, ClientAlone, RunnerAlone DEF Next
<1>5. ProcsInv'
  BY <1>1, <1>4, JobsStep, ClientsStep, RunnersStep DEF ProcsInv
<1>6. BoundsOK'
  BY <1>1, BoundsStep
<1>7. linked' \subseteq JobIds /\ external' \subseteq JobIds /\ LinkedIsListed'
  BY <1>1, LinksStep DEF SessionInv
<1>8. EntriesAgreeWithJobs'
  BY <1>1, EntriesStep DEF SessionInv
<1>9. ParentsAreKnown'
  BY <1>1, ParentsStep DEF SessionInv
<1> QED BY <1>3, <1>5, <1>6, <1>7, <1>8, <1>9 DEF SessionInv

LEMMA SessionInvariant == Spec => []SessionInv
BY SessionInit, SessionStep, PTL DEF Spec

\* The session document, those that processes hold and the processes' own
\* variables keep their types: no save leaves a status outside the schema's enum
\* or an entry without its job (computeSessionOrder, advanceSessionJobStatus).
THEOREM SessionTypeCorrect == Spec => []SessionTypeOK
<1>1. SessionInv => SessionTypeOK
  <2> SUFFICES ASSUME SessionInv PROVE SessionTypeOK
    OBVIOUS
  <2>1. DocTypeOK(session) /\ DocTypeOK(before) /\ \A p \in Procs : DocTypeOK(seen[p])
    BY DEF SessionInv, DocsInv
  <2>2. /\ stale \in 0..MaxStaleReads /\ requests \in 0..MaxRequests
        /\ linked \subseteq JobIds /\ external \subseteq JobIds
    BY DEF SessionInv, BoundsOK
  <2>3. ShapeOK /\ JobsOK /\ \A p \in Clients : ClientOK(p)
    BY DEF SessionInv, ProcsInv
  <2>4. \A p \in Runners : RunnerOK(p)
    BY DEF SessionInv, ProcsInv
  <2>5. at \in [Procs -> Locations] /\ job \in [Clients -> JobIds \cup {None}]
    BY <2>3, <2>4 DEF ShapeOK, RunnerOK, ClientOK
  <2>6. order \in [Runners -> Seq(JobIds)]
    BY <2>3, <2>4 DEF ShapeOK, RunnerOK
  <2>7. pos \in [Runners -> Nat]
    BY <2>3, <2>4 DEF ShapeOK, RunnerOK
  <2>8. target \in [Runners -> EntryStatuses \cup Results \cup {"stopped"}]
    BY <2>3, <2>4 DEF ShapeOK, RunnerOK
  <2> QED BY <2>1, <2>2, <2>3, <2>5, <2>6, <2>7, <2>8 DEF SessionTypeOK, JobsOK, JobStatuses, Rows
<1> QED BY <1>1, SessionInvariant, PTL

\* A job that carries the session's id is listed in it, however many requests add
\* jobs and however many executions save the session meanwhile (addJobToSession).
THEOREM LinkedJobsAreListed == Spec => []LinkedIsListed
<1>1. SessionInv => LinkedIsListed
  BY DEF SessionInv
<1> QED BY <1>1, SessionInvariant, PTL

\* No entry says completed of a job that is not, although entries are written by
\* their position, from copies, by any number of executions
\* (advanceSessionJobStatus): a copy of the current version has its order.
THEOREM EntriesAreTruthful == Spec => []EntriesAgreeWithJobs
<1>1. SessionInv => EntriesAgreeWithJobs
  BY DEF SessionInv
<1> QED BY <1>1, SessionInvariant, PTL

\* No row is committed while the rows it refers to are unmapped or were refused,
\* in whatever order jobs run (resolveSessionReferences, validateImportJob).
THEOREM CommittedParentsAreKnown == Spec => []ParentsAreKnown
<1>1. SessionInv => ParentsAreKnown
  BY DEF SessionInv
<1> QED BY <1>1, SessionInvariant, PTL

-----------------------------------------------------------------------------
(* The kinds of steps.  How a session fares depends on how far each execution   *)
(* has come: it has claimed the session, it works on it, or it follows an order. *)

Following == {"follow", "next", "returned"} \cup InLoop
Working == Following \cup {"sort"}
Claimed == Working \cup {"order", "threw"}

\* What is left alone by a step of p.
SeenRest(p) == \A q \in Procs \ {p} : seen'[q] = seen[q]

\* Steps that write nothing and do not take p into a further stage.
CalmStep(p) ==
    /\ Looks
    /\ p \in Runners =>
         /\ at'[p] \in Claimed => at[p] \in Claimed
         /\ at'[p] \in Working => at[p] \in Working
         /\ at'[p] \in Following => at[p] \in Following
         /\ at[p] \in {"order", "threw"} => at'[p] \in {"order", "threw"}
    /\ at'[p] = "sort" => at[p] = "sort" /\ seen'[p] = seen[p]

ClaimStep(p) ==
    /\ p \in Runners /\ at[p] = "claim" /\ at'[p] = "order"
    /\ Writes(ClaimedDoc)

PushStep(p) ==
    /\ p \in Clients /\ at[p] = "add" /\ at'[p] = "link"
    /\ Writes(PushedDoc(p))

SortStep(p) ==
    /\ p \in Runners => at[p] = "order"
    /\ at'[p] = "sort" /\ Looks
    /\ \E doc \in {session, before} :
         /\ doc = session \/ stale' = stale + 1
         /\ doc.status = "pending" /\ doc.jobs # <<>> /\ ~Circular(doc.jobs)
         /\ seen'[p] = doc

OrderStep(p) ==
    /\ at[p] = "sort" /\ session.v = seen[p].v
    /\ at'[p] = IF p \in Runners THEN "follow" ELSE "idle"
    /\ \E o \in [DOMAIN seen[p].jobs -> JobIds] :
         IsOrder(seen[p].jobs, o) /\ Writes(SortedDoc(o))

EnterStep(p) ==
    /\ p \in Runners /\ at[p] \in {"marking", "catching"} /\ MaySave(p)
    /\ at'[p] \in {"run", "populate", "next"}
    /\ Writes(EnteredDoc(p))

ProcStep(p) ==
    /\ OthersRest(p) /\ SeenRest(p)
    /\ CalmStep(p) \/ ClaimStep(p) \/ PushStep(p) \/ SortStep(p) \/ OrderStep(p) \/ EnterStep(p)

AnyStep ==
    /\ stale' >= stale
    /\ \/ at' = at /\ seen' = seen /\ order' = order /\ pos' = pos /\ target' = target /\ Looks
       \/ \E p \in Procs : ProcStep(p)

LEMMA ReadsStale ==
    ASSUME BoundsOK, NEW doc, Reads(doc)
    PROVE  stale' >= stale /\ (doc = session \/ stale' = stale + 1)
BY MigrationSessionAssumption DEF BoundsOK, Reads

LEMMA StaleGrows ==
    ASSUME BoundsOK, [Next]_vars
    PROVE  stale' >= stale
<1>1. CASE UNCHANGED vars
  BY <1>1 DEF vars, docVars, BoundsOK
<1>2. ASSUME NEW p \in Clients, ClientStep(p) PROVE stale' >= stale
  BY <1>2, ReadsStale
    DEF ClientStep, PostJob, AddJob, PushJob, LinkJob, PostComputeOrder, ComputeOrder, SaveOrder,
        SaveOrderFails, PostPopulate, Populates, Saves, docVars, BoundsOK
<1>3. ASSUME NEW p \in Runners, RunnerStep(p) PROVE stale' >= stale
  BY <1>3, ReadsStale
    DEF RunnerStep, StartSession, Claim, OrderSession, ComputeOrder, SaveOrder, SaveOrderFails,
        FollowOrder, NextJob, ReadEntry, SaveEntry, SaveEntryFails, RunJob, JobThrows, Populate,
        Populates, FinishSession, Saves, docVars, BoundsOK
<1> QED BY <1>1, <1>2, <1>3 DEF Next

LEMMA ComputeOrderStep ==
    ASSUME ShapeOK, BoundsOK, NEW p \in Procs, ComputeOrder(p), at[p] \in {"order", "idle"},
           p \in Runners => at[p] = "order", p \in Clients => at[p] = "idle"
    PROVE  CalmStep(p) \/ SortStep(p)
<1> USE DEF Goes, ShapeOK, SeenOK
<1>1. PICK doc \in {session, before} :
        /\ Reads(doc)
        /\ IF doc.status = "pending" /\ doc.jobs # <<>> /\ ~Circular(doc.jobs)
           THEN Goes(p, "sort") /\ Keeps(p, doc)
           ELSE Goes(p, IF p \in Runners THEN "threw" ELSE "idle") /\ UNCHANGED seen
  BY DEF ComputeOrder
<1>2. Looks /\ (doc = session \/ stale' = stale + 1)
  BY <1>1, ComputeOrderLooks, ReadsStale
<1>3. CASE doc.status = "pending" /\ doc.jobs # <<>> /\ ~Circular(doc.jobs)
  BY <1>1, <1>2, <1>3 DEF SortStep, Keeps
<1>4. CASE ~(doc.status = "pending" /\ doc.jobs # <<>> /\ ~Circular(doc.jobs))
  BY <1>1, <1>2, <1>4 DEF CalmStep, Claimed, Working, Following, InLoop
<1> QED BY <1>3, <1>4

LEMMA ClientKinds ==
    ASSUME ShapeOK, BoundsOK, NEW p \in Clients, ClientStep(p)
    PROVE  ProcStep(p)
<1> USE DEF Goes, ShapeOK, SeenOK
<1>0. OthersRest(p) /\ p \notin Runners
  BY ClientAlone, MigrationSessionAssumption
<1>1. CASE PostJob(p)
  <2>1. PICK j \in JobIds : AddJob(p, j)
    BY <1>1 DEF PostJob
  <2>2. PICK doc \in {session, before} : Reads(doc) /\ (Keeps(p, doc) \/ UNCHANGED seen)
    BY <2>1 DEF AddJob
  <2>3. Looks /\ SeenRest(p)
    BY <2>2, ReadsLooks, ReadsKeepsLooks DEF Keeps, SeenRest
  <2>4. at[p] = "idle" /\ at'[p] \in {"idle", "add"}
    BY <1>1, <2>1 DEF PostJob, Requests, AddJob
  <2> QED BY <1>0, <2>3, <2>4 DEF ProcStep, CalmStep
<1>2. CASE PushJob(p)
  BY <1>0, <1>2, SavesWrites DEF PushJob, Saves, PushStep, ProcStep, SeenRest
<1>3. CASE LinkJob(p)
  BY <1>0, <1>3 DEF LinkJob, docVars, Looks, ProcStep, CalmStep, SeenRest
<1>4. CASE PostComputeOrder(p)
  <2>1. ComputeOrder(p) /\ at[p] = "idle" /\ SeenRest(p)
    BY <1>4 DEF PostComputeOrder, Requests, ComputeOrder, Keeps, SeenRest
  <2> QED BY <1>0, <2>1, ComputeOrderStep DEF ProcStep
<1>5. CASE SaveOrder(p)
  <2>1. PICK o \in [DOMAIN seen[p].jobs -> JobIds] :
          IsOrder(seen[p].jobs, o) /\ Saves(p, SortedDoc(o))
    BY <1>5 DEF SaveOrder
  <2>2. Writes(SortedDoc(o)) /\ SeenRest(p)
    BY <2>1, SavesWrites DEF Saves, SeenRest
  <2> QED BY <1>0, <1>5, <2>1, <2>2 DEF SaveOrder, OrderStep, ProcStep
<1>6. CASE SaveOrderFails(p)
  BY <1>0, <1>6, KeepsLooks DEF SaveOrderFails, Keeps, docVars, ProcStep, CalmStep, SeenRest
<1>7. CASE PostPopulate(p)
  BY <1>0, <1>7, PopulatesLooks DEF PostPopulate, Requests, ProcStep, CalmStep, SeenRest
<1> QED BY <1>1, <1>2, <1>3, <1>4, <1>5, <1>6, <1>7 DEF ClientStep

LEMMA RunnerKinds ==
    ASSUME ShapeOK, BoundsOK, NEW p \in Runners, RunnerStep(p)
    PROVE  ProcStep(p)
<1> USE DEF Goes, ShapeOK, SeenOK, Claimed, Working, Following, InLoop
<1>0. OthersRest(p) /\ p \notin Clients
  BY RunnerAlone, MigrationSessionAssumption
<1>1. CASE StartSession(p)
  BY <1>0, <1>1, ReadsLooks DEF StartSession, ProcStep, CalmStep, SeenRest
<1>2. CASE Claim(p)
  BY <1>0, <1>2, SavesWrites DEF Claim, Saves, ClaimedDoc, ClaimStep, ProcStep, SeenRest
<1>3. CASE OrderSession(p)
  <2>1. ComputeOrder(p) /\ at[p] = "order" /\ SeenRest(p)
    BY <1>3 DEF OrderSession, ComputeOrder, Keeps, SeenRest
  <2> QED BY <1>0, <2>1, ComputeOrderStep DEF ProcStep
<1>4. CASE SaveOrder(p)
  <2>1. PICK o \in [DOMAIN seen[p].jobs -> JobIds] :
          IsOrder(seen[p].jobs, o) /\ Saves(p, SortedDoc(o))
    BY <1>4 DEF SaveOrder
  <2>2. Writes(SortedDoc(o)) /\ SeenRest(p)
    BY <2>1, SavesWrites DEF Saves, SeenRest
  <2> QED BY <1>0, <1>4, <2>1, <2>2 DEF SaveOrder, OrderStep, ProcStep
<1>5. CASE SaveOrderFails(p)
  BY <1>0, <1>5, KeepsLooks DEF SaveOrderFails, Keeps, docVars, ProcStep, CalmStep, SeenRest
<1>6. CASE FollowOrder(p)
  BY <1>0, <1>6, ReadsLooks DEF FollowOrder, ProcStep, CalmStep, SeenRest
<1>7. CASE NextJob(p)
  BY <1>0, <1>7 DEF NextJob, docVars, Looks, ProcStep, CalmStep, SeenRest
<1>8. CASE ReadEntry(p)
  BY <1>0, <1>8, ReadsKeepsLooks DEF ReadEntry, Keeps, ProcStep, CalmStep, SeenRest
<1>9. CASE SaveEntry(p)
  BY <1>0, <1>9, SavesWrites DEF SaveEntry, Saves, EnterStep, ProcStep, SeenRest
<1>10. CASE SaveEntryFails(p)
  BY <1>0, <1>10, KeepsLooks DEF SaveEntryFails, Keeps, docVars, ProcStep, CalmStep, SeenRest
<1>11. CASE RunJob(p) \/ JobThrows(p)
  BY <1>0, <1>11 DEF RunJob, JobThrows, docVars, Looks, ProcStep, CalmStep, SeenRest
<1>12. CASE Populate(p)
  BY <1>0, <1>12, PopulatesLooks DEF Populate, ProcStep, CalmStep, SeenRest
<1>13. CASE FinishSession(p)
  BY <1>0, <1>13, ReadsLooks DEF FinishSession, ProcStep, CalmStep, SeenRest
<1> QED BY <1>1, <1>2, <1>3, <1>4, <1>5, <1>6, <1>7, <1>8, <1>9, <1>10, <1>11, <1>12, <1>13
        DEF RunnerStep

LEMMA NextKinds ==
    ASSUME ShapeOK, BoundsOK, [Next]_vars
    PROVE  AnyStep
<1>1. stale' >= stale
  BY StaleGrows
<1>2. CASE UNCHANGED vars
  BY <1>1, <1>2 DEF vars, docVars, runVars, AnyStep, Looks
<1> QED BY <1>1, <1>2, ClientKinds, RunnerKinds DEF Next, AnyStep

-----------------------------------------------------------------------------
(* The fields of what is written. *)

LEMMA SessionFields ==
    ASSUME DocsInv
    PROVE  /\ session \in Documents /\ before \in Documents
           /\ \A q \in Procs : seen[q] \in Documents
           /\ session.jobs \in Seq(JobIds) /\ session.v \in Nat /\ session.total \in Nat
           /\ session.order \in Seq(JobIds) /\ session.entries \in Seq(EntryStatuses)
           /\ Len(session.entries) = Len(session.order)
BY Fields DEF DocsInv, DocTypeOK

LEMMA ClaimedFields ==
    ASSUME DocsInv
    PROVE  /\ ClaimedDoc.status = "processing" /\ ClaimedDoc.jobs = session.jobs
           /\ ClaimedDoc.order = session.order /\ ClaimedDoc.entries = session.entries
           /\ ClaimedDoc.total = session.total /\ ClaimedDoc.completed = session.completed
           /\ ClaimedDoc.failed = session.failed /\ ClaimedDoc.v = session.v
BY SessionFields DEF ClaimedDoc, Documents

LEMMA PushedFields ==
    ASSUME DocsInv, NEW p \in Clients
    PROVE  /\ PushedDoc(p).status = session.status
           /\ PushedDoc(p).jobs = Append(session.jobs, job[p])
           /\ PushedDoc(p).order = session.order /\ PushedDoc(p).entries = session.entries
           /\ PushedDoc(p).total = Len(seen[p].jobs) + 1
           /\ PushedDoc(p).completed = session.completed
           /\ PushedDoc(p).failed = session.failed /\ PushedDoc(p).v = session.v + 1
BY SessionFields DEF PushedDoc, Documents

LEMMA SortedFields ==
    ASSUME DocsInv, NEW o
    PROVE  /\ SortedDoc(o).status = session.status /\ SortedDoc(o).jobs = session.jobs
           /\ SortedDoc(o).order = o
           /\ SortedDoc(o).entries = [i \in DOMAIN o |-> "pending"]
           /\ SortedDoc(o).total = session.total /\ SortedDoc(o).completed = session.completed
           /\ SortedDoc(o).failed = session.failed /\ SortedDoc(o).v = session.v + 1
BY SessionFields DEF SortedDoc, Documents

LEMMA EnteredFields ==
    ASSUME DocsInv, NEW p \in Runners
    PROVE  /\ session.status # "pending" => EnteredDoc(p).status # "pending"
           /\ EnteredDoc(p).jobs = session.jobs /\ EnteredDoc(p).order = session.order
           /\ EnteredDoc(p).total = session.total /\ EnteredDoc(p).v = session.v
<1> DEFINE new == Advanced(seen[p], Current(p), target[p])
<1>1. session \in Documents /\ seen[p] \in Documents
  BY SessionFields
<1>2. new.status # "pending"
  BY <1>1 DEF Advanced, Documents
<1>3. EnteredDoc(p).status = Path(seen[p].status, new.status, session.status)
  BY <1>1 DEF EnteredDoc, Documents
<1>4. session.status # "pending" => EnteredDoc(p).status # "pending"
  <2> HIDE DEF new
  <2> QED BY <1>2, <1>3 DEF Path
<1> QED BY <1>1, <1>4 DEF EnteredDoc, Documents

-----------------------------------------------------------------------------
(* Only one execution ever follows an order. *)

\* Of all executions, only the one that has claimed the session first can get past
\* the sort, and only from a copy that was read late.
LeadInv ==
    /\ \A p \in Runners : at[p] \in Claimed => session.status # "pending"
    /\ \A p, q \in Runners :
         at[p] \in Claimed /\ at[q] \in Claimed /\ p # q => before.status # "pending"
    /\ \A p, q \in Runners : at[p] \in Working /\ at[q] \in Working => p = q
    /\ \A p \in Runners : at[p] \in Working => stale >= 1

LEMMA ClaimedGrows == \A w : w \in Working => w \in Claimed
BY DEF Claimed

LEMMA LeadCalm ==
    ASSUME LeadInv, BoundsOK, BoundsOK', stale' >= stale, NEW p \in Procs, OthersRest(p),
           session'.status # "pending" \/ session'.status = session.status,
           before'.status # "pending" \/ before'.status = before.status \/ before'.status = session.status,
           p \in Runners =>
             /\ at'[p] \in Claimed => at[p] \in Claimed
             /\ at'[p] \in Working => at[p] \in Working
    PROVE  LeadInv'
<1> USE DEF LeadInv, OthersRest
<1>1. \A q \in Runners : /\ at'[q] \in Claimed => at[q] \in Claimed
                         /\ at'[q] \in Working => at[q] \in Working
  OBVIOUS
<1>2. \A q \in Runners : at'[q] \in Working => stale' >= 1
  <2>1. stale \in Int /\ stale' \in Int
    BY DEF BoundsOK
  <2> QED BY <1>1, <2>1
<1>3. \A q \in Runners : at'[q] \in Claimed => session'.status # "pending"
  BY <1>1
<1>4. \A q, r \in Runners :
         at'[r] \in Claimed /\ at'[q] \in Claimed /\ r # q => before'.status # "pending"
  BY <1>1
<1>5. \A q, r \in Runners : at'[r] \in Working /\ at'[q] \in Working => r = q
  BY <1>1
<1> QED BY <1>2, <1>3, <1>4, <1>5

LEMMA LeadStep ==
    ASSUME LeadInv, DocsInv, BoundsOK, BoundsOK', AnyStep
    PROVE  LeadInv'
<1>1. stale' >= stale
  BY DEF AnyStep
<1>2. CASE at' = at /\ Looks
  <2>1. session' = session /\ before' \in {before, session} /\ stale \in Int /\ stale' \in Int
    BY <1>2 DEF Looks, BoundsOK
  <2> QED BY <1>1, <1>2, <2>1, ClaimedGrows DEF LeadInv
<1>3. ASSUME NEW p \in Procs, ProcStep(p) PROVE LeadInv'
  <2>0. OthersRest(p)
    BY <1>3 DEF ProcStep
  <2>1. CASE CalmStep(p)
    BY <1>1, <2>0, <2>1, LeadCalm DEF CalmStep, Looks
  <2>2. CASE ClaimStep(p)
    <3>1. /\ session'.status = "processing" /\ before' \in {session, session'}
          /\ p \in Runners /\ at[p] = "claim" /\ at'[p] = "order"
      BY <2>2, ClaimedFields DEF ClaimStep, Writes
    <3>2. \A q \in Runners : at'[q] \in Working => at[q] \in Working
      BY <2>0, <3>1 DEF OthersRest, Working, Following, InLoop
    <3>3. \A q \in Runners : at'[q] \in Claimed => q = p \/ at[q] \in Claimed
      BY <2>0 DEF OthersRest
    <3>4. \A q \in Runners : at'[q] \in Claimed /\ q # p => before'.status # "pending"
      BY <3>1, <3>3 DEF LeadInv
    <3>5. \A q \in Runners : at'[q] \in Working => stale' >= 1
      BY <1>1, <3>2 DEF LeadInv, BoundsOK
    <3> QED BY <3>1, <3>2, <3>4, <3>5 DEF LeadInv
  <2>3. CASE PushStep(p)
    <3>1. p \notin Runners
      BY <2>3, MigrationSessionAssumption DEF PushStep
    <3>2. session'.status = session.status /\ before' \in {session, session'}
      BY <2>3, PushedFields DEF PushStep, Writes
    <3> QED BY <1>1, <2>0, <3>1, <3>2, LeadCalm
  <2>4. CASE SortStep(p)
    <3>1. PICK doc \in {session, before} :
             /\ doc = session \/ stale' = stale + 1
             /\ doc.status = "pending"
      BY <2>4 DEF SortStep
    <3>2. session' = session /\ before' \in {before, session}
      BY <2>4 DEF SortStep, Looks
    <3>3. CASE p \notin Runners
      BY <1>1, <2>0, <3>2, <3>3, LeadCalm
    <3>4. CASE p \in Runners
      <4>1. at[p] = "order" /\ at[p] \in Claimed
        BY <2>4, <3>4 DEF SortStep, Claimed
      <4>2. doc = before /\ before.status = "pending" /\ stale' = stale + 1 /\ session.status # "pending"
        BY <3>1, <3>4, <4>1 DEF LeadInv
      <4>3. \A q \in Runners : q # p => at[q] \notin Claimed
        BY <3>4, <4>1, <4>2 DEF LeadInv
      <4>4. \A q \in Runners : q # p => at'[q] \notin Claimed /\ at'[q] \notin Working
        BY <2>0, <4>3, ClaimedGrows DEF OthersRest
      <4>5. stale' >= 1
        BY <4>2 DEF BoundsOK
      <4> QED BY <3>2, <4>2, <4>4, <4>5 DEF LeadInv
    <3> QED BY <3>3, <3>4
  <2>5. CASE OrderStep(p)
    <3>1. session'.status = session.status /\ before' \in {session, session'}
      <4>1. PICK o \in [DOMAIN seen[p].jobs -> JobIds] : Writes(SortedDoc(o))
        BY <2>5 DEF OrderStep
      <4>2. session' = SortedDoc(o) /\ before' \in {session, session'}
        BY <4>1 DEF Writes
      <4> QED BY <4>2, SortedFields
    <3>2. p \in Runners => at[p] \in Working /\ at[p] \in Claimed
      BY <2>5 DEF OrderStep, Working, Claimed
    <3> QED BY <1>1, <2>0, <3>1, <3>2, LeadCalm
  <2>6. CASE EnterStep(p)
    <3>1. at[p] \in Working /\ at[p] \in Claimed /\ p \in Runners
      BY <2>6 DEF EnterStep, Working, Claimed, Following, InLoop
    <3>2. session' = EnteredDoc(p) /\ before' \in {session, session'} /\ session.status # "pending"
      BY <2>6, <3>1 DEF EnterStep, Writes, LeadInv
    <3>3. session'.status # "pending"
      BY <3>1, <3>2, EnteredFields
    <3> QED BY <1>1, <2>0, <3>1, <3>2, <3>3, LeadCalm
  <2> QED BY <1>3, <2>1, <2>2, <2>3, <2>4, <2>5, <2>6 DEF ProcStep
<1> QED BY <1>2, <1>3 DEF AnyStep

\* While a copy of a pending session is about, nothing has been run or recorded.
Fresh ==
    /\ session.completed = 0 /\ session.failed = 0
    /\ \A p \in Runners : at[p] \notin Following

FreshInv ==
    /\ session.status = "pending" \/ before.status = "pending" => Fresh
    /\ \A q \in Procs : at[q] = "sort" /\ seen[q].v = session.v => Fresh

LEMMA FollowingWorks == \A w : w \in Following => w \in Working /\ w \in Claimed /\ w # "sort"
BY DEF Claimed, Working, Following, InLoop

LEMMA FreshKept ==
    ASSUME FreshInv, NEW p \in Procs, OthersRest(p), SeenRest(p),
           p \in Runners /\ at'[p] \in Following => at[p] \in Following,
           session'.completed = session.completed, session'.failed = session.failed,
           session'.status = "pending" => session.status = "pending",
           before'.status = "pending" => session.status = "pending" \/ before.status = "pending",
           at'[p] = "sort" /\ seen'[p].v = session'.v => Fresh,
           \A q \in Procs : at[q] = "sort" /\ seen[q].v = session'.v => session'.v = session.v
    PROVE  FreshInv'
<1>1. Fresh => Fresh'
  BY DEF Fresh, OthersRest
<1>2. ASSUME NEW q \in Procs, at'[q] = "sort", seen'[q].v = session'.v PROVE Fresh
  BY <1>2 DEF OthersRest, SeenRest, FreshInv
<1> QED BY <1>1, <1>2 DEF FreshInv

LEMMA FreshStep ==
    ASSUME FreshInv, LeadInv, DocsInv, AnyStep
    PROVE  FreshInv'
<1>0. /\ session.v \in Nat /\ \A q \in Procs : seen[q].v \in Nat /\ seen[q].v <= session.v
  BY SessionFields, Fields DEF DocsInv, NoNewer
<1>1. CASE at' = at /\ seen' = seen /\ Looks
  BY <1>1 DEF Looks, FreshInv, Fresh
<1>2. ASSUME NEW p \in Procs, ProcStep(p) PROVE FreshInv'
  <2>0. OthersRest(p) /\ SeenRest(p)
    BY <1>2 DEF ProcStep
  <2>1. CASE CalmStep(p)
    <3>1. session' = session /\ before' \in {before, session}
      BY <2>1 DEF CalmStep, Looks
    <3>2. at'[p] = "sort" /\ seen'[p].v = session'.v => Fresh
      BY <2>1, <3>1 DEF CalmStep, FreshInv
    <3> QED BY <2>0, <2>1, <3>1, <3>2, FreshKept DEF CalmStep
  <2>2. CASE ClaimStep(p)
    <3>1. session' = ClaimedDoc /\ before' \in {session, session'} /\ at'[p] = "order"
      BY <2>2 DEF ClaimStep, Writes
    <3>2. "order" \notin Following
      BY DEF Following, InLoop
    <3> QED BY <2>0, <3>1, <3>2, ClaimedFields, FreshKept
  <2>3. CASE PushStep(p)
    <3>1. /\ session' = PushedDoc(p) /\ before' \in {session, session'} /\ at'[p] = "link"
          /\ p \in Clients
      BY <2>3 DEF PushStep, Writes
    <3>2. "link" \notin Following
      BY DEF Following, InLoop
    <3>3. session'.v = session.v + 1
      BY <3>1, PushedFields
    <3>4. \A q \in Procs : seen[q].v # session'.v
      BY <1>0, <3>3
    <3> QED BY <2>0, <3>1, <3>2, <3>4, PushedFields, FreshKept
  <2>4. CASE SortStep(p)
    <3>1. session' = session /\ before' \in {before, session} /\ at'[p] = "sort"
      BY <2>4 DEF SortStep, Looks
    <3>2. Fresh
      BY <2>4 DEF SortStep, FreshInv
    <3>3. "sort" \notin Following
      BY FollowingWorks
    <3> QED BY <2>0, <3>1, <3>2, <3>3, FreshKept
  <2>5. CASE OrderStep(p)
    <3>1. PICK o \in [DOMAIN seen[p].jobs -> JobIds] : Writes(SortedDoc(o))
      BY <2>5 DEF OrderStep
    <3>2. session' = SortedDoc(o) /\ before' \in {session, session'}
      BY <3>1 DEF Writes
    <3>3. session'.v = session.v + 1
      BY <3>2, SortedFields
    <3>4. \A q \in Procs : seen[q].v # session'.v
      BY <1>0, <3>3
    <3>0. at[p] = "sort" /\ at'[p] # "sort"
      BY <2>5 DEF OrderStep
    <3>5. CASE p \notin Runners
      <4>1. /\ session'.completed = session.completed /\ session'.failed = session.failed
            /\ session'.status = session.status
        BY <3>2, SortedFields
      <4>2. before'.status = "pending" => session.status = "pending"
        BY <3>2, <4>1
      <4> QED BY <2>0, <3>0, <3>4, <3>5, <4>1, <4>2, FreshKept
    <3>6. CASE p \in Runners
      <4>1. at[p] \in Claimed /\ at'[p] # "sort"
        BY <3>0 DEF Claimed, Working
      <4>2. session.status # "pending"
        BY <3>6, <4>1 DEF LeadInv
      <4>3. session'.status # "pending" /\ before'.status # "pending"
        <5>1. session'.status = session.status
          BY <3>2, SortedFields
        <5> QED BY <3>2, <4>2, <5>1
      <4>4. \A q \in Procs : ~(at'[q] = "sort" /\ seen'[q].v = session'.v)
        BY <2>0, <3>4, <4>1 DEF OthersRest, SeenRest
      <4> QED BY <4>3, <4>4 DEF FreshInv
    <3> QED BY <3>5, <3>6
  <2>6. CASE EnterStep(p)
    <3>1. at[p] \in Following /\ p \in Runners /\ session.v' = session.v
      BY <2>6, EnteredFields DEF EnterStep, Writes, Following, InLoop
    <3>2. ~Fresh /\ at[p] \in Claimed
      BY <3>1, FollowingWorks DEF Fresh
    <3>3. session.status # "pending" /\ before.status # "pending"
      BY <3>1, <3>2 DEF LeadInv, FreshInv
    <3>4. session'.status # "pending" /\ before'.status # "pending"
      BY <2>6, <3>1, <3>3, EnteredFields DEF EnterStep, Writes
    <3>5. at'[p] # "sort"
      BY <2>6 DEF EnterStep
    <3>6. \A q \in Procs : ~(at'[q] = "sort" /\ seen'[q].v = session'.v)
      BY <2>0, <3>1, <3>2, <3>5 DEF OthersRest, SeenRest, FreshInv
    <3> QED BY <3>4, <3>6 DEF FreshInv
  <2> QED BY <1>2, <2>1, <2>2, <2>3, <2>4, <2>5, <2>6 DEF ProcStep
<1> QED BY <1>1, <1>2 DEF AnyStep

\* An order in which no job comes before one it depends on.
OrderOK(o) ==
    \A i, k \in DOMAIN o : i <= k =>
        EntityOf[o[k]] \notin collectDependencies(EntityOf[o[i]])

SortInv ==
    /\ \A q \in Procs : at[q] = "sort" => seen[q].jobs # <<>> /\ ~Circular(seen[q].jobs)
    /\ OrderOK(session.order)
    /\ \A p \in Runners : at[p] \in Following => session.order # <<>>

LEMMA SortedOrderOK ==
    ASSUME NEW jobs \in Seq(JobIds), NEW o \in [DOMAIN jobs -> JobIds],
           ~Circular(jobs), IsOrder(jobs, o)
    PROVE  OrderOK(o)
<1> SUFFICES ASSUME NEW i \in DOMAIN o, NEW k \in DOMAIN o, i <= k
             PROVE  EntityOf[o[k]] \notin collectDependencies(EntityOf[o[i]])
  BY DEF OrderOK
<1>0. DOMAIN o = DOMAIN jobs /\ DOMAIN jobs \subseteq Nat
  OBVIOUS
<1>1. CASE i < k
  BY <1>1 DEF IsOrder
<1>2. CASE i = k
  <2>1. o[i] \in Listed(jobs)
    BY DEF IsOrder, Listed
  <2>2. EntityOf[o[i]] \in EntitiesIn(jobs)
    BY <2>1 DEF Listed, EntitiesIn
  <2>3. {EntityOf[o[i]]} \in SUBSET EntitiesIn(jobs)
    BY <2>2
  <2>4. collectDependencies(EntityOf[o[i]]) \cap {EntityOf[o[i]]} = {}
    BY <2>3 DEF Circular
  <2> QED BY <1>2, <2>4
<1> QED BY <1>0, <1>1, <1>2

LEMMA SortKept ==
    ASSUME SortInv, NEW p \in Procs, OthersRest(p), SeenRest(p),
           p \in Runners /\ at'[p] \in Following => at[p] \in Following,
           session'.order = session.order,
           at'[p] = "sort" => seen'[p].jobs # <<>> /\ ~Circular(seen'[p].jobs)
    PROVE  SortInv'
<1>1. ASSUME NEW q \in Procs, at'[q] = "sort"
      PROVE  seen'[q].jobs # <<>> /\ ~Circular(seen'[q].jobs)
  BY <1>1 DEF SortInv, OthersRest, SeenRest
<1>2. \A q \in Runners : at'[q] \in Following => session'.order # <<>>
  BY DEF SortInv, OthersRest
<1>3. OrderOK(session'.order)
  BY DEF SortInv
<1> QED BY <1>1, <1>2, <1>3 DEF SortInv, OrderOK, Circular

LEMMA SortStepKept ==
    ASSUME SortInv, DocsInv, AnyStep
    PROVE  SortInv'
<1>1. CASE at' = at /\ seen' = seen /\ Looks
  BY <1>1 DEF Looks, SortInv, OrderOK, Circular
<1>2. ASSUME NEW p \in Procs, ProcStep(p) PROVE SortInv'
  <2>0. OthersRest(p) /\ SeenRest(p)
    BY <1>2 DEF ProcStep
  <2>1. CASE CalmStep(p)
    <3>1. session' = session
      BY <2>1 DEF CalmStep, Looks
    <3>2. at'[p] = "sort" => seen'[p].jobs # <<>> /\ ~Circular(seen'[p].jobs)
      BY <2>1 DEF CalmStep, SortInv
    <3> QED BY <2>0, <2>1, <3>1, <3>2, SortKept DEF CalmStep
  <2>2. CASE ClaimStep(p)
    BY <2>0, <2>2, ClaimedFields, SortKept DEF ClaimStep, Writes, Following, InLoop
  <2>3. CASE PushStep(p)
    BY <2>0, <2>3, PushedFields, SortKept DEF PushStep, Writes, Following, InLoop
  <2>4. CASE SortStep(p)
    BY <2>0, <2>4, SortKept DEF SortStep, Looks, Following, InLoop
  <2>5. CASE OrderStep(p)
    <3>1. PICK o \in [DOMAIN seen[p].jobs -> JobIds] :
            IsOrder(seen[p].jobs, o) /\ Writes(SortedDoc(o))
      BY <2>5 DEF OrderStep
    <3>2. at[p] = "sort" /\ at'[p] # "sort"
      BY <2>5 DEF OrderStep
    <3>3. seen[p].jobs \in Seq(JobIds) /\ seen[p].jobs # <<>> /\ ~Circular(seen[p].jobs)
      BY <3>2, SessionFields, Fields DEF SortInv
    <3>4. session'.order = o
      BY <3>1, SortedFields DEF Writes
    <3>5. OrderOK(o)
      BY <3>1, <3>3, SortedOrderOK
    <3>6. o # <<>>
      BY <3>3
    <3>7. \A q \in Procs : at'[q] = "sort" => at[q] = "sort" /\ seen'[q] = seen[q]
      BY <2>0, <3>2 DEF OthersRest, SeenRest
    <3>8. \A q \in Procs : at'[q] = "sort" => seen'[q].jobs # <<>> /\ ~Circular(seen'[q].jobs)
      BY <3>7 DEF SortInv
    <3> QED BY <3>4, <3>5, <3>6, <3>8 DEF SortInv, OrderOK, Circular
  <2>6. CASE EnterStep(p)
    BY <2>0, <2>6, EnteredFields, SortKept DEF EnterStep, Writes, Following, InLoop
  <2> QED BY <1>2, <2>1, <2>2, <2>3, <2>4, <2>5, <2>6 DEF ProcStep
<1> QED BY <1>1, <1>2 DEF AnyStep

\* No copy has more jobs than the session.
TotalInv ==
    /\ session.total <= Len(session.jobs)
    /\ Len(before.jobs) <= Len(session.jobs)
    /\ \A q \in Procs : Len(seen[q].jobs) <= Len(session.jobs)

LEMMA TotalStep ==
    ASSUME TotalInv, DocsInv, [Next]_vars, SeenOK
    PROVE  TotalInv'
<1>0. /\ \A D \in {session, before} : D.jobs \in Seq(JobIds) /\ Len(D.jobs) \in Nat
      /\ \A q \in Procs : Len(seen[q].jobs) \in Nat
      /\ session.total \in Nat /\ Len(Created.jobs) = 0
  BY SessionFields, Fields DEF Created
<1>1. CASE Looks
  <2>1. session' = session /\ before' \in {before, session}
    BY <1>1 DEF Looks
  <2>2. ASSUME NEW q \in Procs PROVE Len(seen'[q].jobs) <= Len(session.jobs)
    BY <1>0, <1>1 DEF Looks, TotalInv
  <2> QED BY <1>0, <2>1, <2>2 DEF TotalInv
<1>2. ASSUME NEW doc, Writes(doc), Len(doc.jobs) \in Nat,
             Len(doc.jobs) >= Len(session.jobs), doc.total <= Len(doc.jobs)
      PROVE  TotalInv'
  <2>1. session' = doc /\ before' \in {session, doc}
    BY <1>2 DEF Writes
  <2>2. ASSUME NEW q \in Procs PROVE Len(seen'[q].jobs) <= Len(doc.jobs)
    <3>1. Len(seen[q].jobs) <= Len(doc.jobs) /\ Len(Created.jobs) <= Len(doc.jobs)
      BY <1>0, <1>2 DEF TotalInv
    <3> QED BY <1>2, <3>1 DEF Writes
  <2>3. Len(before'.jobs) <= Len(doc.jobs)
    BY <1>0, <1>2, <2>1
  <2> QED BY <1>2, <2>1, <2>2, <2>3 DEF TotalInv
<1>3. CASE Writes(ClaimedDoc)
  BY <1>0, <1>2, <1>3, ClaimedFields DEF TotalInv
<1>4. ASSUME NEW p \in Clients, Writes(PushedDoc(p)) PROVE TotalInv'
  <2>1. /\ PushedDoc(p).jobs = Append(session.jobs, job[p])
        /\ PushedDoc(p).total = Len(seen[p].jobs) + 1
    BY PushedFields
  <2>2. Len(PushedDoc(p).jobs) = Len(session.jobs) + 1
    BY <1>0, <2>1
  <2>3. Len(seen[p].jobs) <= Len(session.jobs)
    BY DEF TotalInv
  <2> QED BY <1>0, <1>2, <1>4, <2>1, <2>2, <2>3
<1>5. ASSUME NEW o, Writes(SortedDoc(o)) PROVE TotalInv'
  <2>1. SortedDoc(o).jobs = session.jobs /\ SortedDoc(o).total = session.total
    BY SortedFields
  <2> QED BY <1>0, <1>2, <1>5, <2>1 DEF TotalInv
<1>6. ASSUME NEW p \in Runners, Writes(EnteredDoc(p)) PROVE TotalInv'
  BY <1>0, <1>2, <1>6, EnteredFields DEF TotalInv
<1> QED BY <1>1, <1>3, <1>4, <1>5, <1>6, NextDocStep DEF DocStep

-----------------------------------------------------------------------------
(* What an execution leaves behind it. *)

\* The entries of jobs that are over.
Final == Done \cup {"failed", "skipped"}
Recorded(doc, j) == \A k \in Places(doc, j) : doc.entries[k] \in Final

Overtaken(p) == \E q \in Runners \ {p} : at[q] \in {"order", "threw"}
NoTwice == \A i, k \in DOMAIN session.order : session.order[i] = session.order[k] => i = k

CountsOf(doc) ==
    /\ doc.completed = Count(doc.entries, Done)
    /\ doc.failed = Count(doc.entries, {"failed", "skipped"})

Looping == Following \ {"follow"}
Undone == InLoop \ {"populate"}
Behind(p) == IF at[p] = "populate" THEN pos[p] ELSE pos[p] - 1

\* What an execution is to save is what the session holds.
CopyOK(p) ==
    at[p] \in {"marking", "catching"} =>
        /\ seen[p].entries = session.entries /\ seen[p].order = session.order
        /\ seen[p].completed = session.completed /\ seen[p].failed = session.failed
        /\ seen[p].status = session.status \/ Overtaken(p)

\* The jobs before the one it is at are recorded.
BehindOK(p) ==
    at[p] \in Looping =>
        /\ order[p] = session.order
        /\ \A i \in DOMAIN order[p] : i <= Behind(p) =>
             Recorded(session, order[p][i]) \/ (at[p] \in Undone /\ order[p][i] = Current(p))
        /\ NoTwice /\ Behind(p) >= Len(order[p]) => session.status \in Done \/ Overtaken(p)

ReadOnceInv ==
    stale <= 1 => CountsOf(session) /\ \A p \in Runners : CopyOK(p) /\ BehindOK(p)

\* Where an execution is before it starts its loop and after it has left it.
TurnOK(p) ==
    /\ at[p] \in {"idle", "claim", "order", "sort", "follow"} => pos[p] = 1
    /\ at[p] = "returned" => pos[p] > Len(order[p])
    /\ at[p] \in Recording => target[p] # "pending"

TurnsInv == \A p \in Runners : TurnOK(p)

LEMMA TurnsStep ==
    ASSUME TurnsInv, ProcsInv, [Next]_vars
    PROVE  TurnsInv'
<1> SUFFICES ASSUME NEW q \in Runners PROVE TurnOK(q)'
  BY DEF TurnsInv
<1>1. TurnOK(q) /\ ShapeOK /\ RunnerOK(q) /\ q \in Procs
  BY DEF TurnsInv, ProcsInv
<1>2. ASSUME at'[q] = at[q], order'[q] = order[q], pos'[q] = pos[q], target'[q] = target[q]
      PROVE  TurnOK(q)'
  BY <1>1, <1>2 DEF TurnOK
<1>3. CASE UNCHANGED vars
  BY <1>2, <1>3 DEF vars, runVars
<1>4. ASSUME NEW p \in Clients, ClientStep(p) PROVE TurnOK(q)'
  <2>1. p # q
    BY MigrationSessionAssumption
  <2> QED BY <1>1, <1>2, <1>4, <2>1, ClientAlone DEF OthersRest
<1>5. ASSUME NEW p \in Runners, RunnerStep(p), p # q PROVE TurnOK(q)'
  BY <1>1, <1>2, <1>5, RunnerAlone DEF OthersRest
<1>6. ASSUME RunnerStep(q) PROVE TurnOK(q)'
  <2> USE DEF Goes, ShapeOK, TurnOK, Recording
  <2>1. CASE StartSession(q) \/ Claim(q) \/ SaveOrder(q) \/ SaveOrderFails(q)
    BY <1>1, <2>1 DEF StartSession, Claim, SaveOrder, SaveOrderFails, runVars
  <2>2. CASE OrderSession(q)
    BY <1>1, <2>2 DEF OrderSession, ComputeOrder, runVars
  <2>3. CASE FollowOrder(q)
    BY <1>1, <2>3 DEF FollowOrder
  <2>4. CASE NextJob(q)
    BY <1>1, <2>4 DEF NextJob
  <2>5. CASE ReadEntry(q)
    BY <1>1, <2>5 DEF ReadEntry, runVars
  <2>6. CASE SaveEntry(q)
    BY <1>1, <2>6 DEF SaveEntry
  <2>7. CASE SaveEntryFails(q)
    BY <1>1, <2>7 DEF SaveEntryFails
  <2>8. CASE RunJob(q)
    <3>1. PICK r \in Results \cup {"stopped"} :
            /\ \/ r \in Results
               \/ r = status[Current(q)] /\ r \notin Open
            /\ target' = [target EXCEPT ![q] = r]
      BY <2>8 DEF RunJob
    <3>2. r # "pending"
      BY <3>1 DEF Results, Done
    <3> QED BY <1>1, <2>8, <3>1, <3>2 DEF RunJob
  <2>9. CASE JobThrows(q)
    BY <1>1, <2>9 DEF JobThrows
  <2>10. CASE Populate(q)
    BY <1>1, <2>10 DEF Populate
  <2>11. CASE FinishSession(q)
    <3>1. pos'[q] > Len(order'[q]) /\ at'[q] = "returned"
      BY <1>1, <2>11 DEF FinishSession, runVars
    <3> QED BY <1>1, <3>1
  <2> QED BY <1>6, <2>1, <2>2, <2>3, <2>4, <2>5, <2>6, <2>7, <2>8, <2>9, <2>10, <2>11 DEF RunnerStep
<1> QED BY <1>3, <1>4, <1>5, <1>6 DEF Next

-----------------------------------------------------------------------------
(* The steps of the others. *)

\* The steps of the others leave an execution's entries and their counts alone.
LEMMA OthersKeepEntries ==
    ASSUME LeadInv, FreshInv, DocsInv, NEW q \in Runners, at[q] \in Following,
           NEW p \in Procs, p # q, ProcStep(p)
    PROVE  /\ session'.entries = session.entries /\ session'.order = session.order
           /\ session'.completed = session.completed /\ session'.failed = session.failed
           /\ session'.status = session.status \/ Overtaken(q)'
<1>1. CASE CalmStep(p) \/ SortStep(p)
  BY <1>1 DEF CalmStep, SortStep, Looks
<1>2. CASE ClaimStep(p)
  <2>1. Overtaken(q)'
    BY <1>2 DEF ClaimStep, Overtaken
  <2> QED BY <1>2, <2>1, ClaimedFields DEF ClaimStep, Writes
<1>3. CASE PushStep(p)
  BY <1>3, PushedFields DEF PushStep, Writes
<1>4. CASE OrderStep(p)
  BY <1>4 DEF OrderStep, FreshInv, Fresh
<1>5. CASE EnterStep(p)
  <2>1. p \in Runners /\ at[p] \in Following
    BY <1>5 DEF EnterStep, Following, InLoop
  <2> QED BY <2>1, FollowingWorks DEF LeadInv
<1> QED BY <1>1, <1>2, <1>3, <1>4, <1>5 DEF ProcStep

\* An execution that has been overtaken stays so: the other one finds the session
\* processing.
LEMMA OvertakenStays ==
    ASSUME LeadInv', DocsInv, NEW q \in Runners, at'[q] \in Working, NEW p \in Procs, ProcStep(p),
           Overtaken(q)
    PROVE  Overtaken(q)'
<1>1. PICK r \in Runners \ {q} : at[r] \in {"order", "threw"}
  BY DEF Overtaken
<1>2. CASE r # p
  BY <1>1, <1>2 DEF ProcStep, OthersRest, Overtaken
<1>3. CASE r = p
  <2>1. at'[r] # "sort"
    BY <1>1 DEF LeadInv, Working
  <2>2. at'[r] \in {"order", "threw"}
    BY <1>1, <1>3, <2>1, MigrationSessionAssumption
      DEF ProcStep, CalmStep, ClaimStep, PushStep, SortStep, OrderStep, EnterStep
  <2> QED BY <1>1, <2>2 DEF Overtaken
<1> QED BY <1>2, <1>3

\* Places and what is recorded at them depend on the order and the entries alone.
LEMMA SameRecord ==
    ASSUME session'.entries = session.entries, session'.order = session.order
    PROVE  (\A j : Recorded(session', j) <=> Recorded(session, j)) /\ (NoTwice' <=> NoTwice)
BY DEF Recorded, Places, NoTwice

LEMMA OthersKeepRun ==
    ASSUME LeadInv, LeadInv', FreshInv, DocsInv, NEW q \in Runners, CopyOK(q), BehindOK(q),
           NEW p \in Procs, p # q, ProcStep(p)
    PROVE  CopyOK(q)' /\ BehindOK(q)'
<1>1. /\ at'[q] = at[q] /\ seen'[q] = seen[q] /\ order'[q] = order[q] /\ pos'[q] = pos[q]
      /\ Behind(q)' = Behind(q) /\ Current(q)' = Current(q)
  BY DEF ProcStep, OthersRest, SeenRest, Behind, Current
<1>2. CASE at[q] \notin Following
  BY <1>1, <1>2 DEF CopyOK, BehindOK, Looping, Following, InLoop
<1>3. CASE at[q] \in Following
  <2>1. /\ session'.entries = session.entries /\ session'.order = session.order
        /\ session'.completed = session.completed /\ session'.failed = session.failed
        /\ session'.status = session.status \/ Overtaken(q)'
    BY <1>3, OthersKeepEntries
  <2>2. Overtaken(q) => Overtaken(q)'
    BY <1>1, <1>3, FollowingWorks, OvertakenStays
  <2>3. CopyOK(q)'
    BY <1>1, <2>1, <2>2 DEF CopyOK
  <2>4. (\A j : Recorded(session', j) <=> Recorded(session, j)) /\ (NoTwice' <=> NoTwice)
    BY <2>1, SameRecord
  <2>5. BehindOK(q)'
    BY <1>1, <2>1, <2>2, <2>4 DEF BehindOK
  <2> QED BY <2>3, <2>5
<1> QED BY <1>2, <1>3

-----------------------------------------------------------------------------
(* The save of an entry. *)

LEMMA CountPending ==
    ASSUME NEW o
    PROVE  /\ Count([i \in DOMAIN o |-> "pending"], Done) = 0
           /\ Count([i \in DOMAIN o |-> "pending"], {"failed", "skipped"}) = 0
<1> DEFINE entries == [i \in DOMAIN o |-> "pending"]
<1>1. /\ {i \in DOMAIN entries : entries[i] \in Done} = {}
      /\ {i \in DOMAIN entries : entries[i] \in {"failed", "skipped"}} = {}
  BY DEF Done
<1> QED BY <1>1, FS_EmptySet, Zenon DEF Count

\* With every entry final, the counts add up.
LEMMA CountAll ==
    ASSUME NEW entries \in Seq(EntryStatuses), \A i \in DOMAIN entries : entries[i] \in Final
    PROVE  Count(entries, Done) + Count(entries, {"failed", "skipped"}) = Len(entries)
<1> DEFINE S == {i \in DOMAIN entries : entries[i] \in Done}
           T == {i \in DOMAIN entries : entries[i] \in {"failed", "skipped"}}
<1>1. DOMAIN entries = 1..Len(entries) /\ Len(entries) \in Nat
  OBVIOUS
<1>2. IsFiniteSet(DOMAIN entries) /\ Cardinality(DOMAIN entries) = Len(entries)
  <2>1. IsFiniteSet(1..Len(entries)) /\ Cardinality(1..Len(entries)) = Len(entries)
    BY <1>1, FS_Interval
  <2> QED BY <1>1, <2>1
<1>3. S \cup T = DOMAIN entries /\ S \cap T = {}
  BY DEF Final, Done
<1>4. S \subseteq DOMAIN entries /\ T \subseteq DOMAIN entries
  OBVIOUS
<1>5. Count(entries, Done) = Cardinality(S) /\ Count(entries, {"failed", "skipped"}) = Cardinality(T)
  BY DEF Count
<1> HIDE DEF S, T
<1>6. IsFiniteSet(S) /\ IsFiniteSet(T)
  BY <1>2, <1>4, FS_Subset
<1>7. Cardinality(S \cup T) = Cardinality(S) + Cardinality(T) - Cardinality(S \cap T)
  BY <1>6, FS_Union
<1>8. Cardinality(S \cap T) = 0
  BY <1>3, FS_EmptySet
<1>9. Cardinality(S \cup T) = Len(entries)
  BY <1>2, <1>3
<1>10. Cardinality(S) \in Nat /\ Cardinality(T) \in Nat
  BY <1>6, FS_CardinalityType
<1> QED BY <1>1, <1>5, <1>7, <1>8, <1>9, <1>10

\* What is saved is what advanceSessionJobStatus has computed, unless another
\* execution has claimed the session meanwhile.
LEMMA EnteredCopy ==
    ASSUME DocsInv, NEW p \in Runners, at[p] \in {"marking", "catching"}, CopyOK(p)
    PROVE  LET new == EnteredDoc(p) IN
           /\ new.entries = [i \in DOMAIN session.entries |->
                               IF i \in Places(session, Current(p)) THEN target[p]
                               ELSE session.entries[i]]
           /\ CountsOf(new)
           /\ \/ Overtaken(p)
              \/ Count(new.entries, Done) + Count(new.entries, {"failed", "skipped"})
                   = Len(new.entries) => new.status \in Done
<1> DEFINE doc == seen[p]
           entries == [i \in DOMAIN doc.entries |->
                         IF i \in Places(doc, Current(p)) THEN target[p] ELSE doc.entries[i]]
           new == Advanced(doc, Current(p), target[p])
<1>1. session \in Documents /\ doc \in Documents
  BY SessionFields
<1>2. doc.entries = session.entries /\ doc.order = session.order
        /\ doc.completed = session.completed /\ doc.failed = session.failed
        /\ (doc.status = session.status \/ Overtaken(p))
  BY DEF CopyOK
<1>3. Places(doc, Current(p)) = Places(session, Current(p))
  BY <1>2 DEF Places
<1>4. new.entries = entries /\ new.completed = Count(entries, Done)
        /\ new.failed = Count(entries, {"failed", "skipped"})
        /\ (Count(entries, Done) + Count(entries, {"failed", "skipped"}) = Len(entries)
              => new.status \in Done)
  <2> DEFINE c == Count(entries, Done)
             f == Count(entries, {"failed", "skipped"})
             st == IF c + f = Len(entries)
                   THEN IF f > 0 THEN "completed_with_errors" ELSE "completed"
                   ELSE IF target[p] = "failed" THEN "completed_with_errors" ELSE "processing"
  <2>1. new = [doc EXCEPT !.entries = entries, !.completed = c, !.failed = f, !.status = st]
    BY DEF Advanced
  <2>2. c + f = Len(entries) => st \in Done
    BY DEF Done
  <2>3. c = Count(entries, Done) /\ f = Count(entries, {"failed", "skipped"})
    OBVIOUS
  <2> HIDE DEF c, f, st, entries, new
  <2> QED BY <1>1, <2>1, <2>2, <2>3 DEF Documents
<1>5. EnteredDoc(p) =
        [session EXCEPT
           !.entries = IF new.entries = doc.entries THEN session.entries
                       ELSE [i \in DOMAIN session.entries |->
                               Path(doc.entries[i], new.entries[i], session.entries[i])],
           !.completed = Path(doc.completed, new.completed, session.completed),
           !.failed = Path(doc.failed, new.failed, session.failed),
           !.status = Path(doc.status, new.status, session.status)]
  BY <1>1 DEF EnteredDoc, Documents
<1>6. \A i \in DOMAIN session.entries :
        Path(doc.entries[i], entries[i], session.entries[i]) = entries[i]
  BY <1>2 DEF Path
<1>7. [i \in DOMAIN session.entries |->
         Path(doc.entries[i], entries[i], session.entries[i])] = entries
  BY <1>2, <1>6
<1>8. EnteredDoc(p).entries = entries
  <2>1. EnteredDoc(p).entries =
          IF new.entries = doc.entries THEN session.entries
          ELSE [i \in DOMAIN session.entries |->
                  Path(doc.entries[i], new.entries[i], session.entries[i])]
    BY <1>1, <1>5 DEF Documents
  <2> HIDE DEF entries, new
  <2> QED BY <1>2, <1>4, <1>7, <2>1
<1>9. /\ EnteredDoc(p).completed = Path(doc.completed, new.completed, session.completed)
      /\ EnteredDoc(p).failed = Path(doc.failed, new.failed, session.failed)
      /\ EnteredDoc(p).status = Path(doc.status, new.status, session.status)
  <2> HIDE DEF new
  <2> QED BY <1>1, <1>5 DEF Documents
<1>10. entries = [i \in DOMAIN session.entries |->
                    IF i \in Places(session, Current(p)) THEN target[p] ELSE session.entries[i]]
  BY <1>2, <1>3
<1> HIDE DEF entries, new
<1>11. CountsOf(EnteredDoc(p))
  BY <1>2, <1>4, <1>8, <1>9 DEF CountsOf, Path
<1>12. Overtaken(p) \/ EnteredDoc(p).status = new.status
  BY <1>2, <1>9 DEF Path
<1>13. \/ Overtaken(p)
       \/ Count(EnteredDoc(p).entries, Done) + Count(EnteredDoc(p).entries, {"failed", "skipped"})
            = Len(EnteredDoc(p).entries) => EnteredDoc(p).status \in Done
  BY <1>4, <1>8, <1>12
<1> QED BY <1>8, <1>10, <1>11, <1>13

\* When no job is listed twice, each has the entry at its own position.
LEMMA AllRecorded ==
    ASSUME DocsInv, NoTwice, \A i \in DOMAIN session.order : Recorded(session, session.order[i])
    PROVE  \A i \in DOMAIN session.entries : session.entries[i] \in Final
<1> SUFFICES ASSUME NEW i \in DOMAIN session.entries PROVE session.entries[i] \in Final
  OBVIOUS
<1>1. DOMAIN session.entries = DOMAIN session.order /\ DOMAIN session.order = 1..Len(session.order)
        /\ Len(session.order) \in Nat
  BY SessionFields
<1>2. \A k \in 1..(i - 1) : k \in DOMAIN session.order /\ k # i
  BY <1>1
<1>3. i \in Places(session, session.order[i])
  BY <1>1, <1>2 DEF Places, NoTwice
<1> QED BY <1>1, <1>3 DEF Recorded

-----------------------------------------------------------------------------
(* An execution's own steps. *)

\* While it works, no read of an execution is late again.
LEMMA WorksOnTime ==
    ASSUME LeadInv, BoundsOK, BoundsOK', stale' <= 1, NEW p \in Runners, at[p] \in Working,
           NEW doc, Reads(doc)
    PROVE  doc = session
BY ReadsStale DEF LeadInv, BoundsOK

\* A step that leaves the session and the place in the order alone.
LEMMA RunKept ==
    ASSUME NEW p \in Runners, BehindOK(p), at[p] \in Looping, session' = session,
           order'[p] = order[p], pos'[p] = pos[p], Behind(p)' = Behind(p),
           at[p] \in Undone => at'[p] \in Undone,
           Overtaken(p) => Overtaken(p)'
    PROVE  BehindOK(p)'
<1>1. (\A j : Recorded(session', j) <=> Recorded(session, j)) /\ (NoTwice' <=> NoTwice)
  BY SameRecord
<1>2. Current(p)' = Current(p)
  BY DEF Current
<1> QED BY <1>1, <1>2 DEF BehindOK

\* The place of an execution at the entries it has saved.
LEMMA SavedRun ==
    ASSUME DocsInv, DocsInv', NEW p \in Runners, RunnerOK(p), at[p] \in {"marking", "catching"},
           TurnOK(p), CopyOK(p), BehindOK(p), SaveEntry(p), ShapeOK,
           Overtaken(p) => Overtaken(p)'
    PROVE  CountsOf(session') /\ BehindOK(p)'
<1> DEFINE new == EnteredDoc(p)
           j == Current(p)
<1>1. session' = new /\ order'[p] = order[p] /\ MaySave(p)
  BY DEF SaveEntry, Saves
<1>2. /\ new.entries = [i \in DOMAIN session.entries |->
                          IF i \in Places(session, j) THEN target[p] ELSE session.entries[i]]
      /\ CountsOf(new)
      /\ \/ Overtaken(p)
         \/ Count(new.entries, Done) + Count(new.entries, {"failed", "skipped"})
              = Len(new.entries) => new.status \in Done
  BY EnteredCopy
<1>3. new.order = session.order
  BY EnteredFields
<1> HIDE DEF new
<1>4. at[p] \in Looping /\ at[p] \in Undone /\ order[p] = session.order
        /\ Behind(p) = pos[p] - 1 /\ pos[p] \in 1..Len(order[p]) /\ order[p] \in Seq(JobIds)
  BY DEF Looping, Following, InLoop, Undone, BehindOK, RunnerOK, Behind
<1>5. Places(new, j) = Places(session, j) /\ \A i : Places(new, i) = Places(session, i)
  BY <1>3 DEF Places
<1>6. DOMAIN session.entries = DOMAIN session.order
  BY SessionFields
<1>7. ASSUME NEW i, i # j, Recorded(session, i) PROVE Recorded(session', i)
  <2>1. \A k \in Places(session, i) : k \notin Places(session, j) /\ k \in DOMAIN session.entries
    BY <1>6, <1>7 DEF Places
  <2>2. \A k \in Places(session, i) : new.entries[k] = session.entries[k]
    BY <1>2, <2>1
  <2> QED BY <1>1, <1>5, <1>7, <2>2 DEF Recorded
<1>8. target[p] \in Final => Recorded(session', j)
  <2>1. \A k \in Places(session, j) : k \in DOMAIN session.entries
    BY <1>6 DEF Places
  <2>2. \A k \in Places(session, j) : new.entries[k] = target[p]
    BY <1>2, <2>1
  <2> QED BY <1>1, <1>5, <2>2 DEF Recorded
<1>9. target[p] # "processing" => Recorded(session', j)
  <2>1. CASE Places(session, j) = {}
    BY <1>1, <1>5, <2>1 DEF Recorded
  <2>2. CASE Places(session, j) # {}
    <3>1. Places(seen[p], j) # {}
      BY <2>2 DEF CopyOK, Places
    <3>2. target[p] \in EntryStatuses /\ target[p] # "pending"
      BY <1>1, <3>1 DEF MaySave, TurnOK, Recording
    <3> QED BY <1>8, <3>2 DEF EntryStatuses, Final
  <2> QED BY <2>1, <2>2
<1>10. Current(p)' = order[p][pos'[p]]
  BY <1>1 DEF Current
<1>11. \A i \in DOMAIN order[p] : i <= pos[p] => order[p][i] = j \/ Recorded(session', order[p][i])
  <2>1. \A i \in DOMAIN order[p] : i <= pos[p] => i <= Behind(p) \/ i = pos[p]
    BY <1>4
  <2> QED BY <1>4, <1>7, <2>1 DEF BehindOK, Current
<1>12. pos' = [pos EXCEPT ![p] = pos'[p]] /\ at' = [at EXCEPT ![p] = at'[p]]
  BY DEF SaveEntry, Goes, ShapeOK
<1>13. session'.order = session.order /\ (NoTwice' <=> NoTwice)
  BY <1>1, <1>3 DEF NoTwice
<1>14. CASE target[p] = "processing"
  <2>1. at'[p] = "run" /\ pos'[p] = pos[p]
    BY <1>14 DEF SaveEntry, Goes, ShapeOK
  <2>2. Behind(p)' = pos[p] - 1 /\ at'[p] \in Undone /\ Current(p)' = j
    BY <1>10, <2>1 DEF Behind, Undone, InLoop, Current
  <2>3. \A i \in DOMAIN order[p] : i <= pos[p] - 1 => i <= pos[p]
    BY <1>4
  <2>4. ~(pos[p] - 1 >= Len(order[p]))
    BY <1>4
  <2> QED BY <1>1, <1>2, <1>4, <1>11, <1>13, <2>2, <2>3, <2>4 DEF BehindOK
<1>15. CASE target[p] # "processing"
  <2>1. \/ at'[p] = "populate" /\ pos'[p] = pos[p]
        \/ at'[p] = "next" /\ pos'[p] = pos[p] + 1
    BY <1>15 DEF SaveEntry, Goes, ShapeOK
  <2>2. Behind(p)' = pos[p]
    BY <1>4, <2>1 DEF Behind
  <2>3. \A i \in DOMAIN order[p] : i <= pos[p] => Recorded(session', order[p][i])
    BY <1>9, <1>11, <1>15
  <2>4. ASSUME NoTwice', pos[p] >= Len(order[p])
        PROVE  session'.status \in Done \/ Overtaken(p)'
    <3>1. \A i \in DOMAIN session'.order : Recorded(session', session'.order[i])
      <4>1. \A i \in DOMAIN order[p] : i <= pos[p]
        BY <1>4, <2>4
      <4> QED BY <1>4, <1>13, <2>3, <4>1
    <3>2. \A i \in DOMAIN session'.entries : session'.entries[i] \in Final
      <4>1. \A i \in DOMAIN session'.entries : i \in Places(session', session'.order[i])
        <5> SUFFICES ASSUME NEW i \in DOMAIN session'.entries
                     PROVE  i \in Places(session', session'.order[i])
          OBVIOUS
        <5>1. DOMAIN session'.entries = DOMAIN session'.order
                /\ DOMAIN session'.order = 1..Len(session'.order) /\ Len(session'.order) \in Nat
          BY Fields DEF DocsInv, DocTypeOK
        <5>2. \A k \in 1..(i - 1) : k \in DOMAIN session'.order /\ k # i
          BY <5>1
        <5> QED BY <2>4, <5>1, <5>2 DEF Places, NoTwice
      <4>2. \A i \in DOMAIN session'.entries : i \in DOMAIN session'.order
        BY <4>1 DEF Places
      <4> QED BY <3>1, <4>1, <4>2 DEF Recorded
    <3>3. new.entries \in Seq(EntryStatuses)
      BY <1>1, Fields DEF DocsInv, DocTypeOK
    <3>4. Count(new.entries, Done) + Count(new.entries, {"failed", "skipped"}) = Len(new.entries)
      BY <1>1, <3>2, <3>3, CountAll
    <3> QED BY <1>1, <1>2, <3>4
  <2> QED BY <1>1, <1>2, <1>4, <1>13, <2>2, <2>3, <2>4 DEF BehindOK
<1> QED BY <1>14, <1>15

LEMMA OwnRun ==
    ASSUME LeadInv, LeadInv', SortInv, DocsInv, DocsInv', BoundsOK, BoundsOK', ProcsInv,
           TurnsInv, stale' <= 1,
           NEW q \in Runners, CopyOK(q), BehindOK(q), RunnerStep(q), ProcStep(q)
    PROVE  CopyOK(q)' /\ BehindOK(q)'
<1>1. ShapeOK /\ RunnerOK(q) /\ TurnOK(q) /\ q \in Procs
  BY DEF ProcsInv, TurnsInv
<1>2. at'[q] \in Working /\ Overtaken(q) => Overtaken(q)'
  BY OvertakenStays
<1>3. at'[q] \in Following => at'[q] \in Working
  BY FollowingWorks
<1>4. CASE at'[q] \notin Looping
  BY <1>4 DEF CopyOK, BehindOK, Looping, Following, InLoop
<1>5. at'[q] \in Looping /\ Overtaken(q) => Overtaken(q)'
  BY <1>2, <1>3 DEF Looping
<1> USE DEF Goes, ShapeOK
<1>6. CASE at'[q] \in Looping /\ (StartSession(q) \/ Claim(q) \/ OrderSession(q) \/ SaveOrder(q)
                                    \/ SaveOrderFails(q))
  BY <1>1, <1>6 DEF StartSession, Claim, OrderSession, ComputeOrder, SaveOrder, SaveOrderFails,
                    Looping, Following, InLoop
<1>7. CASE FollowOrder(q)
  <2>1. PICK doc \in {session, before} :
          Reads(doc) /\ order' = [order EXCEPT ![q] = doc.order]
    BY <1>7 DEF FollowOrder
  <2>2. at[q] = "follow" /\ at'[q] = "next" /\ pos'[q] = 1
    BY <1>1, <1>7 DEF FollowOrder, TurnOK
  <2>3. at[q] \in Working /\ at[q] \in Following
    BY <2>2 DEF Working, Following
  <2>4. doc = session /\ session' = session
    BY <2>1, <2>3, WorksOnTime DEF Reads
  <2>5. order'[q] = session'.order /\ session.order # <<>> /\ session.order \in Seq(JobIds)
    BY <1>1, <2>1, <2>3, <2>4, SessionFields DEF SortInv
  <2>6. Behind(q)' = 0 /\ Len(order'[q]) > 0
    <3>1. Len(session.order) \in Nat /\ Len(session.order) # 0
      BY <2>5
    <3> QED BY <2>2, <2>4, <2>5, <3>1 DEF Behind
  <2>7. \A i \in DOMAIN order'[q] : ~(i <= 0)
    BY <2>4, <2>5
  <2>8. BehindOK(q)'
    BY <2>5, <2>6, <2>7 DEF BehindOK
  <2> QED BY <2>2, <2>8 DEF CopyOK
<1>8. CASE NextJob(q)
  <2>1. /\ at[q] = "next" /\ at'[q] \in {"mark", "catch"} /\ session' = session
        /\ order' = order /\ pos' = pos
    BY <1>1, <1>8 DEF NextJob, docVars
  <2>2. Behind(q)' = Behind(q) /\ at[q] \in Looping /\ at[q] \notin Undone /\ at'[q] \in Looping
    BY <2>1 DEF Behind, Looping, Following, InLoop, Undone
  <2> QED BY <1>5, <2>1, <2>2, RunKept DEF CopyOK
<1>9. CASE ReadEntry(q)
  <2>1. PICK doc \in {session, before} : Reads(doc) /\ Keeps(q, doc)
    BY <1>9 DEF ReadEntry
  <2>2. /\ at[q] \in {"mark", "catch"} /\ at'[q] \in {"marking", "catching"}
        /\ order' = order /\ pos' = pos
    BY <1>1, <1>9 DEF ReadEntry, runVars
  <2>3. at[q] \in Working /\ at[q] \in Looping /\ at'[q] \in Undone /\ at'[q] \in Looping
    BY <2>2 DEF Working, Looping, Following, InLoop, Undone
  <2>4. doc = session /\ session' = session
    BY <2>1, <2>3, WorksOnTime DEF Reads
  <2>5. seen'[q] = session'
    BY <1>1, <2>1, <2>4 DEF Keeps, SeenOK
  <2>6. Behind(q)' = Behind(q)
    BY <2>2 DEF Behind
  <2> QED BY <1>5, <2>2, <2>3, <2>4, <2>5, <2>6, RunKept DEF CopyOK
<1>10. CASE SaveEntry(q)
  <2>1. at[q] \in {"marking", "catching"} /\ at'[q] \in {"run", "populate", "next"}
    BY <1>1, <1>10 DEF SaveEntry
  <2>2. at'[q] \in Looping
    BY <2>1 DEF Looping, Following, InLoop
  <2>3. BehindOK(q)'
    BY <1>1, <1>5, <1>10, <2>1, <2>2, SavedRun
  <2> QED BY <2>1, <2>3 DEF CopyOK
<1>11. CASE SaveEntryFails(q)
  <2>1. /\ at[q] \in {"marking", "catching"} /\ at'[q] \in {"catch", "threw"} /\ session' = session
        /\ order' = order /\ pos' = pos
    BY <1>1, <1>11 DEF SaveEntryFails, docVars
  <2>2. CASE at'[q] = "threw"
    BY <1>4, <2>2 DEF Looping, Following, InLoop
  <2>3. CASE at'[q] = "catch"
    <3>1. Behind(q)' = Behind(q) /\ at[q] \in Looping /\ at'[q] \in Undone /\ at'[q] \in Looping
      BY <2>1, <2>3 DEF Behind, Looping, Following, InLoop, Undone
    <3> QED BY <1>5, <2>1, <2>3, <3>1, RunKept DEF CopyOK
  <2> QED BY <2>1, <2>2, <2>3
<1>12. CASE RunJob(q) \/ JobThrows(q)
  <2>1. /\ at[q] = "run" /\ at'[q] \in {"mark", "catch"} /\ session' = session
        /\ order' = order /\ pos' = pos
    BY <1>1, <1>12 DEF RunJob, JobThrows, docVars
  <2>2. Behind(q)' = Behind(q) /\ at[q] \in Looping /\ at'[q] \in Undone /\ at'[q] \in Looping
    BY <2>1 DEF Behind, Looping, Following, InLoop, Undone
  <2> QED BY <1>5, <2>1, <2>2, RunKept DEF CopyOK
<1>13. CASE Populate(q)
  <2>1. /\ at[q] = "populate" /\ at'[q] = "next" /\ session' = session
        /\ order' = order /\ pos'[q] = pos[q] + 1 /\ pos[q] \in Nat
    BY <1>1, <1>13 DEF Populate, Populates, Reads, RunnerOK
  <2>2. Behind(q)' = Behind(q) /\ at[q] \in Looping /\ at[q] \notin Undone /\ at'[q] \in Looping
    BY <2>1 DEF Behind, Looping, Following, InLoop, Undone
  <2>3. (\A j : Recorded(session', j) <=> Recorded(session, j)) /\ (NoTwice' <=> NoTwice)
    BY <2>1, SameRecord
  <2>4. BehindOK(q)'
    BY <1>5, <2>1, <2>2, <2>3 DEF BehindOK
  <2> QED BY <2>1, <2>4 DEF CopyOK
<1>14. CASE FinishSession(q)
  <2>1. /\ at[q] = "next" /\ at'[q] = "returned" /\ session' = session
        /\ order' = order /\ pos' = pos
    BY <1>1, <1>14 DEF FinishSession, Reads, runVars
  <2>2. Behind(q)' = Behind(q) /\ at[q] \in Looping /\ at[q] \notin Undone /\ at'[q] \in Looping
    BY <2>1 DEF Behind, Looping, Following, InLoop, Undone
  <2> QED BY <1>5, <2>1, <2>2, RunKept DEF CopyOK
<1> QED BY <1>4, <1>6, <1>7, <1>8, <1>9, <1>10, <1>11, <1>12, <1>13, <1>14 DEF RunnerStep

LEMMA CountsStep ==
    ASSUME LeadInv, FreshInv, DocsInv, CountsOf(session), NEW p \in Procs, ProcStep(p),
           \A q \in Runners : CopyOK(q)
    PROVE  CountsOf(session')
<1>1. ASSUME session'.entries = session.entries, session'.completed = session.completed,
             session'.failed = session.failed
      PROVE  CountsOf(session')
  BY <1>1 DEF CountsOf
<1>2. CASE CalmStep(p) \/ SortStep(p)
  BY <1>2 DEF CalmStep, SortStep, Looks
<1>3. CASE ClaimStep(p)
  BY <1>1, <1>3, ClaimedFields DEF ClaimStep, Writes
<1>4. CASE PushStep(p)
  BY <1>1, <1>4, PushedFields DEF PushStep, Writes
<1>5. CASE OrderStep(p)
  <2>1. PICK o \in [DOMAIN seen[p].jobs -> JobIds] : Writes(SortedDoc(o))
    BY <1>5 DEF OrderStep
  <2>2. session.completed = 0 /\ session.failed = 0
    BY <1>5 DEF OrderStep, FreshInv, Fresh
  <2>3. /\ session'.entries = [i \in DOMAIN o |-> "pending"]
        /\ session'.completed = 0 /\ session'.failed = 0
    BY <2>1, <2>2, SortedFields DEF Writes
  <2> QED BY <2>3, CountPending DEF CountsOf
<1>6. CASE EnterStep(p)
  BY <1>6, EnteredCopy DEF EnterStep, Writes
<1> QED BY <1>2, <1>3, <1>4, <1>5, <1>6 DEF ProcStep

LEMMA ReadOnceStep ==
    ASSUME ReadOnceInv, LeadInv, LeadInv', FreshInv, SortInv, DocsInv, DocsInv',
           BoundsOK, BoundsOK', ProcsInv, TurnsInv, [Next]_vars
    PROVE  ReadOnceInv'
<1> SUFFICES ASSUME stale' <= 1
             PROVE  CountsOf(session') /\ \A q \in Runners : CopyOK(q)' /\ BehindOK(q)'
  BY DEF ReadOnceInv, CountsOf
<1>1. CountsOf(session) /\ \A q \in Runners : CopyOK(q) /\ BehindOK(q)
  BY StaleGrows DEF ReadOnceInv, BoundsOK
<1>2. ShapeOK
  BY DEF ProcsInv
<1>3. CASE UNCHANGED vars
  <2>1. ASSUME NEW q \in Runners PROVE CopyOK(q)' /\ BehindOK(q)'
    BY <1>1, <1>3
      DEF vars, docVars, runVars, CopyOK, BehindOK, Behind, Current, Overtaken, NoTwice,
          Recorded, Places
  <2> QED BY <1>1, <1>3, <2>1 DEF vars, docVars
<1>4. ASSUME NEW p \in Clients, ClientStep(p)
      PROVE  CountsOf(session') /\ \A q \in Runners : CopyOK(q)' /\ BehindOK(q)'
  <2>1. ProcStep(p) /\ p \in Procs /\ \A q \in Runners : p # q
    BY <1>2, <1>4, ClientKinds, MigrationSessionAssumption
  <2> QED BY <1>1, <2>1, CountsStep, OthersKeepRun
<1>5. ASSUME NEW p \in Runners, RunnerStep(p)
      PROVE  CountsOf(session') /\ \A q \in Runners : CopyOK(q)' /\ BehindOK(q)'
  <2>1. ProcStep(p) /\ p \in Procs
    BY <1>2, <1>5, RunnerKinds
  <2>2. CountsOf(session')
    BY <1>1, <2>1, CountsStep
  <2>3. ASSUME NEW q \in Runners PROVE CopyOK(q)' /\ BehindOK(q)'
    <3>1. CASE q = p
      BY <1>1, <1>5, <2>1, <3>1, OwnRun
    <3>2. CASE q # p
      BY <1>1, <2>1, <3>2, OthersKeepRun
    <3> QED BY <3>1, <3>2
  <2> QED BY <2>2, <2>3
<1> QED BY <1>3, <1>4, <1>5 DEF Next

-----------------------------------------------------------------------------
(* The invariant of the executions, and what follows from it. *)

LeaderInv == LeadInv /\ FreshInv /\ SortInv /\ TotalInv /\ TurnsInv /\ ReadOnceInv

LEMMA LeaderInit == Init => LeaderInv
<1> SUFFICES ASSUME Init PROVE LeaderInv
  OBVIOUS
<1>1. /\ session = Created /\ before = Created /\ stale = 0
      /\ \A p \in Procs : at[p] = "idle" /\ seen[p] = Created
      /\ \A p \in Runners : pos[p] = 1
  BY DEF Init, PostSession
<1>2. "idle" \notin Claimed /\ "idle" \notin Working /\ "idle" \notin Following /\ "idle" \notin Looping
        /\ "idle" \notin Recording
  BY DEF Claimed, Working, Following, Looping, InLoop, Recording
<1>3. LeadInv
  BY <1>1, <1>2 DEF LeadInv
<1>4. FreshInv
  BY <1>1, <1>2 DEF FreshInv, Fresh, Created
<1>5. SortInv
  BY <1>1, <1>2 DEF SortInv, OrderOK, Created
<1>6. TotalInv
  BY <1>1 DEF TotalInv, Created
<1>7. TurnsInv
  BY <1>1, <1>2 DEF TurnsInv, TurnOK
<1>8. ReadOnceInv
  <2>1. Created.entries = [i \in DOMAIN Created.entries |-> "pending"]
    BY DEF Created
  <2>2. Count(Created.entries, Done) = 0 /\ Count(Created.entries, {"failed", "skipped"}) = 0
    BY <2>1, CountPending, Zenon
  <2>3. Created.completed = 0 /\ Created.failed = 0
    BY DEF Created
  <2>4. CountsOf(session)
    BY <1>1, <2>2, <2>3, Zenon DEF CountsOf
  <2>5. \A p \in Runners : CopyOK(p) /\ BehindOK(p)
    BY <1>1, <1>2 DEF CopyOK, BehindOK
  <2> QED BY <2>4, <2>5 DEF ReadOnceInv
<1> QED BY <1>3, <1>4, <1>5, <1>6, <1>7, <1>8 DEF LeaderInv

LEMMA LeaderStep == SessionInv /\ SessionInv' /\ LeaderInv /\ [Next]_vars => LeaderInv'
<1> SUFFICES ASSUME SessionInv, SessionInv', LeaderInv, [Next]_vars PROVE LeaderInv'
  OBVIOUS
<1>1. DocsInv /\ DocsInv' /\ ProcsInv /\ BoundsOK /\ BoundsOK'
  BY DEF SessionInv
<1>2. ShapeOK /\ SeenOK
  BY <1>1 DEF ProcsInv, ShapeOK
<1>3. LeadInv /\ FreshInv /\ SortInv /\ TotalInv /\ TurnsInv /\ ReadOnceInv
  BY DEF LeaderInv
<1>4. AnyStep
  BY <1>1, <1>2, NextKinds
<1>5. LeadInv' /\ FreshInv' /\ SortInv'
  BY <1>1, <1>3, <1>4, LeadStep, FreshStep, SortStepKept
<1>6. TotalInv' /\ TurnsInv'
  BY <1>1, <1>2, <1>3, TotalStep, TurnsStep
<1>7. ReadOnceInv'
  BY <1>1, <1>3, <1>5, ReadOnceStep
<1> QED BY <1>5, <1>6, <1>7 DEF LeaderInv

LEMMA LeaderInvariant == Spec => [](SessionInv /\ LeaderInv)
<1>1. Init => LeaderInv
  BY LeaderInit
<1>2. SessionInv /\ SessionInv' /\ LeaderInv /\ [Next]_vars => LeaderInv'
  BY LeaderStep
<1> QED BY <1>1, <1>2, SessionInvariant, PTL DEF Spec

\* As long as at most one read of the session is answered from a lagging replica,
\* its counts are those of its entries, and it never counts more jobs than it has
\* (advanceSessionJobStatus, addJobToSession).
THEOREM CountsAreTruthful == Spec => [](stale <= 1 => CountsTruthful)
<1>1. SessionInv /\ LeaderInv => (stale <= 1 => CountsTruthful)
  BY DEF LeaderInv, TotalInv, ReadOnceInv, CountsOf, CountsTruthful
<1> QED BY <1>1, LeaderInvariant, PTL

\* As long as at most one read of the session is answered from a lagging replica,
\* an execution that returns leaves every job of an order that lists none twice
\* with a final status, and the session with one unless it was overtaken
\* (runSessionPipeline, advanceSessionJobStatus).
THEOREM ReturnedIsFinal == Spec => [](stale <= 1 => ReturnedMeansFinal)
<1>1. SessionInv /\ LeaderInv => (stale <= 1 => ReturnedMeansFinal)
  <2> SUFFICES ASSUME SessionInv, LeaderInv, stale <= 1, NEW p \in Runners, at[p] = "returned",
                      Cardinality(Listed(session.order)) = Len(session.order)
               PROVE  /\ \/ session.status \in Done
                         \/ \E q \in Runners \ {p} : at[q] \in {"order", "threw"}
                      /\ \A i \in DOMAIN session.entries :
                           session.entries[i] \in Done \cup {"failed", "skipped"}
    BY DEF ReturnedMeansFinal
  <2>1. DocsInv /\ BehindOK(p) /\ TurnOK(p) /\ RunnerOK(p)
    BY DEF SessionInv, ProcsInv, LeaderInv, ReadOnceInv, TurnsInv
  <2>2. at[p] \in Looping /\ at[p] \notin Undone /\ Behind(p) = pos[p] - 1
    BY DEF Looping, Following, Undone, InLoop, Behind
  <2>3. /\ order[p] = session.order /\ session.order \in Seq(JobIds)
        /\ DOMAIN session.order = 1..Len(session.order) /\ Len(session.order) \in Nat
        /\ pos[p] > Len(order[p]) /\ pos[p] \in Nat
    BY <2>1, <2>2, SessionFields DEF BehindOK, TurnOK, RunnerOK
  <2>4. NoTwice
    <3> DEFINE o == session.order
               S == DOMAIN o
               T == Listed(o)
    <3>1. o \in Surjection(S, T)
      BY <2>3 DEF Listed, Surjection
    <3>2. IsFiniteSet(S) /\ Cardinality(S) = Len(o)
      <4>1. IsFiniteSet(1..Len(o)) /\ Cardinality(1..Len(o)) = Len(o)
        BY <2>3, FS_Interval
      <4> QED BY <2>3, <4>1
    <3>3. o \in Injection(S, T)
      BY <3>1, <3>2, FS_Surjection
    <3> QED BY <3>3 DEF Injection, IsInjective, NoTwice
  <2>5. Behind(p) >= Len(order[p])
    BY <2>2, <2>3
  <2>6. \A i \in DOMAIN session.order : Recorded(session, session.order[i])
    <3>1. \A i \in DOMAIN order[p] : i <= Behind(p)
      BY <2>2, <2>3
    <3> QED BY <2>1, <2>2, <2>3, <3>1 DEF BehindOK
  <2>7. \A i \in DOMAIN session.entries : session.entries[i] \in Final
    BY <2>1, <2>4, <2>6, AllRecorded
  <2>8. session.status \in Done \/ Overtaken(p)
    BY <2>1, <2>2, <2>4, <2>5 DEF BehindOK
  <2> QED BY <2>7, <2>8 DEF Final, Overtaken
<1> QED BY <1>1, LeaderInvariant, PTL

LEMMA FirstPlace ==
    ASSUME NEW doc, doc.order \in Seq(JobIds), NEW k \in DOMAIN doc.order
    PROVE  Places(doc, doc.order[k]) # {}
<1> DEFINE M == {i \in DOMAIN doc.order : doc.order[i] = doc.order[k]}
           R == OpToRel(<, Nat)
<1>1. IsWellFoundedOn(R, Nat)
  BY NatLessThanWellFounded
<1>2. \A x, y \in Nat : y < x => <<y, x>> \in R
  BY DEF OpToRel
<1>3. M \subseteq Nat /\ k \in M /\ DOMAIN doc.order = 1..Len(doc.order) /\ Len(doc.order) \in Nat
  OBVIOUS
<1>4. \A i \in M : i \in DOMAIN doc.order /\ doc.order[i] = doc.order[k]
  OBVIOUS
<1>5. \A i \in DOMAIN doc.order : doc.order[i] = doc.order[k] => i \in M
  OBVIOUS
<1> HIDE DEF R, M
<1>6. PICK x \in M : \A y \in M : ~ (<<y, x>> \in R)
  BY <1>1, <1>3, WFMin
<1>7. \A y \in 1..(x - 1) : doc.order[y] # doc.order[k]
  <2> SUFFICES ASSUME NEW y \in 1..(x - 1), doc.order[y] = doc.order[k] PROVE FALSE
    OBVIOUS
  <2>1. x \in Nat /\ x <= Len(doc.order) /\ y \in Nat /\ y < x
    BY <1>3, <1>4
  <2>2. y \in M
    BY <1>3, <1>5, <2>1
  <2> QED BY <1>2, <1>6, <2>1, <2>2
<1>8. x \in Places(doc, doc.order[k])
  BY <1>4, <1>7 DEF Places
<1> QED BY <1>8

\* As long as at most one read of the session is answered from a lagging replica,
\* a job only runs when those of its order it depends on have run or are recorded
\* as failed (computeSessionOrder, runSessionPipeline): if no entity outside the
\* modules that collectDependencies looks into declares any.
THEOREM ParentsRunFirst ==
    ASSUME \A e \in Entities \ Registered : Dependencies[e] = {}
    PROVE  Spec => [](stale <= 1 => ParentsFirst)
<1>1. SessionInv /\ LeaderInv => (stale <= 1 => ParentsFirst)
  <2> SUFFICES ASSUME SessionInv, LeaderInv, stale <= 1, NEW p \in Runners, at[p] = "run",
                      NEW k \in DOMAIN order[p],
                      EntityOf[order[p][k]] \in Dependencies[EntityOf[Current(p)]]
               PROVE  \/ status[order[p][k]] # "uploaded"
                      \/ \E i \in Places(session, order[p][k]) :
                           session.entries[i] \in {"failed", "skipped"}
    BY DEF ParentsFirst
  <2>1. DocsInv /\ BehindOK(p) /\ RunnerOK(p) /\ SortInv /\ EntriesAgreeWithJobs
    BY DEF SessionInv, ProcsInv, LeaderInv, ReadOnceInv
  <2>2. at[p] \in Looping /\ at[p] \in InLoop /\ Behind(p) = pos[p] - 1
    BY DEF Looping, Following, InLoop, Behind
  <2>3. /\ order[p] = session.order /\ session.order \in Seq(JobIds) /\ OrderOK(session.order)
        /\ pos[p] \in 1..Len(order[p]) /\ DOMAIN session.order = 1..Len(session.order)
        /\ Len(session.order) \in Nat
    BY <2>1, <2>2, SessionFields DEF BehindOK, RunnerOK, SortInv
  <2>4. collectDependencies(EntityOf[Current(p)]) = Dependencies[EntityOf[Current(p)]]
    <3>1. EntityOf[Current(p)] \in Entities
      BY <2>1, <2>2, CurrentIsJob, MigrationSessionAssumption
    <3> QED BY <3>1 DEF collectDependencies
  <2>5. k < pos[p] /\ order[p][k] # Current(p)
    <3>1. \A i \in DOMAIN order[p] : pos[p] <= i =>
            EntityOf[order[p][i]] \notin Dependencies[EntityOf[Current(p)]]
      BY <2>3, <2>4 DEF OrderOK, Current
    <3>2. ~(pos[p] <= k) /\ EntityOf[Current(p)] \notin Dependencies[EntityOf[Current(p)]]
      BY <2>3, <3>1 DEF Current
    <3> QED BY <2>3, <3>2
  <2>6. Recorded(session, order[p][k])
    BY <2>1, <2>2, <2>3, <2>5 DEF BehindOK
  <2>7. PICK i \in Places(session, order[p][k]) : TRUE
    BY <2>3, FirstPlace
  <2>8. session.entries[i] \in Final /\ session.order[i] = order[p][k] /\ i \in DOMAIN session.entries
    BY <2>1, <2>6, SessionFields DEF Recorded, Places
  <2>9. CASE session.entries[i] \in Done
    BY <2>1, <2>8, <2>9 DEF EntriesAgreeWithJobs, Done
  <2> QED BY <2>8, <2>9 DEF Final
<1> QED BY <1>1, LeaderInvariant, PTL

=============================================================================
