------------------------ MODULE ImportPipelineProofs ------------------------
(***************************************************************************)
(* Proofs about ImportPipeline, for any file, mappings, chunk and          *)
(* processes.  First, whatever overlaps, dies and is retried: when all     *)
(* requests ask for the same mapping, no row is written that was not found *)
(* sound; and what keeps its shape.  Then, if processes which passed their *)
(* status check do not overlap with others: the whole file is staged,      *)
(* mapped and rightly checked, one document is written per identity value, *)
(* a committed row is never touched again, and the job is a row ledger.    *)
(***************************************************************************)
EXTENDS ImportPipeline, FiniteSetTheorems, TLAPS

\* The mappings that users ask for in this job.
Asked == {Wanted[p] : p \in Mappings}

OneMapping == \A m, n \in Asked : m = n

-----------------------------------------------------------------------------
(* Parts of the inductive invariant. *)

HeldRecords == [row : Rows, by : Procs, verdict : {"valid", "invalid"}]

Places ==
    {"idle", "verify", "trigger", "done", "broken", "parse", "clear", "insert", "stage",
     "fail", "automap", "mapgate", "rewrite", "savemap", "autovalidate", "checkgate",
     "dups", "existing", "check", "flush", "giveup", "refresh", "autocommit", "mark",
     "commit"}

Knowledge == [status : Statuses, map : Asked \cup {NoMap}]

ShapeOK ==
    /\ status \in Statuses
    /\ staged \in [Rows -> Procs \cup {Nobody}]
    /\ at \in [Procs -> Places]
    /\ passed \in [Procs -> SUBSET Rows]
    /\ held \in [Procs -> SUBSET HeldRecords]
    /\ saw \in [Procs -> Knowledge]

\* No other mapping than one that was asked for is anywhere, and a process that
\* rewrites rows has one.
MapsAsked ==
    /\ fieldMap \in Asked \cup {NoMap}
    /\ mapped \in [Rows -> Asked \cup {NoMap}]
    /\ \A p \in Procs : at[p] \in {"mapgate", "rewrite", "savemap"} => saw[p].map # NoMap

\* Before a process inserts a row nothing names the process as its inserter: a
\* record that somebody has read is not mistaken for one that is staged later.
InsertsOnce ==
    \A p \in Procs, x \in Rows :
        \/ staged[x] = p
        \/ \E q \in Procs : \E h \in held[q] : h.row = x /\ h.by = p
        => /\ at[p] \notin {"idle", "parse", "clear"}
           /\ at[p] = "insert" => x \in passed[p]

\* A validation holds one verdict of a row ...
HeldOnce ==
    \A q \in Procs : \A g, h \in held[q] : g.row = h.row => g = h

SoundRow(x) == mapped[x] # NoMap /\ x \in Sound[mapped[x]]

\* ... and if it is "valid", then as long as the record it was computed from is
\* the one that is staged, the row is sound.
HeldIsSound ==
    \A q \in Procs : \A h \in held[q] :
        h.verdict = "valid" /\ h.by = staged[h.row] => SoundRow(h.row)

ValidIsSound == \A x \in Rows : verdict[x] = "valid" => SoundRow(x)

SoundInv ==
    /\ ShapeOK /\ MapsAsked /\ InsertsOnce /\ HeldOnce
    /\ HeldIsSound /\ ValidIsSound /\ WrittenRowsAreSound

-----------------------------------------------------------------------------
LEMMA InitSound ==
  ASSUME Init
  PROVE  SoundInv
<1>1. ShapeOK
  <2>1. /\ status \in Statuses /\ staged \in [Rows -> Procs \cup {Nobody}] /\ at \in [Procs -> Places]
        /\ passed \in [Procs -> SUBSET Rows] /\ held \in [Procs -> SUBSET HeldRecords]
    BY DEF Init, Statuses, Places
  <2>2. saw \in [Procs -> Knowledge]
    BY DEF Init, Knowledge, Statuses
  <2> QED
    BY <2>1, <2>2 DEF ShapeOK
<1>2. MapsAsked
  BY DEF Init, MapsAsked
<1>3. HeldOnce /\ HeldIsSound
  <2>1. \A q \in Procs : held[q] = {}
    BY DEF Init
  <2> QED
    BY <2>1 DEF HeldOnce, HeldIsSound
<1>4. InsertsOnce
  <2>1. \A p \in Procs, x \in Rows : staged[x] # p /\ held[p] = {}
    BY ImportPipelineAssumption DEF Init
  <2> QED
    BY <2>1 DEF InsertsOnce
<1>5. ValidIsSound /\ WrittenRowsAreSound
  BY DEF Init, ValidIsSound, WrittenRowsAreSound
<1> QED
  BY <1>1, <1>2, <1>3, <1>4, <1>5 DEF SoundInv

(* The chunk a loop takes next is of the rows it asked for. *)
LEMMA FirstRowsOf ==
  ASSUME NEW M, NEW n
  PROVE  FirstRows(M, n) \subseteq M
BY DEF FirstRows

LEMMA LeftIsOfRows ==
  ASSUME NEW p \in Procs
  PROVE  /\ Left(p) \subseteq Rows /\ Left(p) \subseteq Staged
         /\ \A S \in Batches(p) : S \subseteq Left(p) /\ S \in SUBSET Rows
BY DEF Left, Staged, Batches

\* p reads the rows S, and F are the first of those with their identity value.
Reads(p, S, F) ==
    LET ok == {x \in S : Passes(p, F, x)}
    IN  /\ S \in SUBSET Rows /\ S \subseteq Left(p) /\ S # {} /\ F \in Firsts(S)
        /\ held' = [held EXCEPT ![p] =
                 {[row |-> x, by |-> staged[x],
                   verdict |-> IF x \in ok THEN "valid" ELSE "invalid"] : x \in S}]
        /\ tally' = [tally EXCEPT ![p] =
                 [valid |-> @.valid + Cardinality(ok),
                  invalid |-> @.invalid + Cardinality(S \ ok), again |-> @.again]]
        /\ seenKeys' = [seenKeys EXCEPT ![p] = @ \cup {KeyOf(x) : x \in S}]
        /\ passed' = [passed EXCEPT ![p] = @ \cup S]

(* Unless none is left, a cursor returns something. *)
LEMMA ReadsSome ==
  ASSUME NEW p \in Procs, ReadRows(p)
  PROVE  \E S \in SUBSET Rows : \E F \in SUBSET Rows : Reads(p, S, F)
<1> DEFINE Effect(S, F) ==
        LET ok == {x \in S : Passes(p, F, x)}
        IN  /\ held' = [held EXCEPT ![p] =
                 {[row |-> x, by |-> staged[x],
                   verdict |-> IF x \in ok THEN "valid" ELSE "invalid"] : x \in S}]
            /\ tally' = [tally EXCEPT ![p] =
                 [valid |-> @.valid + Cardinality(ok),
                  invalid |-> @.invalid + Cardinality(S \ ok), again |-> @.again]]
            /\ seenKeys' = [seenKeys EXCEPT ![p] = @ \cup {KeyOf(x) : x \in S}]
            /\ passed' = [passed EXCEPT ![p] = @ \cup S]
<1>0. PICK S \in Batches(p) : \E F \in Firsts(S) : Effect(S, F)
  BY DEF ReadRows
<1>1. PICK F \in Firsts(S) : Effect(S, F)
  BY <1>0
<1>2. S \in SUBSET Rows /\ S \subseteq Left(p) /\ F \in SUBSET Rows
  BY LeftIsOfRows DEF Firsts
<1>3. S # {}
  <2>1. S = Left(p) \/ Cardinality(S) = Chunk
    BY DEF Batches
  <2>2. Left(p) # {} /\ Chunk # 0 /\ Cardinality({}) = 0
    BY ImportPipelineAssumption, FS_EmptySet DEF ReadRows
  <2> QED
    BY <2>1, <2>2
<1>4. Reads(p, S, F)
  BY <1>1, <1>2, <1>3 DEF Reads
<1> QED
  BY <1>2, <1>4

-----------------------------------------------------------------------------
(* Steps that leave the rows and what validations hold of them alone.      *)

\* No process comes to the insertion, or before it, from a later place.
NoReturn ==
    \A q \in Procs :
        /\ at'[q] \in {"idle", "parse", "clear"} => at[q] \in {"idle", "parse", "clear"}
        /\ at'[q] = "insert" => \/ at[q] \in {"idle", "parse", "clear"}
                                \/ at[q] = "insert" /\ passed[q] \subseteq passed'[q]

\* The mappings that processes and the job know are still ones asked for.
KnownMaps ==
    /\ fieldMap \in Asked \cup {NoMap}
    /\ \A p \in Procs : at[p] \in {"mapgate", "rewrite", "savemap"} => saw[p].map # NoMap

Quiet == UNCHANGED <<rowVars, held>> /\ ShapeOK' /\ KnownMaps' /\ NoReturn

LEMMA QuietKeepsSound ==
  ASSUME SoundInv, Quiet
  PROVE  SoundInv'
<1> USE DEF SoundInv, Quiet, rowVars
<1>1. MapsAsked'
  BY DEF MapsAsked, KnownMaps
<1>2. InsertsOnce'
  BY DEF InsertsOnce, NoReturn
<1>3. (HeldOnce /\ HeldIsSound /\ ValidIsSound /\ WrittenRowsAreSound)'
  BY DEF HeldOnce, HeldIsSound, ValidIsSound, SoundRow, WrittenRowsAreSound
<1> QED
  BY <1>1, <1>2, <1>3

(* A step of one process to another place, which is before the insertion only *)
(* if the process has not come to it yet.                                     *)
LEMMA MoveIsQuiet ==
  ASSUME SoundInv, NEW p \in Procs,
         at' = [at EXCEPT ![p] = at'[p]], at'[p] \in Places,
         saw' = [saw EXCEPT ![p] = saw'[p]],
         saw'[p] \in Knowledge,
         passed' = [passed EXCEPT ![p] = passed'[p]], passed'[p] \in SUBSET Rows,
         UNCHANGED <<rowVars, held>>, status' \in Statuses,
         fieldMap' \in Asked \cup {NoMap},
         at'[p] \in {"mapgate", "rewrite", "savemap"} => saw'[p].map # NoMap,
         at'[p] \in {"idle", "parse", "clear", "insert"} => at[p] \in {"idle", "parse", "clear"}
  PROVE  Quiet
<1> USE DEF SoundInv
<1>1. ShapeOK'
  BY DEF ShapeOK, rowVars
<1>2. KnownMaps'
  BY DEF ShapeOK, MapsAsked, KnownMaps
<1>3. NoReturn
  BY DEF ShapeOK, NoReturn
<1> QED
  BY <1>1, <1>2, <1>3 DEF Quiet

\* The process only goes to another place.
Walks(p) ==
    /\ UNCHANGED <<fieldMap, rowVars, saw, passed, held>> /\ status' \in Statuses
    /\ at' = [at EXCEPT ![p] = at'[p]] /\ at'[p] \in Places
    /\ at'[p] \in {"mapgate", "rewrite", "savemap"} => saw[p].map # NoMap
    /\ at'[p] \in {"idle", "parse", "clear", "insert"} => at[p] \in {"idle", "parse", "clear"}

LEMMA WalkIsQuiet ==
  ASSUME SoundInv, NEW p \in Procs, Walks(p)
  PROVE  Quiet
<1>1. UNCHANGED <<fieldMap, saw, rowVars, held, passed>>
  BY DEF Walks
<1>2. /\ saw'[p] \in Knowledge
      /\ saw' = [saw EXCEPT ![p] = saw'[p]]
      /\ passed' = [passed EXCEPT ![p] = passed'[p]] /\ passed'[p] \in SUBSET Rows
      /\ fieldMap' \in Asked \cup {NoMap}
  BY <1>1 DEF SoundInv, ShapeOK, MapsAsked
<1> QED
  BY <1>1, <1>2, MoveIsQuiet DEF Walks

LEMMA WalksAreQuiet ==
  ASSUME SoundInv, NEW p \in Procs,
         \/ CreateJob(p) \/ ReadUpload(p) \/ SaveUploaded(p) \/ Trigger(p) \/ Parse(p)
         \/ SaveStagedFails(p) \/ SaveFailed(p)
         \/ AutoMap(p) \/ RefuseMapping(p) \/ RefuseProfile(p)
         \/ AutoValidate(p) \/ RefuseValidation(p) \/ WriteValidated(p) \/ GiveUp(p)
         \/ BeginCommit(p) \/ Exit(p) \/ WriteResult(p) \/ Rejects(p) \/ Dies(p)
  PROVE  Quiet
<1> USE DEF Walks, Goes, jobVars, localVars, checkVars
<1>0. at \in [Procs -> Places] /\ status \in Statuses
  BY DEF SoundInv, ShapeOK
<1>1. CASE CreateJob(p)
  BY <1>0, <1>1, WalkIsQuiet DEF Places, Statuses, Stageable, CreateJob, MayStart
<1>2. CASE ReadUpload(p)
  BY <1>0, <1>2, WalkIsQuiet DEF Places, ReadUpload
<1>3. CASE SaveUploaded(p) \/ Trigger(p)
  BY <1>0, <1>3, WalkIsQuiet DEF Places, Statuses, Stageable, SaveUploaded, Trigger
<1>4. CASE Parse(p)
  BY <1>0, <1>4, WalkIsQuiet DEF Places, Statuses, Stageable, Parse
<1>5. CASE SaveStagedFails(p) \/ SaveFailed(p)
  BY <1>0, <1>5, WalkIsQuiet DEF Places, Statuses, Ready, SaveStagedFails, SaveFailed
<1>6. CASE AutoMap(p)
  BY <1>0, <1>6, WalkIsQuiet DEF Places, AutoMap
<1>7. CASE RefuseMapping(p) \/ RefuseProfile(p)
  BY <1>0, <1>7, WalkIsQuiet DEF Places, RefuseMapping, RefuseProfile, Breaks
<1>8. CASE AutoValidate(p) \/ RefuseValidation(p)
  BY <1>0, <1>8, WalkIsQuiet DEF Places, AutoValidate, RefuseValidation
<1>9. CASE WriteValidated(p) \/ GiveUp(p)
  BY <1>0, <1>9, WalkIsQuiet DEF Places, Statuses, Ready, WriteValidated, GiveUp
<1>10. CASE BeginCommit(p) \/ Exit(p) \/ WriteResult(p)
  BY <1>0, <1>10, WalkIsQuiet DEF Places, Statuses, Ready, BeginCommit, Exit, WriteResult, Breaks
<1>11. CASE Rejects(p) \/ Dies(p)
  BY <1>0, <1>11, WalkIsQuiet DEF Places, Rejects, Dies, Breaks
<1> QED
  BY <1>1, <1>2, <1>3, <1>4, <1>5, <1>6, <1>7, <1>8, <1>9, <1>10, <1>11

(* Steps that read the job, or begin a loop. *)
LEMMA ReadsAreQuiet ==
  ASSUME SoundInv, NEW p \in Procs,
         \/ StartExecution(p) \/ SaveStaged(p) \/ BeginMapping(p) \/ SaveMapping(p)
         \/ BeginValidation(p) \/ FindDuplicates(p) \/ FindExisting(p) \/ Refresh(p)
         \/ Mark(p)
  PROVE  Quiet
<1> USE DEF Goes, jobVars, checkVars, Statuses, Ready, Places
<1>0. /\ at \in [Procs -> Places] /\ status \in Statuses
      /\ passed \in [Procs -> SUBSET Rows] /\ saw \in [Procs -> Knowledge]
      /\ fieldMap \in Asked \cup {NoMap}
  BY DEF SoundInv, ShapeOK, MapsAsked
<1>1. CASE StartExecution(p)
  BY <1>0, <1>1, MoveIsQuiet DEF StartExecution, MayStart, Knowledge
<1>2. CASE SaveStaged(p)
  BY <1>0, <1>2, MoveIsQuiet DEF SaveStaged, Knowledge
<1>3. CASE BeginMapping(p)
  <2>1. at[p] = "mapgate" => saw[p].map # NoMap
    BY DEF SoundInv, MapsAsked
  <2>2. p \in Mappings => Wanted[p] \in Asked /\ Wanted[p] # NoMap
    BY ImportPipelineAssumption DEF Asked
  <2>3. saw'[p] \in Knowledge /\ saw'[p].map # NoMap
    BY <1>0, <1>3, <2>1, <2>2 DEF BeginMapping, Knowledge
  <2> QED
    BY <1>0, <1>3, <2>3, MoveIsQuiet DEF BeginMapping
<1>4. CASE SaveMapping(p)
  <2>1. saw'[p] \in Knowledge /\ saw[p].map \in Asked \cup {NoMap}
    BY <1>0, <1>4 DEF SaveMapping, Knowledge
  <2> QED
    BY <1>0, <1>4, <2>1, MoveIsQuiet DEF SaveMapping
<1>5. CASE BeginValidation(p) \/ FindDuplicates(p) \/ FindExisting(p) \/ Mark(p)
  BY <1>0, <1>5, MoveIsQuiet DEF BeginValidation, FindDuplicates, FindExisting, Mark
<1>6. CASE Refresh(p)
  <2>1. saw' = [saw EXCEPT ![p] = saw'[p]] /\ saw'[p] \in Knowledge
    BY <1>0, <1>6 DEF Refresh, Knowledge
  <2> QED
    BY <1>0, <1>6, <2>1, MoveIsQuiet DEF Refresh
<1> QED
  BY <1>1, <1>2, <1>3, <1>4, <1>5, <1>6

LEMMA StutterIsQuiet ==
  ASSUME SoundInv, UNCHANGED vars
  PROVE  Quiet
<1> USE DEF SoundInv, vars, jobVars, localVars, checkVars
<1>1. ShapeOK'
  BY DEF ShapeOK, rowVars
<1>2. KnownMaps' /\ NoReturn
  BY DEF MapsAsked, KnownMaps, NoReturn
<1> QED
  BY <1>1, <1>2 DEF Quiet

-----------------------------------------------------------------------------
(* Steps that stage, map, check or write rows.                             *)

LEMMA ClearKeepsSound ==
  ASSUME SoundInv, NEW p \in Procs, Clear(p)
  PROVE  SoundInv'
<1> USE DEF SoundInv, Clear, Goes, jobVars, checkVars
<1>1. ShapeOK'
  BY DEF ShapeOK, Places
<1>2. MapsAsked'
  BY DEF MapsAsked, ShapeOK
<1>3. InsertsOnce'
  <2>1. \A q \in Procs, x \in Rows : staged'[x] # q
    BY ImportPipelineAssumption
  <2>2. \A q \in Procs : q # p => at'[q] = at[q] /\ passed'[q] = passed[q]
    BY DEF ShapeOK
  <2>3. \A q \in Procs : \A h \in held[q] : h.by # p
    BY DEF InsertsOnce, ShapeOK, HeldRecords
  <2> QED
    BY <2>1, <2>2, <2>3 DEF InsertsOnce
<1>4. HeldOnce'
  BY DEF HeldOnce
<1>5. HeldIsSound'
  <2>1. \A q \in Procs : \A h \in held[q] : h.row \in Rows /\ h.by \in Procs
    BY DEF ShapeOK, HeldRecords
  <2> QED
    BY <2>1, ImportPipelineAssumption DEF HeldIsSound
<1>6. ValidIsSound' /\ WrittenRowsAreSound'
  BY DEF ValidIsSound, WrittenRowsAreSound
<1> QED
  BY <1>1, <1>2, <1>3, <1>4, <1>5, <1>6

LEMMA InsertKeepsSound ==
  ASSUME SoundInv, NEW p \in Procs, InsertRows(p) \/ InsertFails(p)
  PROVE  SoundInv'
<1> USE DEF SoundInv
<1>1. PICK S \in SUBSET Rows :
        /\ S \subseteq ToInsert(p) \ Staged
        /\ Inserted(p, S)
        /\ at[p] = "insert"
        /\ at'[p] = "insert" => passed'[p] = passed[p] \cup S
        /\ UNCHANGED <<status, fieldMap, mapped, verdict, entity, saw, held>>
        /\ \A q \in Procs \ {p} : at'[q] = at[q] /\ passed'[q] = passed[q]
        /\ at' \in [Procs -> Places] /\ passed' \in [Procs -> SUBSET Rows]
        /\ at'[p] \in {"insert", "stage", "fail", "broken"}
  <2>1. ToInsert(p) \subseteq Rows
    BY FirstRowsOf DEF ToInsert
  <2>2. at \in [Procs -> Places] /\ passed \in [Procs -> SUBSET Rows]
    BY DEF ShapeOK
  <2>3. CASE InsertRows(p)
    <3> ToInsert(p) \in SUBSET Rows
      BY <2>1
    <3> WITNESS ToInsert(p) \in SUBSET Rows
    <3> QED
      BY <2>1, <2>2, <2>3 DEF InsertRows, Goes, jobVars, checkVars, Places
  <2>4. CASE InsertFails(p)
    <3>1. PICK S \in SUBSET (ToInsert(p) \ Staged) : Inserted(p, S)
      BY <2>4 DEF InsertFails
    <3> S \in SUBSET Rows
      BY <2>1, <3>1
    <3> WITNESS S \in SUBSET Rows
    <3> QED
      BY <2>1, <2>2, <2>4, <3>1
         DEF InsertFails, Breaks, Goes, jobVars, localVars, checkVars, Places
  <2> QED
    BY <2>3, <2>4
<1>2. \A x \in Rows : staged'[x] = IF x \in S THEN p ELSE staged[x]
  BY <1>1 DEF Inserted
<1>3. S \cap passed[p] = {}
  BY <1>1, FirstRowsOf DEF ToInsert
<1>4. ShapeOK'
  BY <1>1 DEF ShapeOK, Inserted
<1>5. MapsAsked'
  BY <1>1 DEF MapsAsked
<1>6. InsertsOnce'
  BY <1>1, <1>2 DEF InsertsOnce
<1>7. HeldOnce'
  BY <1>1 DEF HeldOnce
<1>8. HeldIsSound'
  <2> SUFFICES ASSUME NEW q \in Procs, NEW h \in held[q],
                      h.verdict = "valid", h.by = staged'[h.row]
               PROVE  SoundRow(h.row)
    BY <1>1 DEF HeldIsSound, SoundRow
  <2>1. h.row \in Rows
    BY DEF ShapeOK, HeldRecords
  <2>2. h.row \notin S
    BY <2>1, <1>1, <1>2, <1>3 DEF InsertsOnce
  <2> QED
    BY <2>1, <2>2, <1>2 DEF HeldIsSound
<1>9. ValidIsSound' /\ WrittenRowsAreSound'
  BY <1>1 DEF ValidIsSound, SoundRow, WrittenRowsAreSound
<1> QED
  BY <1>4, <1>5, <1>6, <1>7, <1>8, <1>9

(* A mapping that is applied again is the one the rows have already.          *)
LEMMA RewriteKeepsSound ==
  ASSUME OneMapping, SoundInv, NEW p \in Procs, RewriteRows(p)
  PROVE  SoundInv'
<1> USE DEF SoundInv, RewriteRows, Goes, jobVars, checkVars
<1>1. PICK S \in SUBSET Rows :
        /\ mapped' = [x \in Rows |-> IF x \in S THEN saw[p].map ELSE mapped[x]]
        /\ passed' = [passed EXCEPT ![p] = @ \cup S]
  BY LeftIsOfRows
<1>2. saw[p].map \in Asked
  BY DEF MapsAsked, ShapeOK, Knowledge
<1>3. ShapeOK'
  BY <1>1 DEF ShapeOK, Places
<1>4. MapsAsked'
  BY <1>1, <1>2 DEF MapsAsked, ShapeOK
<1>5. InsertsOnce'
  BY <1>1 DEF InsertsOnce, ShapeOK
<1>6. ASSUME NEW x \in Rows, SoundRow(x)
      PROVE  SoundRow(x)'
  BY <1>1, <1>2, <1>6 DEF SoundRow, OneMapping, MapsAsked
<1>7. HeldOnce' /\ WrittenRowsAreSound'
  BY DEF HeldOnce, WrittenRowsAreSound
<1>8. HeldIsSound'
  <2>1. \A q \in Procs : \A h \in held[q] : h.row \in Rows
    BY DEF ShapeOK, HeldRecords
  <2> QED
    BY <2>1, <1>6 DEF HeldIsSound
<1>9. ValidIsSound'
  BY <1>6 DEF ValidIsSound
<1> QED
  BY <1>3, <1>4, <1>5, <1>7, <1>8, <1>9

LEMMA ReadKeepsSound ==
  ASSUME SoundInv, NEW p \in Procs, ReadRows(p)
  PROVE  SoundInv'
<1> USE DEF SoundInv, ReadRows, Goes, jobVars, rowVars
<1>0. PICK S \in SUBSET Rows, F \in SUBSET Rows : Reads(p, S, F)
  BY ReadsSome
<1> DEFINE ok == {x \in S : Passes(p, F, x)}
           record(x) == [row |-> x, by |-> staged[x],
                         verdict |-> IF x \in ok THEN "valid" ELSE "invalid"]
<1>1. /\ \A x \in S : staged[x] # Nobody
      /\ passed' = [passed EXCEPT ![p] = @ \cup S]
  BY <1>0, LeftIsOfRows DEF Reads, Staged
<1>2. /\ held'[p] = {record(x) : x \in S}
      /\ \A q \in Procs \ {p} : held'[q] = held[q]
      /\ DOMAIN held' = DOMAIN held
      /\ held' = [held EXCEPT ![p] = held'[p]]
  BY <1>0 DEF ShapeOK, Reads
<1>3. ShapeOK'
  <2>1. \A x \in S : record(x) \in HeldRecords
    BY <1>1 DEF ShapeOK, HeldRecords
  <2>2. held'[p] \in SUBSET HeldRecords
    BY <2>1, <1>2
  <2>3. held' \in [Procs -> SUBSET HeldRecords]
    BY <2>2, <1>2 DEF ShapeOK
  <2> QED
    BY <2>3, <1>1 DEF ShapeOK, Places
<1>4. MapsAsked'
  BY DEF MapsAsked, ShapeOK
<1>5. InsertsOnce'
  <2> SUFFICES ASSUME NEW q \in Procs, NEW x \in Rows,
                      \/ staged[x] = q
                      \/ \E r \in Procs : \E h \in held'[r] : h.row = x /\ h.by = q
               PROVE  /\ at'[q] \notin {"idle", "parse", "clear"}
                      /\ at'[q] = "insert" => x \in passed'[q]
    BY DEF InsertsOnce
  <2>1. \/ staged[x] = q
        \/ \E r \in Procs : \E h \in held[r] : h.row = x /\ h.by = q
    BY <1>2
  <2> QED
    BY <1>1, <2>1 DEF InsertsOnce, ShapeOK
<1>6. HeldOnce'
  BY <1>2 DEF HeldOnce
<1>7. HeldIsSound'
  <2>1. \A x \in S : record(x).verdict = "valid" => SoundRow(x)
    BY DEF Passes, SoundRow
  <2>2. \A h \in held'[p] : h.verdict = "valid" => SoundRow(h.row)
    BY <2>1, <1>2
  <2> QED
    BY <2>2, <1>2 DEF HeldIsSound, SoundRow
<1>8. ValidIsSound' /\ WrittenRowsAreSound'
  BY DEF ValidIsSound, SoundRow, WrittenRowsAreSound
<1> QED
  BY <1>3, <1>4, <1>5, <1>6, <1>7, <1>8

LEMMA FlushKeepsSound ==
  ASSUME SoundInv, NEW p \in Procs, FlushRows(p)
  PROVE  SoundInv'
<1> USE DEF SoundInv, FlushRows, Goes, jobVars
<1>1. held'[p] = {} /\ \A q \in Procs \ {p} : held'[q] = held[q]
  BY DEF ShapeOK
<1>2. ShapeOK'
  BY DEF ShapeOK, Places
<1>3. MapsAsked'
  BY DEF MapsAsked, ShapeOK
<1>4. InsertsOnce'
  BY <1>1 DEF InsertsOnce, ShapeOK
<1>5. HeldOnce' /\ HeldIsSound'
  BY <1>1 DEF HeldOnce, HeldIsSound, SoundRow
<1>6. ValidIsSound'
  <2> SUFFICES ASSUME NEW x \in Rows, verdict'[x] = "valid"
               PROVE  SoundRow(x)
    BY DEF ValidIsSound, SoundRow
  <2>1. CASE \E h \in held[p] : h.row = x /\ h.by = staged[x]
    <3>1. PICK h \in held[p] : h.row = x /\ h.by = staged[x]
      BY <2>1
    <3>2. (CHOOSE g \in held[p] : g.row = x) = h
      BY <3>1 DEF HeldOnce
    <3>3. h.verdict = "valid"
      BY <2>1, <3>2
    <3> QED
      BY <3>1, <3>3 DEF HeldIsSound
  <2>2. CASE ~ \E h \in held[p] : h.row = x /\ h.by = staged[x]
    BY <2>2 DEF ValidIsSound
  <2> QED
    BY <2>1, <2>2
<1>7. WrittenRowsAreSound'
  BY DEF WrittenRowsAreSound
<1> QED
  BY <1>2, <1>3, <1>4, <1>5, <1>6, <1>7

LEMMA CommitKeepsSound ==
  ASSUME SoundInv, NEW p \in Procs, CommitRow(p)
  PROVE  SoundInv'
<1> USE DEF SoundInv, jobVars, checkVars
<1>1. PICK x \in ToCommit(p) :
        /\ passed' = [passed EXCEPT ![p] = @ \cup {x}]
        /\ entity' \in {entity, entity \cup {[row |-> x, map |-> mapped[x], by |-> p]}}
  BY DEF CommitRow
<1>2. x \in Rows /\ verdict[x] = "valid"
  BY FirstRowsOf DEF ToCommit, Staged
<1>3. at[p] = "commit" /\ UNCHANGED <<status, fieldMap, staged, mapped, verdict, at, saw, held>>
  BY DEF CommitRow
<1>4. ShapeOK'
  BY <1>1, <1>2, <1>3 DEF ShapeOK
<1>5. MapsAsked' /\ HeldOnce' /\ HeldIsSound' /\ ValidIsSound'
  BY <1>3 DEF MapsAsked, HeldOnce, HeldIsSound, ValidIsSound, SoundRow
<1>6. InsertsOnce'
  BY <1>1, <1>3 DEF InsertsOnce, ShapeOK
<1>7. WrittenRowsAreSound'
  BY <1>1, <1>2 DEF WrittenRowsAreSound, ValidIsSound, SoundRow
<1> QED
  BY <1>4, <1>5, <1>6, <1>7

-----------------------------------------------------------------------------
(* While only one mapping is asked for, SoundInv is inductive.                *)
THEOREM SoundInvariant == OneMapping /\ Spec => []SoundInv
<1> SUFFICES ASSUME OneMapping
             PROVE  Spec => []SoundInv
  OBVIOUS
<1>1. Init => SoundInv
  BY InitSound
<1>2. SoundInv /\ [Next]_vars => SoundInv'
  <2> SUFFICES ASSUME SoundInv, [Next]_vars
               PROVE  SoundInv'
    OBVIOUS
  <2>1. CASE UNCHANGED vars
    BY <2>1, StutterIsQuiet, QuietKeepsSound
  <2>2. ASSUME NEW p \in Procs, Step(p)
        PROVE  SoundInv'
    BY <2>2, WalksAreQuiet, ReadsAreQuiet, QuietKeepsSound, ClearKeepsSound,
       InsertKeepsSound, RewriteKeepsSound, ReadKeepsSound, FlushKeepsSound,
       CommitKeepsSound DEF Step
  <2>3. ASSUME NEW p \in Procs, Rejects(p) \/ Dies(p)
        PROVE  SoundInv'
    BY <2>3, WalksAreQuiet, QuietKeepsSound
  <2> QED
    BY <2>1, <2>2, <2>3 DEF Next
<1> QED
  BY <1>1, <1>2, PTL DEF Spec

(* A row that reaches the business collection passes the checks under the     *)
(* mapping it is written with (validateImportJob, commitBatch), although a    *)
(* second execution may delete and stage the rows anew at any moment: if all  *)
(* requests ask for one mapping.                                              *)
THEOREM OnlySoundRowsAreWritten == OneMapping /\ Spec => []WrittenRowsAreSound
<1>1. SoundInv => WrittenRowsAreSound
  BY DEF SoundInv
<1> QED
  BY <1>1, SoundInvariant, PTL

-----------------------------------------------------------------------------

(* A set of rows can be counted, and has at most N elements. *)
LEMMA CountRows ==
  ASSUME NEW S \in SUBSET Rows
  PROVE  IsFiniteSet(S) /\ Cardinality(S) \in 0..N
<1>1. N \in Int /\ 1 \in Int /\ N \in Nat
  BY ImportPipelineAssumption
<1>2. IsFiniteSet(Rows) /\ Cardinality(Rows) <= N
  BY <1>1, FS_Interval DEF Rows
<1>3. IsFiniteSet(S) /\ Cardinality(S) <= Cardinality(Rows)
  BY <1>2, FS_Subset
<1>4. Cardinality(S) \in Nat /\ Cardinality(Rows) \in Nat
  BY <1>2, <1>3, FS_CardinalityType
<1> QED
  BY <1>1, <1>2, <1>3, <1>4

(* Rows that are added to others are counted once. *)
LEMMA CountAdded ==
  ASSUME NEW S \in SUBSET Rows, NEW T \in SUBSET Rows, S \cap T = {}
  PROVE  Cardinality(S \cup T) = Cardinality(S) + Cardinality(T)
<1>1. IsFiniteSet(S) /\ IsFiniteSet(T) /\ Cardinality(S) \in Nat /\ Cardinality(T) \in Nat
  BY CountRows
<1>2. Cardinality(S \cup T) = Cardinality(S) + Cardinality(T) - Cardinality(S \cap T)
  BY <1>1, FS_Union
<1>3. Cardinality(S \cap T) = 0
  BY FS_EmptySet, Zenon
<1> QED
  BY <1>1, <1>2, <1>3

-----------------------------------------------------------------------------
(* The shape of the state.                                                 *)

Maps == FieldMaps \cup {NoMap}

ProcsOK ==
    /\ at \in [Procs -> Places]
    /\ saw \in [Procs -> [status : Statuses, map : Maps]]
    /\ passed \in [Procs -> SUBSET Rows]
    /\ held \in [Procs -> SUBSET HeldRecords]
    /\ tally \in [Procs -> [valid : Nat, invalid : Nat, again : BOOLEAN]]

\* A validation has counted the rows that its loop has passed.
TallyOK ==
    \A p \in Procs : Validating(p) =>
        tally[p].valid + tally[p].invalid = Cardinality(passed[p])

TypeInv == ImportTypeOK /\ ProcsOK /\ TallyOK

LEMMA TypeInit ==
  ASSUME Init
  PROVE  TypeInv
<1> USE ImportPipelineAssumption
<1>1. ImportTypeOK
  BY DEF Init, ImportTypeOK, Statuses
<1>2. ProcsOK
  BY DEF Init, ProcsOK, Places, Statuses, Maps, Untallied
<1>3. TallyOK
  BY DEF Init, TallyOK, Validating
<1> QED
  BY <1>1, <1>2, <1>3 DEF TypeInv

\* A step of p that changes, besides the job's status and fieldMap, only where p
\* is, what it knows and which rows it has passed, and is not about to validate.
Moves(p) ==
    /\ UNCHANGED <<counts, rowVars, held, tally>>
    /\ status' \in Statuses /\ fieldMap' \in Maps
    /\ at' = [at EXCEPT ![p] = at'[p]] /\ at'[p] \in Places
    /\ saw' = [saw EXCEPT ![p] = saw'[p]] /\ saw'[p] \in [status : Statuses, map : Maps]
    /\ passed' = [passed EXCEPT ![p] = passed'[p]] /\ passed'[p] \in SUBSET Rows
    /\ Validating(p)' => Validating(p) /\ UNCHANGED passed

LEMMA MovesKeepType ==
  ASSUME TypeInv, NEW p \in Procs, Moves(p)
  PROVE  TypeInv'
<1> USE DEF TypeInv, Moves
<1>1. ImportTypeOK'
  BY DEF ImportTypeOK, rowVars, Staged, Maps
<1>2. ProcsOK'
  BY DEF ProcsOK
<1>3. TallyOK'
  BY DEF TallyOK, Validating, ProcsOK
<1> QED
  BY <1>1, <1>2, <1>3

LEMMA WalksMove ==
  ASSUME TypeInv, NEW p \in Procs,
         \/ CreateJob(p) \/ ReadUpload(p) \/ SaveUploaded(p) \/ Trigger(p) \/ Parse(p)
         \/ SaveFailed(p) \/ AutoMap(p) \/ RefuseMapping(p) \/ RefuseProfile(p)
         \/ AutoValidate(p) \/ RefuseValidation(p) \/ GiveUp(p)
         \/ BeginCommit(p) \/ Exit(p) \/ WriteResult(p) \/ Rejects(p) \/ Dies(p)
  PROVE  Moves(p)
<1> USE DEF Moves, Goes, jobVars, localVars, checkVars, Validating
<1>0. /\ at \in [Procs -> Places] /\ status \in Statuses /\ fieldMap \in Maps
      /\ passed = [passed EXCEPT ![p] = passed[p]] /\ passed[p] \in SUBSET Rows
      /\ saw = [saw EXCEPT ![p] = saw[p]] /\ saw[p] \in [status : Statuses, map : Maps]
  BY DEF TypeInv, ImportTypeOK, ProcsOK, Maps
<1>1. CASE CreateJob(p)
  BY <1>0, <1>1 DEF Places, Statuses, Stageable, CreateJob, MayStart
<1>2. CASE ReadUpload(p)
  BY <1>0, <1>2 DEF Places, ReadUpload
<1>3. CASE SaveUploaded(p) \/ Trigger(p)
  BY <1>0, <1>3 DEF Places, Statuses, Stageable, SaveUploaded, Trigger
<1>4. CASE Parse(p)
  BY <1>0, <1>4 DEF Places, Statuses, Stageable, Parse
<1>5. CASE SaveFailed(p)
  BY <1>0, <1>5 DEF Places, Statuses, SaveFailed
<1>6. CASE AutoMap(p)
  BY <1>0, <1>6 DEF Places, AutoMap
<1>7. CASE RefuseMapping(p) \/ RefuseProfile(p)
  BY <1>0, <1>7 DEF Places, RefuseMapping, RefuseProfile, Breaks
<1>8. CASE AutoValidate(p) \/ RefuseValidation(p)
  BY <1>0, <1>8 DEF Places, AutoValidate, RefuseValidation
<1>9. CASE GiveUp(p)
  BY <1>0, <1>9 DEF Places, Statuses, GiveUp
<1>10. CASE BeginCommit(p) \/ Exit(p) \/ WriteResult(p)
  BY <1>0, <1>10 DEF Places, Statuses, Ready, BeginCommit, Exit, WriteResult, Breaks
<1>11. CASE Rejects(p) \/ Dies(p)
  BY <1>0, <1>11 DEF Places, Rejects, Dies, Breaks
<1> QED
  BY <1>1, <1>2, <1>3, <1>4, <1>5, <1>6, <1>7, <1>8, <1>9, <1>10, <1>11

LEMMA ReadsMove ==
  ASSUME TypeInv, NEW p \in Procs,
         \/ StartExecution(p) \/ BeginMapping(p) \/ SaveMapping(p) \/ Refresh(p) \/ Mark(p)
  PROVE  Moves(p)
<1> USE DEF Moves, Goes, jobVars, localVars, checkVars, Validating
<1>0. /\ at \in [Procs -> Places] /\ status \in Statuses /\ fieldMap \in Maps
      /\ passed = [passed EXCEPT ![p] = passed[p]] /\ passed \in [Procs -> SUBSET Rows]
      /\ saw = [saw EXCEPT ![p] = saw[p]]
      /\ saw \in [Procs -> [status : Statuses, map : Maps]]
  BY DEF TypeInv, ImportTypeOK, ProcsOK, Maps
<1>1. CASE StartExecution(p)
  BY <1>0, <1>1 DEF Places, StartExecution
<1>2. CASE BeginMapping(p)
  <2>1. p \in Mappings => Wanted[p] \in FieldMaps
    BY ImportPipelineAssumption
  <2>2. saw'[p] \in [status : Statuses, map : Maps]
    BY <1>0, <1>2, <2>1 DEF BeginMapping, Maps
  <2> QED
    BY <1>0, <1>2, <2>2 DEF Places, BeginMapping
<1>3. CASE SaveMapping(p)
  <2>1. saw'[p] \in [status : Statuses, map : Maps] /\ saw[p].map \in Maps
    BY <1>0, <1>3 DEF SaveMapping, Statuses, Ready
  <2> QED
    BY <1>0, <1>3, <2>1 DEF Places, Statuses, Ready, SaveMapping
<1>4. CASE Refresh(p)
  <2>1. saw' = [saw EXCEPT ![p] = saw'[p]] /\ saw'[p] \in [status : Statuses, map : Maps]
    BY <1>0, <1>4 DEF Refresh
  <2> QED
    BY <1>0, <1>4, <2>1 DEF Places, Refresh
<1>5. CASE Mark(p)
  BY <1>0, <1>5 DEF Places, Statuses, Ready, Mark
<1> QED
  BY <1>1, <1>2, <1>3, <1>4, <1>5

LEMMA StagingKeepsType ==
  ASSUME TypeInv, NEW p \in Procs,
         \/ Clear(p) \/ InsertRows(p) \/ InsertFails(p)
         \/ SaveStaged(p) \/ SaveStagedFails(p)
  PROVE  TypeInv'
<1> USE DEF TypeInv, Goes, jobVars, localVars, checkVars
<1>1. ToInsert(p) \subseteq Rows
  BY FirstRowsOf DEF ToInsert
<1>2. N \in 0..N /\ Nobody \notin Procs
  BY ImportPipelineAssumption
<1>3. CASE Clear(p)
  <2>1. ImportTypeOK'
    BY <1>3 DEF Clear, ImportTypeOK, Staged
  <2>2. ProcsOK' /\ TallyOK'
    BY <1>3 DEF Clear, ProcsOK, TallyOK, Validating, Places
  <2> QED
    BY <2>1, <2>2
<1>4. CASE InsertRows(p) \/ InsertFails(p)
  <2>1. PICK S \in SUBSET Rows : Inserted(p, S)
    BY <1>1, <1>4 DEF InsertRows, InsertFails
  <2>2. UNCHANGED <<status, fieldMap, counts, mapped, verdict, outcome, entity>>
    BY <1>4 DEF InsertRows, InsertFails
  <2>3. ImportTypeOK'
    BY <2>1, <2>2, <1>2 DEF ImportTypeOK, Inserted, Staged
  <2>4. ProcsOK' /\ TallyOK'
    BY <1>1, <1>4, ZenonT(30) DEF InsertRows, InsertFails, Breaks, ProcsOK, TallyOK, Validating, Places
  <2> QED
    BY <2>3, <2>4
<1>5. CASE SaveStaged(p) \/ SaveStagedFails(p)
  <2>1. ImportTypeOK'
    BY <1>2, <1>5 DEF SaveStaged, SaveStagedFails, ImportTypeOK, rowVars, Staged,
                      Statuses, Ready
  <2>2. /\ saw' = [saw EXCEPT ![p] = saw'[p]]
        /\ saw'[p] \in [status : Statuses, map : Maps]
    BY <1>5 DEF SaveStaged, SaveStagedFails, ProcsOK, ImportTypeOK, Statuses, Ready, Maps
  <2>3. ProcsOK' /\ TallyOK'
    BY <1>5, <2>2 DEF SaveStaged, SaveStagedFails, ProcsOK, TallyOK, Validating, Places
  <2> QED
    BY <2>1, <2>3
<1> QED
  BY <1>3, <1>4, <1>5

LEMMA RowsKeepType ==
  ASSUME TypeInv, NEW p \in Procs, RewriteRows(p) \/ FlushRows(p) \/ CommitRow(p)
  PROVE  TypeInv'
<1> USE DEF TypeInv, Goes, jobVars, localVars, checkVars
<1>1. Staged \subseteq Rows
  BY DEF Staged
<1>2. CASE RewriteRows(p)
  <2>0. PICK S \in SUBSET Rows :
          /\ S \subseteq Staged
          /\ mapped' = [x \in Rows |-> IF x \in S THEN saw[p].map ELSE mapped[x]]
          /\ passed' = [passed EXCEPT ![p] = @ \cup S]
    BY <1>2, LeftIsOfRows DEF RewriteRows
  <2>1. ImportTypeOK'
    BY <1>1, <1>2, <2>0 DEF RewriteRows, ImportTypeOK, ProcsOK, Staged, Maps
  <2>2. ProcsOK' /\ TallyOK'
    BY <1>1, <1>2, <2>0 DEF RewriteRows, ProcsOK, TallyOK, Validating, Places
  <2> QED
    BY <2>1, <2>2
<1>3. CASE FlushRows(p)
  <2>1. ASSUME NEW x \in Rows, \E h \in held[p] : h.row = x /\ h.by = staged[x]
        PROVE  /\ (CHOOSE h \in held[p] : h.row = x).verdict \in {"valid", "invalid"}
               /\ x \in Staged
    <3>1. (CHOOSE h \in held[p] : h.row = x) \in held[p]
      BY <2>1
    <3>2. \A h \in held[p] : h.verdict \in {"valid", "invalid"} /\ h.by \in Procs
      BY DEF ProcsOK, HeldRecords
    <3> QED
      BY <2>1, <3>1, <3>2, ImportPipelineAssumption DEF Staged
  <2>2. ImportTypeOK'
    BY <1>3, <2>1 DEF FlushRows, ImportTypeOK, Staged
  <2>3. ProcsOK' /\ TallyOK'
    BY <1>3 DEF FlushRows, ProcsOK, TallyOK, Validating, Places
  <2> QED
    BY <2>2, <2>3
<1>4. CASE CommitRow(p)
  <2>1. ToCommit(p) \subseteq Staged
    BY FirstRowsOf DEF ToCommit
  <2>2. ImportTypeOK'
    BY <1>1, <1>4, <2>1 DEF CommitRow, ImportTypeOK, Staged
  <2>3. ProcsOK' /\ TallyOK'
    BY <1>1, <1>4, <2>1 DEF CommitRow, ProcsOK, TallyOK, Validating
  <2> QED
    BY <2>2, <2>3
<1> QED
  BY <1>2, <1>3, <1>4

(* The counts a validation writes are of rows it has passed, so they are      *)
(* counts of rows.                                                            *)
LEMMA CheckingKeepsType ==
  ASSUME TypeInv, NEW p \in Procs,
         \/ BeginValidation(p) \/ FindDuplicates(p) \/ FindExisting(p) \/ ReadRows(p)
         \/ WriteValidated(p)
  PROVE  TypeInv'
<1> USE DEF TypeInv, Goes, jobVars, localVars, checkVars
<1>1. CASE BeginValidation(p)
  <2>1. ImportTypeOK'
    BY <1>1 DEF BeginValidation, ImportTypeOK, rowVars, Staged
  <2>2. ProcsOK'
    BY <1>1 DEF BeginValidation, ProcsOK, Places, Untallied
  <2>3. Cardinality({}) = 0
    BY FS_EmptySet
  <2>4. TallyOK'
    BY <1>1, <2>3 DEF BeginValidation, ProcsOK, TallyOK, Validating, Untallied
  <2> QED
    BY <2>1, <2>2, <2>4
<1>2. CASE FindDuplicates(p) \/ FindExisting(p)
  <2>1. ImportTypeOK'
    BY <1>2 DEF FindDuplicates, FindExisting, ImportTypeOK, rowVars, Staged
  <2>2. ProcsOK' /\ TallyOK'
    BY <1>2 DEF FindDuplicates, FindExisting, ProcsOK, TallyOK, Validating, Places
  <2> QED
    BY <2>1, <2>2
<1>3. CASE ReadRows(p)
  <2>0. PICK next \in SUBSET Rows, F \in SUBSET Rows : Reads(p, next, F)
    BY <1>3, ReadsSome
  <2> DEFINE ok == {x \in next : Passes(p, F, x)}
             record(x) == [row |-> x, by |-> staged[x],
                           verdict |-> IF x \in ok THEN "valid" ELSE "invalid"]
  <2>1. next \cap passed[p] = {} /\ \A x \in next : staged[x] # Nobody
    BY <2>0 DEF Reads, Left, Staged
  <2>2. /\ Cardinality(next) = Cardinality(ok) + Cardinality(next \ ok)
        /\ Cardinality(ok) \in Nat /\ Cardinality(next \ ok) \in Nat /\ Cardinality(next) \in Nat
    <3>1. /\ ok \in SUBSET Rows /\ next \ ok \in SUBSET Rows /\ ok \cap (next \ ok) = {}
          /\ ok \cup (next \ ok) = next
      OBVIOUS
    <3>2. Cardinality(ok \cup (next \ ok)) = Cardinality(ok) + Cardinality(next \ ok)
      BY <3>1, CountAdded
    <3> QED
      BY <3>1, <3>2, CountRows
  <2>3. Cardinality(passed[p] \cup next) = Cardinality(passed[p]) + Cardinality(next)
    <3>1. passed[p] \in SUBSET Rows
      BY DEF ProcsOK
    <3> QED
      BY <2>1, <3>1, CountAdded
  <2>4. tally'[p] = [valid |-> tally[p].valid + Cardinality(ok),
                     invalid |-> tally[p].invalid + Cardinality(next \ ok),
                     again |-> tally[p].again]
    BY <2>0 DEF Reads, ProcsOK
  <2>5. /\ tally[p].valid \in Nat /\ tally[p].invalid \in Nat /\ tally[p].again \in BOOLEAN
        /\ at[p] = "check"
        /\ tally' = [tally EXCEPT ![p] = tally'[p]]
        /\ passed' = [passed EXCEPT ![p] = @ \cup next]
    BY <1>3, <2>0 DEF ReadRows, Reads, ProcsOK
  <2>6. tally'[p] \in [valid : Nat, invalid : Nat, again : BOOLEAN]
    BY <2>2, <2>4, <2>5
  <2>7. held'[p] \in SUBSET HeldRecords /\ held' = [held EXCEPT ![p] = held'[p]]
    <3>1. \A x \in next : record(x) \in HeldRecords
      BY <2>1 DEF ImportTypeOK, HeldRecords
    <3>2. held'[p] = {record(x) : x \in next} /\ held' = [held EXCEPT ![p] = held'[p]]
      BY <2>0 DEF Reads, ProcsOK
    <3> QED
      BY <3>1, <3>2
  <2>8. ProcsOK'
    BY <1>3, <2>1, <2>5, <2>6, <2>7 DEF ReadRows, ProcsOK, Places
  <2>9. TallyOK'
    <3>1. tally'[p].valid + tally'[p].invalid = Cardinality(passed'[p])
      <4>1. tally[p].valid + tally[p].invalid = Cardinality(passed[p])
        BY <2>5 DEF TallyOK, Validating
      <4>2. passed'[p] = passed[p] \cup next
        BY <2>5 DEF ProcsOK
      <4>3. /\ tally'[p].valid = tally[p].valid + Cardinality(ok)
            /\ tally'[p].invalid = tally[p].invalid + Cardinality(next \ ok)
        BY <2>4
      <4>4. ASSUME NEW v \in Nat, NEW i \in Nat, NEW n \in Nat, NEW k \in Nat
            PROVE  (v + k) + (i + n) = (v + i) + (k + n)
        OBVIOUS
      <4> HIDE DEF ok
      <4>5. tally'[p].valid + tally'[p].invalid
              = tally[p].valid + tally[p].invalid + Cardinality(next)
        BY <2>2, <2>5, <4>3, <4>4
      <4> QED
        BY <2>3, <4>1, <4>2, <4>5
    <3>2. \A q \in Procs \ {p} : UNCHANGED <<at[q], tally[q], passed[q]>>
      BY <1>3, <2>5 DEF ReadRows, ProcsOK
    <3> QED
      BY <3>1, <3>2 DEF TallyOK, Validating
  <2>10. ImportTypeOK'
    BY <1>3 DEF ReadRows, ImportTypeOK, rowVars, Staged
  <2> QED
    BY <2>8, <2>9, <2>10
<1>4. CASE WriteValidated(p)
  <2>1. tally[p].valid \in 0..N /\ tally[p].invalid \in 0..N
    <3>1. tally[p].valid \in Nat /\ tally[p].invalid \in Nat
      BY DEF ProcsOK
    <3>2. tally[p].valid + tally[p].invalid = Cardinality(passed[p])
      BY <1>4 DEF WriteValidated, TallyOK, Validating
    <3>3. Cardinality(passed[p]) \in 0..N
      BY CountRows DEF ProcsOK
    <3> QED
      BY <3>1, <3>2, <3>3, ImportPipelineAssumption
  <2>2. ImportTypeOK'
    BY <1>4, <2>1 DEF WriteValidated, ImportTypeOK, rowVars, Staged, Statuses, Ready
  <2>3. ProcsOK' /\ TallyOK'
    BY <1>4 DEF WriteValidated, ProcsOK, TallyOK, Validating, Places, Untallied
  <2> QED
    BY <2>2, <2>3
<1> QED
  BY <1>1, <1>2, <1>3, <1>4

LEMMA TypeInvariant == Spec => []TypeInv
<1>1. TypeInv /\ [Next]_vars => TypeInv'
  <2> SUFFICES ASSUME TypeInv, [Next]_vars
               PROVE  TypeInv'
    OBVIOUS
  <2>1. CASE UNCHANGED vars
    BY <2>1 DEF vars, jobVars, rowVars, localVars, checkVars, TypeInv, ImportTypeOK,
                Staged, ProcsOK, TallyOK, Validating
  <2>2. ASSUME NEW p \in Procs, Step(p)
        PROVE  TypeInv'
    BY <2>2, WalksMove, ReadsMove, MovesKeepType, StagingKeepsType, RowsKeepType,
       CheckingKeepsType DEF Step
  <2>3. ASSUME NEW p \in Procs, Rejects(p) \/ Dies(p)
        PROVE  TypeInv'
    BY <2>3, WalksMove, MovesKeepType
  <2> QED
    BY <2>1, <2>2, <2>3 DEF Next
<1> QED
  BY <1>1, TypeInit, PTL DEF Spec

(* Whatever overlaps, dies and is retried, the job, its counts and its rows   *)
(* keep their shape: what a validation has counted never exceeds the file,    *)
(* and a record that is gone has no verdict or outcome                        *)
(* (ImportStagedRecord.model.js).                                             *)
THEOREM ImportTypeCorrect == Spec => []ImportTypeOK
<1>1. TypeInv => ImportTypeOK
  BY DEF TypeInv
<1> QED
  BY <1>1, TypeInvariant, PTL

-----------------------------------------------------------------------------
(* The whole file is staged.                                               *)

Whole == Staged = Rows /\ counts.staged = N

\* Places to which a process only comes when it knows that the rows are staged.
Working == {"rewrite", "savemap", "dups", "existing", "check", "flush", "mark", "commit"}

\* Nobody knows of a staged row.
Fresh ==
    /\ status \notin Ready
    /\ \A p \in Procs : saw[p].status \notin Ready /\ at[p] \notin Working

Unstaged == Stageable \cup {"absent", "pending_upload"}

\* p is, or will be, deleting or inserting rows.
Prepares(p) ==
    \/ at[p] \in {"clear", "insert", "stage"}
    \/ at[p] = "parse" /\ saw[p].status \in Stageable

Only(p) == \A q \in Procs \ {p} : ~AtWork(q)

\* As long as a job has a status in which it can be staged nobody relies on its
\* rows; whoever stages it is alone; and afterwards nobody deletes any.
WholeInv ==
    /\ Fresh \/ Whole
    /\ status \in Unstaged => Fresh
    /\ \A p \in Procs : Prepares(p) => status \in Stageable /\ Only(p)
    /\ \A p \in Procs : at[p] = "verify" => status = "pending_upload" /\ Only(p)
    /\ \A p \in Procs : at[p] = "stage" => Staged = Rows
    /\ \A p \in Procs : at[p] = "insert" => passed[p] \subseteq Staged
    /\ \A p \in Procs : at[p] = "idle" => passed[p] = {}

LEMMA WholeInit ==
  ASSUME Init
  PROVE  WholeInv
BY DEF Init, WholeInv, Fresh, Ready, Terminal, Working, Unstaged, Stageable, Prepares

(* What comes to a job that is new or not staged yet comes alone; and what    *)
(* starts with a staged job finds nobody preparing it.                        *)
LEMMA StartsAlone ==
  ASSUME ~Overlapping, WholeInv, NEW p \in Procs, MayStart(p)
  PROVE  /\ p \in Uploads \cup Completions \cup Executions => Only(p)
         /\ p \in Uploads \cup Completions \cup Executions \/ status \in Ready
              => \A q \in Procs : ~Prepares(q) /\ at[q] # "verify"
<1>1. ASSUME p \in Uploads \cup Completions \cup Executions
      PROVE  Only(p) /\ \A q \in Procs : ~Prepares(q) /\ at[q] # "verify"
  BY <1>1, ImportPipelineAssumption DEF MayStart, Only, Prepares, AtWork
<1>2. ASSUME status \in Ready
      PROVE  \A q \in Procs : ~Prepares(q) /\ at[q] # "verify"
  BY <1>2 DEF WholeInv, Ready, Terminal, Stageable
<1> QED
  BY <1>1, <1>2

\* A step of p that neither stages nor deletes rows, keeps Fresh, and neither
\* disturbs who prepares the job nor begins to do so beside others.
Calm(p) ==
    /\ staged' = staged /\ counts'.staged = counts.staged
    /\ at' = [at EXCEPT ![p] = at'[p]]
    /\ saw' = [saw EXCEPT ![p] = saw'[p]]
    /\ passed' = [passed EXCEPT ![p] = passed'[p]]
    /\ at'[p] \notin {"idle", "insert", "stage"}
    /\ Fresh => status' \notin Ready /\ saw'[p].status \notin Ready /\ at'[p] \notin Working
    /\ status' \in Unstaged => status \in Unstaged
    /\ Prepares(p)' => status' \in Stageable /\ Only(p)
    /\ at'[p] = "verify" => status' = "pending_upload" /\ Only(p)
    /\ AtWork(p) \/ \/ UNCHANGED status /\ ~AtWork(p)'
                    \/ \A q \in Procs : ~Prepares(q) /\ at[q] # "verify"

LEMMA CalmKeepsWhole ==
  ASSUME TypeInv, WholeInv, NEW p \in Procs, Calm(p)
  PROVE  WholeInv'
<1> USE DEF Calm
<1>0. /\ at \in [Procs -> Places] /\ DOMAIN saw = Procs /\ DOMAIN passed = Procs
      /\ \A q \in Procs \ {p} : at'[q] = at[q] /\ saw'[q] = saw[q] /\ passed'[q] = passed[q]
  BY DEF TypeInv, ProcsOK
<1>1. Fresh => Fresh'
  BY <1>0 DEF Fresh
<1>2. Whole => Whole'
  BY DEF Whole, Staged
<1>3. Only(p) => Only(p)'
  BY <1>0 DEF Only, AtWork
<1>4. ASSUME NEW q \in Procs \ {p}, Prepares(q) \/ at[q] = "verify", Only(q)
      PROVE  UNCHANGED status /\ Only(q)'
  <2>1. ~AtWork(p)
    BY <1>4 DEF Only
  <2>2. UNCHANGED status /\ ~AtWork(p)'
    BY <1>4, <2>1
  <2> QED
    BY <1>0, <1>4, <2>2 DEF Only, AtWork
<1>5. ASSUME NEW q \in Procs, Prepares(q)'
      PROVE  status' \in Stageable /\ Only(q)'
  BY <1>0, <1>3, <1>4, <1>5 DEF WholeInv, Prepares
<1>6. ASSUME NEW q \in Procs, at'[q] = "verify"
      PROVE  status' = "pending_upload" /\ Only(q)'
  BY <1>0, <1>3, <1>4, <1>6 DEF WholeInv
<1>7. ASSUME NEW q \in Procs
      PROVE  /\ at'[q] = "stage" => Staged' = Rows
             /\ at'[q] = "insert" => passed'[q] \subseteq Staged'
             /\ at'[q] = "idle" => passed'[q] = {}
  BY <1>0 DEF WholeInv, Staged
<1> QED
  BY <1>1, <1>2, <1>5, <1>6, <1>7 DEF WholeInv

(* All steps are calm but those that create, stage or clear rows.             *)
LEMMA StepsAreCalm ==
  ASSUME ~Overlapping, TypeInv, WholeInv, NEW p \in Procs,
         \/ ReadUpload(p) \/ SaveUploaded(p) \/ Trigger(p) \/ StartExecution(p)
         \/ (Parse(p) \/ SaveFailed(p))
         \/ (AutoMap(p) \/ BeginMapping(p) \/ RefuseMapping(p))
         \/ (RewriteRows(p) \/ SaveMapping(p) \/ RefuseProfile(p))
         \/ (AutoValidate(p) \/ BeginValidation(p) \/ RefuseValidation(p))
         \/ (FindDuplicates(p) \/ FindExisting(p) \/ ReadRows(p) \/ FlushRows(p))
         \/ (WriteValidated(p) \/ Refresh(p) \/ GiveUp(p))
         \/ (BeginCommit(p) \/ Exit(p) \/ Mark(p) \/ CommitRow(p) \/ WriteResult(p))
         \/ (Rejects(p) \/ Dies(p))
         \/ (CreateJob(p) /\ at'[p] # "insert")
  PROVE  Calm(p)
<1> USE DEF Calm, Goes, jobVars, rowVars, localVars, checkVars
<1> USE DEF Ready, Terminal, Stageable, Unstaged, Working, AtWork, Prepares
<1>0. /\ at \in [Procs -> Places] /\ status \in Statuses
      /\ passed \in [Procs -> SUBSET Rows]
      /\ saw \in [Procs -> [status : Statuses, map : Maps]]
      /\ saw = [saw EXCEPT ![p] = saw[p]] /\ passed = [passed EXCEPT ![p] = passed[p]]
      /\ at = [at EXCEPT ![p] = at[p]]
      /\ counts \in [staged : 0..N, valid : 0..N, invalid : 0..N]
  BY DEF TypeInv, ImportTypeOK, ProcsOK
<1>1. MayStart(p) => /\ p \in Uploads \cup Completions \cup Executions => Only(p)
                     /\ p \in Uploads \cup Completions \cup Executions \/ status \in Ready
                          => \A q \in Procs : ~Prepares(q) /\ at[q] # "verify"
  BY StartsAlone
<1>2. CASE ReadUpload(p)
  BY <1>0, <1>1, <1>2 DEF ReadUpload, Fresh
<1>3. CASE SaveUploaded(p) \/ Trigger(p)
  BY <1>0, <1>3 DEF SaveUploaded, Trigger, Fresh, WholeInv
<1>4. CASE StartExecution(p)
  BY <1>0, <1>1, <1>4 DEF StartExecution, Fresh, WholeInv
<1>5. CASE Parse(p) \/ SaveFailed(p)
  BY <1>0, <1>5 DEF Parse, SaveFailed, Fresh, WholeInv
<1>6. CASE AutoMap(p) \/ BeginMapping(p) \/ RefuseMapping(p)
  BY <1>0, <1>1, <1>6 DEF AutoMap, BeginMapping, RefuseMapping, Breaks, Fresh, MayStart
<1>7. CASE RewriteRows(p) \/ SaveMapping(p) \/ RefuseProfile(p)
  BY <1>0, <1>7 DEF RewriteRows, SaveMapping, RefuseProfile, Fresh
<1>8. CASE AutoValidate(p) \/ BeginValidation(p) \/ RefuseValidation(p)
  BY <1>0, <1>1, <1>8 DEF AutoValidate, BeginValidation, RefuseValidation, Fresh, MayStart
<1>9. CASE FindDuplicates(p) \/ FindExisting(p) \/ ReadRows(p) \/ FlushRows(p)
  BY <1>0, <1>9 DEF FindDuplicates, FindExisting, ReadRows, FlushRows, Fresh
<1>10. CASE WriteValidated(p) \/ Refresh(p) \/ GiveUp(p)
  <2>1. CASE WriteValidated(p)
    BY <1>0, <2>1 DEF WriteValidated, Fresh
  <2>2. CASE Refresh(p)
    <3>1. saw' = [saw EXCEPT ![p] = saw'[p]] /\ saw'[p].status \in {saw[p].status, status}
      BY <1>0, <2>2 DEF Refresh
    <3> QED
      BY <1>0, <2>2, <3>1 DEF Refresh, Fresh
  <2>3. CASE GiveUp(p)
    BY <1>0, <2>3 DEF GiveUp, Fresh
  <2> QED
    BY <1>10, <2>1, <2>2, <2>3
<1>11. CASE BeginCommit(p) \/ Exit(p) \/ Mark(p) \/ CommitRow(p) \/ WriteResult(p)
  BY <1>0, <1>1, <1>11
     DEF BeginCommit, Exit, Mark, CommitRow, WriteResult, Breaks, Fresh, MayStart
<1>12. CASE Rejects(p) \/ Dies(p)
  BY <1>0, <1>12 DEF Rejects, Dies, Breaks, Fresh
<1>13. CASE CreateJob(p) /\ at'[p] # "insert"
  BY <1>0, <1>1, <1>13 DEF CreateJob, MayStart, Fresh, WholeInv
<1> QED
  BY <1>2, <1>3, <1>4, <1>5, <1>6, <1>7, <1>8, <1>9, <1>10, <1>11, <1>12, <1>13

(* Whoever stages the rows is alone with a job nobody knows to be staged.     *)
LEMMA PreparingKeepsWhole ==
  ASSUME ~Overlapping, TypeInv, WholeInv, NEW p \in Procs,
         \/ CreateJob(p) /\ at'[p] = "insert"
         \/ Clear(p) \/ InsertRows(p) \/ InsertFails(p) \/ SaveStaged(p) \/ SaveStagedFails(p)
  PROVE  WholeInv'
<1> USE DEF Goes, jobVars, rowVars, localVars, checkVars
<1>0. /\ at \in [Procs -> Places] /\ DOMAIN saw = Procs /\ DOMAIN passed = Procs
      /\ counts \in [staged : 0..N, valid : 0..N, invalid : 0..N]
  BY DEF TypeInv, ImportTypeOK, ProcsOK
<1>1. CASE CreateJob(p) /\ at'[p] = "insert"
  <2>1. /\ Only(p) /\ at[p] = "idle" /\ status = "absent" /\ status' = "uploaded"
        /\ at' = [at EXCEPT ![p] = "insert"]
        /\ UNCHANGED <<counts, staged, saw, passed>>
        /\ \A q \in Procs : ~Prepares(q) /\ at[q] # "verify"
    BY <1>0, <1>1, StartsAlone DEF CreateJob, MayStart
  <2> USE <1>0, <2>1 DEF Stageable
  <2>2. Fresh'
    BY DEF WholeInv, Fresh, Unstaged, Working, Ready, Terminal
  <2>3. Only(p)'
    BY DEF Only, AtWork
  <2>4. \A q \in Procs : (Prepares(q)' => q = p) /\ at'[q] # "verify"
    BY DEF Prepares
  <2>5. passed'[p] = {} /\ \A q \in Procs : at'[q] \in {"stage", "insert"} => q = p
    BY DEF WholeInv, Prepares
  <2> QED
    BY <2>2, <2>3, <2>4, <2>5 DEF WholeInv
<1>2. CASE Clear(p) \/ InsertRows(p) \/ InsertFails(p) \/ SaveStaged(p) \/ SaveStagedFails(p)
  <2>1. at[p] \in {"clear", "insert", "stage"} /\ \A q \in Procs \ {p} : at'[q] = at[q]
    BY <1>0, <1>2
       DEF Clear, InsertRows, InsertFails, SaveStaged, SaveStagedFails, Breaks
  <2>2. Only(p) /\ status \in Stageable /\ Fresh
    BY <2>1 DEF WholeInv, Prepares, Unstaged
  <2>3. /\ Only(p)'
        /\ \A q \in Procs \ {p} : ~Prepares(q)' /\ at'[q] \notin {"verify", "insert", "stage"}
    <3>1. \A q \in Procs \ {p} : ~AtWork(q)'
      BY <2>1, <2>2 DEF Only, AtWork
    <3> QED
      BY <3>1 DEF Only, AtWork, Prepares
  <2>4. \A q \in Procs \ {p} : at'[q] = "idle" => passed'[q] = {}
    BY <1>0, <1>2, <2>1
       DEF Clear, InsertRows, InsertFails, SaveStaged, SaveStagedFails, WholeInv
  <2>5. CASE Clear(p)
    <3>1. Fresh' /\ status' \in Stageable /\ passed'[p] = {} /\ at'[p] = "insert"
      BY <1>0, <2>2, <2>5 DEF Clear, Fresh, Working
    <3> QED
      BY <2>3, <2>4, <3>1 DEF WholeInv
  <2>6. CASE InsertRows(p)
    <3>1. ToInsert(p) \subseteq Rows /\ passed[p] \subseteq Staged
      BY <2>6, FirstRowsOf DEF ToInsert, InsertRows, WholeInv
    <3>2. Staged' = Staged \cup ToInsert(p)
      BY <2>6, <3>1, ImportPipelineAssumption DEF InsertRows, Inserted, Staged
    <3>3. passed'[p] \subseteq Staged' /\ Staged' \subseteq Rows
      BY <1>0, <2>6, <3>1, <3>2 DEF InsertRows, Staged
    <3>4. at'[p] \in {"insert", "stage"} /\ (at'[p] = "stage" => Staged' = Rows)
      BY <1>0, <2>6, <3>3 DEF InsertRows
    <3>5. Fresh' /\ status' \in Stageable
      BY <1>0, <2>1, <2>2, <2>6, <3>4 DEF InsertRows, Fresh, Working
    <3> QED
      BY <2>3, <2>4, <3>3, <3>4, <3>5 DEF WholeInv
  <2>7. CASE InsertFails(p)
    <3>1. at'[p] \in {"fail", "broken"}
      BY <1>0, <2>7 DEF InsertFails, Breaks
    <3>2. Fresh'
      BY <1>0, <2>1, <2>2, <2>7, <3>1 DEF InsertFails, Fresh, Working
    <3> QED
      BY <2>3, <2>4, <3>1, <3>2 DEF WholeInv, Prepares
  <2>8. CASE SaveStaged(p) \/ SaveStagedFails(p)
    <3>1. at'[p] \in {"automap", "done", "fail"}
      BY <1>0, <2>8 DEF SaveStaged, SaveStagedFails
    <3>2. Staged = Rows /\ UNCHANGED staged
      BY <2>8 DEF SaveStaged, SaveStagedFails, WholeInv
    <3>3. \/ UNCHANGED <<status, counts, saw>>
          \/ status' = "staged" /\ counts'.staged = N
      BY <1>0, <2>8 DEF SaveStaged, SaveStagedFails
    <3>4. CASE UNCHANGED <<status, counts, saw>>
      <4>1. Fresh'
        BY <2>1, <2>2, <3>1, <3>4 DEF Fresh, Working
      <4> QED
        BY <2>3, <2>4, <3>1, <4>1 DEF WholeInv, Prepares
    <3>5. CASE status' = "staged" /\ counts'.staged = N
      <4>1. Whole' /\ status' \notin Unstaged
        BY <3>2, <3>5 DEF Whole, Staged, Unstaged, Stageable
      <4> QED
        BY <2>3, <2>4, <3>1, <4>1 DEF WholeInv, Prepares
    <3> QED
      BY <3>3, <3>4, <3>5
  <2> QED
    BY <1>2, <2>5, <2>6, <2>7, <2>8
<1> QED
  BY <1>1, <1>2

LEMMA WholeInvariant ==
  ASSUME ~Overlapping
  PROVE  Spec => []WholeInv
<1>1. TypeInv /\ WholeInv /\ [Next]_vars => WholeInv'
  <2> SUFFICES ASSUME TypeInv, WholeInv, [Next]_vars
               PROVE  WholeInv'
    OBVIOUS
  <2>1. CASE UNCHANGED vars
    BY <2>1 DEF vars, jobVars, rowVars, localVars, WholeInv, Fresh, Whole, Staged, Prepares,
                Only, AtWork
  <2>2. ASSUME NEW p \in Procs, Step(p)
        PROVE  WholeInv'
    BY <2>2, StepsAreCalm, CalmKeepsWhole, PreparingKeepsWhole DEF Step
  <2>3. ASSUME NEW p \in Procs, Rejects(p) \/ Dies(p)
        PROVE  WholeInv'
    BY <2>3, StepsAreCalm, CalmKeepsWhole
  <2> QED
    BY <2>1, <2>2, <2>3 DEF Next
<1> QED
  BY <1>1, WholeInit, TypeInvariant, PTL DEF Spec

(* When processes that passed their status check do not overlap, a job that   *)
(* got past staging has a staged record for every row of the file and says    *)
(* so, for any file and chunk, and however many executions died or failed     *)
(* while they inserted (stepParseAndStage, createImportJob).                  *)
THEOREM StagedJobsAreWhole ==
  ASSUME ~Overlapping
  PROVE  Spec => []StagedIsWholeFile
<1>1. WholeInv => StagedIsWholeFile
  BY DEF WholeInv, Fresh, Whole, StagedIsWholeFile
<1> QED
  BY <1>1, WholeInvariant, PTL

-----------------------------------------------------------------------------
(* The chunks in which rows are read.                                      *)

-----------------------------------------------------------------------------
(* What the job's rows are when processes take turns.                      *)

AllMapped == \A x \in Rows : mapped[x] \in FieldMaps

\* The rows' verdicts are those of one validation, or at least those of rows
\* without a twin are.
Right ==
    /\ AllMapped /\ CheckedAlone(verdict, Rows)
    /\ NoneHalfWay => OneOfTwins(verdict, Rows)

ValidOnes(v, S) == {x \in S : v[x] = "valid"}

CountsRight ==
    /\ counts.valid = Cardinality(ValidOnes(verdict, Rows))
    /\ counts.invalid = N - counts.valid

Written == entity # {} \/ \E x \in Rows : outcome[x] # "pending"

\* A row has one document, written under the mapping the row has.
EntitiesOK ==
    /\ \A e \in entity : /\ mapped[e.row] = e.map /\ e.map \in FieldMaps
                         /\ outcome[e.row] = "committed" /\ verdict[e.row] = "valid"
                         /\ PassesAlone(e.row)
    /\ \A d, e \in entity : d.row = e.row => d = e

\* Of two processes at work, one can only write that its upload has failed.
Exclusive ==
    \A p, q \in Procs : p # q /\ AtWork(p) /\ AtWork(q) => at[p] = "fail" \/ at[q] = "fail"

Committed == {"committing"} \cup Terminal

JobOK ==
    /\ Exclusive
    /\ status = "mapped" => AllMapped
    /\ status \in {"validated"} \cup Committed => Right
    /\ status = "validated" /\ NoneHalfWay => CountsRight
    /\ Written => /\ Right /\ status \in Committed \cup {"failed"}
                  /\ \A p \in Procs : at[p] \notin {"rewrite", "savemap"} /\ ~Validating(p)
    /\ EntitiesOK

\* Identity values that more than one row has.
TwinKeys ==
    {k \in Keys : \E x, y \in Rows : x # y /\ KeyOf(x) = k /\ KeyOf(y) = k} \ {NoKey}

\* The verdicts of the rows, when p has written back those it holds.
Found(p) ==
    [x \in Rows |-> IF at[p] = "flush" /\ \E h \in held[p] : h.row = x
                    THEN (CHOOSE h \in held[p] : h.row = x).verdict ELSE verdict[x]]

\* What a validation has found out, in whichever chunks it reads the rows.
Loop(p) ==
    /\ AllMapped /\ ~Written
    /\ status \in {"mapped", "validated", "failed"}
    /\ status = "validated" => tally[p].again
    /\ seenKeys[p] = {KeyOf(x) : x \in passed[p]}
    /\ at[p] # "dups" => dupKeys[p] = TwinKeys
    /\ at[p] \in {"check", "flush"} => known[p] = Existing \ {NoKey}
    /\ CheckedAlone(Found(p), passed[p]) /\ OneOfTwins(Found(p), passed[p])
    /\ tally[p].valid = Cardinality(ValidOnes(Found(p), passed[p]))
    /\ at[p] = "flush" => /\ passed[p] # {}
                         /\ \A h \in held[p] : h.row \in passed[p] /\ h.by = staged[h.row]

\* p takes the job for a validated one.
Relies(p) ==
    \/ at[p] \in {"mark", "commit"}
    \/ at[p] \in {"parse", "automap", "autovalidate", "autocommit"} /\ saw[p].status = "validated"

Rewrites(p) ==
    /\ status \in {"staged", "mapped", "failed"}
    /\ at[p] = "rewrite" => \A x \in passed[p] : mapped[x] \in FieldMaps
    /\ at[p] = "savemap" => AllMapped

ProcOK(p) ==
    /\ p \in Uploads => at[p] \in {"idle", "insert", "stage", "fail", "done", "broken"}
    /\ at[p] \in {"mapgate", "rewrite", "savemap"} => saw[p].map # NoMap
    /\ at[p] \in {"rewrite", "savemap"} => Rewrites(p)
    /\ at[p] \in {"idle", "checkgate", "giveup", "refresh"} \/ Validating(p)
         => saw[p].status # "validated"
    /\ Validating(p) => Loop(p)
    /\ Relies(p) => Right
    /\ at[p] = "commit" => status \in {"committing", "failed"}

\* Every process has its own set of keys.
KeysOK == DOMAIN dupKeys = Procs /\ DOMAIN seenKeys = Procs /\ DOMAIN known = Procs

\* The places of a process whose validation has begun to read rows.
Later == {"check", "flush", "giveup", "refresh", "autocommit", "mark", "commit", "done", "broken"}

HalfWayLater == \A p \in Procs : HalfWay(p) => at[p] \in Later

TurnsInv == KeysOK /\ HalfWayLater /\ JobOK /\ \A p \in Procs : ProcOK(p)

LEMMA TurnsInit ==
  ASSUME Init
  PROVE  TurnsInv
<1>1. KeysOK
  BY DEF Init, KeysOK
<1>2. JobOK
  BY DEF Init, JobOK, Exclusive, AtWork, Written, EntitiesOK, Committed, Terminal
<1>3. ASSUME NEW p \in Procs
      PROVE  ProcOK(p)
  BY DEF Init, ProcOK, Validating, Relies
<1>4. HalfWayLater
  BY DEF Init, Untallied, HalfWayLater, HalfWay
<1> QED
  BY <1>1, <1>2, <1>3, <1>4 DEF TurnsInv

(* Nothing of a process is changed by another one, but that the result of a   *)
(* validation has those forgotten that broke off.                             *)
LEMMA StepIsLocal ==
  ASSUME TypeInv, KeysOK, NEW p \in Procs, Step(p) \/ Rejects(p) \/ Dies(p)
  PROVE  /\ KeysOK'
         /\ \A q \in Procs \ {p} :
              /\ UNCHANGED <<at[q], saw[q], passed[q], held[q], dupKeys[q], seenKeys[q],
                             known[q]>>
              /\ Validating(q) \/ ~WriteValidated(p) => tally'[q] = tally[q]
              /\ tally'[q] \in {tally[q], Untallied}
<1> USE DEF KeysOK, Goes, jobVars, rowVars, localVars, checkVars
<1>0. /\ DOMAIN at = Procs /\ DOMAIN saw = Procs /\ DOMAIN passed = Procs
      /\ DOMAIN held = Procs /\ DOMAIN tally = Procs
  BY DEF TypeInv, ProcsOK
<1>1. CASE CreateJob(p) \/ ReadUpload(p) \/ SaveUploaded(p) \/ Trigger(p) \/ StartExecution(p)
           \/ Parse(p) \/ Clear(p) \/ InsertRows(p)
  BY <1>0, <1>1 DEF CreateJob, ReadUpload, SaveUploaded, Trigger, StartExecution, Parse, Clear,
                    InsertRows
<1>2. CASE InsertFails(p) \/ SaveStaged(p) \/ SaveStagedFails(p) \/ SaveFailed(p)
  BY <1>0, <1>2 DEF InsertFails, Breaks, SaveStaged, SaveStagedFails, SaveFailed
<1>3. CASE AutoMap(p) \/ BeginMapping(p) \/ RefuseMapping(p) \/ RewriteRows(p) \/ SaveMapping(p)
           \/ RefuseProfile(p)
  BY <1>0, <1>3 DEF AutoMap, BeginMapping, RefuseMapping, Breaks, RewriteRows, SaveMapping,
                    RefuseProfile
<1>4. CASE AutoValidate(p) \/ BeginValidation(p) \/ RefuseValidation(p)
           \/ FindDuplicates(p) \/ FindExisting(p) \/ ReadRows(p)
  BY <1>0, <1>4 DEF AutoValidate, BeginValidation, RefuseValidation, FindDuplicates, FindExisting,
                    ReadRows
<1>5. CASE FlushRows(p) \/ Refresh(p) \/ GiveUp(p) \/ BeginCommit(p)
  BY <1>0, <1>5 DEF FlushRows, Refresh, GiveUp, BeginCommit
<1>6. CASE WriteValidated(p)
  BY <1>0, <1>6 DEF WriteValidated
<1>7. CASE Exit(p) \/ Mark(p) \/ CommitRow(p) \/ WriteResult(p) \/ Rejects(p) \/ Dies(p)
  BY <1>0, <1>7 DEF Exit, Breaks, Mark, CommitRow, WriteResult, Rejects, Dies
<1> QED
  BY <1>1, <1>2, <1>3, <1>4, <1>5, <1>6, <1>7 DEF Step

(* A validation is half way from its first chunk until it writes its result.  *)
LEMMA OnlyResultsEnd ==
  ASSUME TypeInv, KeysOK, HalfWayLater, NEW p \in Procs, Step(p) \/ Rejects(p) \/ Dies(p)
  PROVE  /\ HalfWayLater'
         /\ ~WriteValidated(p) => (NoneHalfWay' => NoneHalfWay)
<1>1. \A q \in Procs \ {p} : /\ at'[q] = at[q] /\ (HalfWay(q)' => HalfWay(q))
                             /\ ~WriteValidated(p) => (HalfWay(q) => HalfWay(q)')
  BY StepIsLocal DEF HalfWay, Untallied
<1> SUFFICES /\ HalfWay(p)' => at'[p] \in Later
             /\ ~WriteValidated(p) => (HalfWay(p) => HalfWay(p)')
  BY <1>1 DEF HalfWayLater, NoneHalfWay
<1>2. /\ at \in [Procs -> Places]
      /\ tally \in [Procs -> [valid : Nat, invalid : Nat, again : BOOLEAN]]
      /\ HalfWay(p) => at[p] \in Later
  BY DEF TypeInv, ProcsOK, HalfWayLater
<1>3. CASE BeginValidation(p)
  <2>1. at[p] \in {"idle", "checkgate"} /\ tally'[p].valid = 0 /\ tally'[p].invalid = 0
    BY <1>2, <1>3 DEF BeginValidation, MayStart, Untallied
  <2> QED
    BY <1>2, <2>1 DEF HalfWay, Later
<1>4. CASE WriteValidated(p)
  BY <1>2, <1>4 DEF WriteValidated, Untallied, HalfWay
<1>5. CASE ReadRows(p)
  <2>1. PICK S \in SUBSET Rows, F \in SUBSET Rows : Reads(p, S, F)
    BY <1>5, ReadsSome
  <2> DEFINE ok == {x \in S : Passes(p, F, x)}
  <2>2. Cardinality(ok) \in Nat /\ Cardinality(S \ ok) \in Nat
    BY CountRows
  <2>3. /\ tally'[p].valid = tally[p].valid + Cardinality(ok)
        /\ tally'[p].invalid = tally[p].invalid + Cardinality(S \ ok)
        /\ tally'[p].again = tally[p].again
    BY <1>2, <2>1 DEF Reads
  <2>4. at'[p] = "flush"
    BY <1>2, <1>5 DEF ReadRows, Goes
  <2>5. tally[p].valid \in Nat /\ tally[p].invalid \in Nat
    BY <1>2
  <2> HIDE DEF ok
  <2>6. HalfWay(p) => HalfWay(p)'
    BY <2>2, <2>3, <2>5 DEF HalfWay
  <2> QED
    BY <2>4, <2>6 DEF Later
<1> SUFFICES ASSUME ~BeginValidation(p), ~WriteValidated(p), ~ReadRows(p)
             PROVE  tally'[p] = tally[p] /\ (at[p] \in Later => at'[p] \in Later)
  BY <1>2, <1>3, <1>4, <1>5 DEF HalfWay
<1> USE DEF Goes, Breaks, localVars, checkVars, Later
<1>6. CASE CreateJob(p) \/ ReadUpload(p) \/ SaveUploaded(p) \/ Trigger(p) \/ StartExecution(p)
           \/ Parse(p) \/ Clear(p) \/ InsertRows(p) \/ InsertFails(p)
  BY <1>2, <1>6 DEF CreateJob, MayStart, ReadUpload, SaveUploaded, Trigger, StartExecution, Parse,
                    Clear, InsertRows, InsertFails
<1>7. CASE SaveStaged(p) \/ SaveStagedFails(p) \/ SaveFailed(p) \/ AutoMap(p) \/ BeginMapping(p)
           \/ RefuseMapping(p) \/ RewriteRows(p) \/ SaveMapping(p) \/ RefuseProfile(p)
  BY <1>2, <1>7 DEF SaveStaged, SaveStagedFails, SaveFailed, AutoMap, BeginMapping, RefuseMapping,
                    MayStart, RewriteRows, SaveMapping, RefuseProfile
<1>8. CASE AutoValidate(p) \/ RefuseValidation(p) \/ FindDuplicates(p) \/ FindExisting(p)
           \/ FlushRows(p) \/ Refresh(p) \/ GiveUp(p) \/ BeginCommit(p)
  BY <1>2, <1>8 DEF AutoValidate, RefuseValidation, MayStart, FindDuplicates, FindExisting,
                    FlushRows, Refresh, GiveUp, BeginCommit
<1>9. CASE Exit(p) \/ Mark(p) \/ CommitRow(p) \/ WriteResult(p) \/ Rejects(p) \/ Dies(p)
  BY <1>2, <1>9 DEF Exit, Mark, CommitRow, WriteResult, Rejects, Dies
<1> QED
  BY <1>6, <1>7, <1>8, <1>9 DEF Step

(* What starts finds at work at most an upload that has failed.               *)
LEMMA StartsBesideFailed ==
  ASSUME ~Overlapping, WholeInv, TurnsInv, NEW p \in Procs, MayStart(p),
         p \in Uploads \cup Completions \cup Executions \/ status \in Ready
  PROVE  \A q \in Procs \ {p} : AtWork(q) => at[q] = "fail"
<1> SUFFICES ASSUME NEW q \in Procs \ {p}, AtWork(q)
             PROVE  at[q] = "fail"
  OBVIOUS
<1>1. Staging(q) /\ ~Prepares(q)
  BY StartsAlone DEF MayStart, Only
<1>2. q \in Uploads /\ ProcOK(q)
  BY <1>1 DEF Staging, Prepares, TurnsInv
<1> QED
  BY <1>1, <1>2 DEF ProcOK, Prepares, AtWork

\* A process that works on a job that is staged.
Busy(p) == AtWork(p) /\ at[p] # "fail" /\ ~Staging(p)

(* While it works nobody else changes more than the job's status to "failed". *)
LEMMA OthersWait ==
  ASSUME ~Overlapping, TypeInv, TurnsInv, NEW p \in Procs, Busy(p),
         NEW q \in Procs \ {p}, Step(q) \/ Rejects(q) \/ Dies(q)
  PROVE  /\ UNCHANGED <<counts, rowVars, tally>>
         /\ status' \in {status, "failed"}
         /\ at[q] \in {"fail", "trigger"}
<1>1. at[q] = "fail" \/ ~AtWork(q)
  BY DEF TurnsInv, JobOK, Exclusive, Busy
<1>2. ~MayStart(q)
  BY DEF MayStart, Busy
<1>3. at[q] \in {"fail", "trigger"}
  BY <1>1, <1>2 DEF AtWork, Step, Rejects, Dies, CreateJob, ReadUpload, SaveUploaded, Trigger,
       StartExecution, Parse, Clear, InsertRows, InsertFails, SaveStaged, SaveStagedFails,
       SaveFailed, AutoMap, BeginMapping, RefuseMapping, RewriteRows, SaveMapping, RefuseProfile,
       AutoValidate, BeginValidation, RefuseValidation, FindDuplicates, FindExisting, ReadRows,
       FlushRows, WriteValidated, Refresh, GiveUp, BeginCommit, Exit, Mark, CommitRow, WriteResult
<1>4. Trigger(q) \/ SaveFailed(q) \/ Rejects(q) \/ Dies(q)
  BY <1>2, <1>3 DEF Step, CreateJob, ReadUpload, SaveUploaded,
       StartExecution, Parse, Clear, InsertRows, InsertFails, SaveStaged, SaveStagedFails,
       AutoMap, BeginMapping, RefuseMapping, RewriteRows, SaveMapping, RefuseProfile,
       AutoValidate, BeginValidation, RefuseValidation, FindDuplicates, FindExisting, ReadRows,
       FlushRows, WriteValidated, Refresh, GiveUp, BeginCommit, Exit, Mark, CommitRow, WriteResult
<1>5. UNCHANGED <<counts, rowVars, tally>> /\ status' \in {status, "failed"}
  BY <1>4 DEF Trigger, SaveFailed, Rejects, Dies, jobVars, localVars, checkVars
<1> QED
  BY <1>3, <1>5

(* What is said of rows depends on how they are mapped.                       *)
LEMMA SameMapping ==
  ASSUME UNCHANGED mapped
  PROVE  /\ AllMapped' <=> AllMapped
         /\ \A x \in Rows : KeyOf(x)' = KeyOf(x) /\ (PassesAlone(x)' <=> PassesAlone(x))
         /\ \A x, y \in Rows : Twins(x, y)' <=> Twins(x, y)
         /\ TwinKeys' = TwinKeys
<1>1. \A x \in Rows : KeyOf(x)' = KeyOf(x)
  BY DEF KeyOf
<1>2. \A x \in Rows : PassesAlone(x)' <=> PassesAlone(x)
  BY <1>1 DEF PassesAlone
<1>3. \A x, y \in Rows : Twins(x, y)' <=> Twins(x, y)
  BY <1>1 DEF Twins
<1>4. TwinKeys' = TwinKeys
  BY <1>1 DEF TwinKeys
<1>5. AllMapped' <=> AllMapped
  BY DEF AllMapped
<1> QED
  BY <1>1, <1>2, <1>3, <1>4, <1>5

LEMMA SameVerdicts ==
  ASSUME UNCHANGED <<mapped, verdict>>, NoneHalfWay' => NoneHalfWay
  PROVE  Right => Right'
<1>1. CheckedAlone(verdict, Rows) => CheckedAlone(verdict, Rows)'
  BY SameMapping DEF CheckedAlone
<1>2. OneOfTwins(verdict, Rows) => OneOfTwins(verdict, Rows)'
  BY SameMapping DEF OneOfTwins
<1> QED
  BY <1>1, <1>2, SameMapping DEF Right

(* What a loop has found is the same where it stands.                         *)
LEMMA SameFindings ==
  ASSUME NEW p \in Procs, UNCHANGED <<mapped, verdict, held[p], passed[p]>>,
         passed[p] \in SUBSET Rows, at'[p] = "flush" <=> at[p] = "flush"
  PROVE  /\ CheckedAlone(Found(p), passed[p]) => CheckedAlone(Found(p), passed[p])'
         /\ OneOfTwins(Found(p), passed[p]) => OneOfTwins(Found(p), passed[p])'
         /\ ValidOnes(Found(p), passed[p])' = ValidOnes(Found(p), passed[p])
         /\ {KeyOf(x) : x \in passed[p]}' = {KeyOf(x) : x \in passed[p]}
<1>1. Found(p)' = Found(p)
  BY DEF Found
<1>2. CheckedAlone(Found(p), passed[p]) => CheckedAlone(Found(p), passed[p])'
  BY <1>1, SameMapping DEF CheckedAlone
<1>3. OneOfTwins(Found(p), passed[p]) => OneOfTwins(Found(p), passed[p])'
  BY <1>1, SameMapping DEF OneOfTwins
<1>4. ValidOnes(Found(p), passed[p])' = ValidOnes(Found(p), passed[p])
  BY <1>1 DEF ValidOnes
<1>5. {KeyOf(x) : x \in passed[p]}' = {KeyOf(x) : x \in passed[p]}
  BY SameMapping
<1> QED
  BY <1>2, <1>3, <1>4, <1>5

(* What a process relies on is not changed by another one.                    *)
LEMMA OthersKeepProc ==
  ASSUME ~Overlapping, TypeInv, TurnsInv, NEW p \in Procs, NEW q \in Procs \ {p},
         Step(q) \/ Rejects(q) \/ Dies(q)
  PROVE  ProcOK(p)'
<1>1. /\ at'[p] = at[p] /\ saw'[p] = saw[p] /\ passed'[p] = passed[p] /\ held'[p] = held[p]
      /\ dupKeys'[p] = dupKeys[p] /\ seenKeys'[p] = seenKeys[p] /\ known'[p] = known[p]
      /\ Validating(p) => tally'[p] = tally[p]
  BY StepIsLocal DEF TurnsInv
<1>2. ProcOK(p) /\ at[p] \in Places /\ passed[p] \in SUBSET Rows /\ held[p] \in SUBSET HeldRecords
  BY DEF TurnsInv, TypeInv, ProcsOK
<1>3. CASE Busy(p)
  <2>1. /\ UNCHANGED <<counts, staged, mapped, verdict, outcome, entity, tally>>
        /\ status' \in {status, "failed"}
    BY <1>3, OthersWait DEF rowVars
  <2>2. Right => Right'
    BY <2>1, SameVerdicts DEF NoneHalfWay, HalfWay
  <2>3. Rewrites(p) /\ at[p] \in {"rewrite", "savemap"} => Rewrites(p)'
    BY <1>1, <1>2, <2>1 DEF Rewrites, AllMapped
  <2>4. ASSUME Validating(p), Loop(p)
        PROVE  Loop(p)'
    <3>1. \A h \in held[p] : h.row \in Rows
      BY <1>2 DEF HeldRecords
    <3>2. Written' <=> Written
      BY <2>1 DEF Written
    <3> QED
      BY <1>1, <1>2, <2>1, <2>4, <3>1, <3>2, SameMapping, SameFindings DEF Loop
  <2>5. (Relies(p)' <=> Relies(p)) /\ (Validating(p)' <=> Validating(p))
    BY <1>1 DEF Relies, Validating
  <2> QED
    BY <1>1, <1>2, <2>1, <2>2, <2>3, <2>4, <2>5 DEF ProcOK
<1>4. CASE ~Busy(p)
  <2>1. /\ at[p] \notin {"mapgate", "rewrite", "savemap", "checkgate", "giveup", "refresh",
                         "mark", "commit"}
        /\ ~Validating(p) /\ ~Relies(p)
    BY <1>2, <1>4 DEF Busy, Staging, AtWork, ProcOK, Validating, Relies, Stageable
  <2> QED
    BY <1>1, <1>2, <2>1 DEF ProcOK, Validating, Relies
<1> QED
  BY <1>3, <1>4

-----------------------------------------------------------------------------
(* Steps that leave the rows and their counts alone.                       *)

\* Beside p nobody comes to work but on a failed upload.
KeepsTurn(p) ==
    \/ at'[p] \in {"trigger", "done", "broken", "fail"}
    \/ AtWork(p) /\ at[p] # "fail"
    \/ \A q \in Procs \ {p} : AtWork(q) => at[q] = "fail"

Tame(p) ==
    /\ UNCHANGED rowVars
    /\ counts'.valid = counts.valid /\ counts'.invalid = counts.invalid
    /\ at'[p] # "idle" /\ KeepsTurn(p)
    /\ status' = "mapped" => AllMapped
    /\ status' \in {"validated"} \cup Committed => Right
    /\ status' = "validated" => status = "validated"
    /\ Written => /\ status' \in Committed \cup {"failed"}
                  /\ at'[p] \notin {"rewrite", "savemap"} /\ ~Validating(p)'

LEMMA TurnStays ==
  ASSUME TypeInv, TurnsInv, NEW p \in Procs, at'[p] # "idle", KeepsTurn(p),
         \A q \in Procs \ {p} : at'[q] = at[q]
  PROVE  Exclusive'
<1> USE DEF TurnsInv, JobOK, Exclusive, KeepsTurn, AtWork
<1>1. ASSUME NEW q \in Procs \ {p}, AtWork(p)', AtWork(q)'
      PROVE  at'[p] = "fail" \/ at'[q] = "fail"
  BY <1>1
<1> QED
  BY <1>1

LEMMA TameKeepsJob ==
  ASSUME TypeInv, TurnsInv, NEW p \in Procs, Tame(p), NoneHalfWay' => NoneHalfWay,
         \A q \in Procs \ {p} : at'[q] = at[q]
  PROVE  JobOK'
<1> USE DEF Tame, rowVars
<1>1. Exclusive'
  BY TurnStays
<1>2. Right => Right'
  BY SameVerdicts
<1>3. CountsRight' <=> CountsRight
  BY DEF CountsRight, ValidOnes
<1>4. Written' <=> Written
  BY DEF Written
<1>5. EntitiesOK'
  <2>1. EntitiesOK /\ \A e \in entity : e.row \in Rows
    BY DEF TurnsInv, JobOK, TypeInv, ImportTypeOK
  <2> QED
    BY <2>1, SameMapping DEF EntitiesOK
<1>6. Written => \A q \in Procs : at'[q] \notin {"rewrite", "savemap"} /\ ~Validating(q)'
  BY DEF TurnsInv, JobOK, Validating
<1> QED
  BY <1>1, <1>2, <1>3, <1>4, <1>5, <1>6, SameMapping DEF TurnsInv, JobOK

LEMMA StagingIsTame ==
  ASSUME ~Overlapping, TypeInv, WholeInv, TurnsInv, NEW p \in Procs, NoneHalfWay' => NoneHalfWay,
         \/ CreateJob(p) \/ ReadUpload(p) \/ SaveUploaded(p) \/ Trigger(p)
         \/ StartExecution(p) \/ Parse(p)
         \/ SaveStaged(p) \/ SaveStagedFails(p) \/ SaveFailed(p)
  PROVE  Tame(p) /\ ProcOK(p)'
<1> USE DEF Goes, jobVars, rowVars, localVars, checkVars
<1> USE DEF Stageable, Committed, Terminal, Ready, AtWork, Validating, Relies, Prepares
<1>0. /\ at \in [Procs -> Places] /\ status \in Statuses
      /\ saw \in [Procs -> [status : Statuses, map : Maps]]
      /\ counts \in [staged : 0..N, valid : 0..N, invalid : 0..N]
      /\ ProcOK(p)
  BY DEF TypeInv, ImportTypeOK, ProcsOK, TurnsInv
<1>1. /\ Written => status \in Committed \cup {"failed"}
      /\ p \in Executions => p \notin Uploads
  BY ImportPipelineAssumption DEF TurnsInv, JobOK
<1>2. /\ status \in {"validated"} \cup Committed => Right
      /\ status = "mapped" => AllMapped
  BY DEF TurnsInv, JobOK
<1>3. MayStart(p) /\ p \in Uploads \cup Completions \cup Executions
        => \A q \in Procs \ {p} : AtWork(q) => at[q] = "fail"
  BY StartsBesideFailed
<1>4. CASE CreateJob(p)
  BY <1>0, <1>1, <1>3, <1>4 DEF CreateJob, MayStart, Tame, KeepsTurn, ProcOK
<1>5. CASE ReadUpload(p)
  BY <1>0, <1>1, <1>2, <1>3, <1>5 DEF ReadUpload, MayStart, Tame, KeepsTurn, ProcOK
<1>6. CASE SaveUploaded(p) \/ Trigger(p)
  <2>1. at[p] = "verify" => status = "pending_upload"
    BY DEF WholeInv
  <2> QED
    BY <1>0, <1>1, <1>2, <1>6, <2>1 DEF SaveUploaded, Trigger, Tame, KeepsTurn, ProcOK
<1>7. CASE StartExecution(p)
  <2>1. Right => Right'
    BY <1>7, SameVerdicts DEF StartExecution
  <2> QED
    BY <1>0, <1>1, <1>2, <1>3, <1>7, <2>1 DEF StartExecution, MayStart, Tame, KeepsTurn, ProcOK
<1>8. CASE Parse(p)
  <2>1. at[p] = "parse" /\ saw[p].status \in Stageable => status \in Stageable
    BY DEF WholeInv
  <2>2. Right => Right'
    BY <1>8, SameVerdicts DEF Parse
  <2> QED
    BY <1>0, <1>1, <1>2, <1>8, <2>1, <2>2 DEF Parse, Tame, KeepsTurn, ProcOK
<1>9. CASE SaveStaged(p) \/ SaveStagedFails(p)
  <2>1. at[p] = "stage" => status \in Stageable
    BY DEF WholeInv
  <2> QED
    BY <1>0, <1>1, <1>9, <2>1 DEF SaveStaged, SaveStagedFails, Tame, KeepsTurn, ProcOK
<1>10. CASE SaveFailed(p)
  BY <1>0, <1>1, <1>10 DEF SaveFailed, Tame, KeepsTurn, ProcOK
<1> QED
  BY <1>4, <1>5, <1>6, <1>7, <1>8, <1>9, <1>10

LEMMA GatesAreTame ==
  ASSUME ~Overlapping, TypeInv, WholeInv, TurnsInv, NEW p \in Procs, NoneHalfWay' => NoneHalfWay,
         \/ AutoMap(p) \/ BeginMapping(p) \/ RefuseMapping(p) \/ SaveMapping(p)
         \/ RefuseProfile(p) \/ AutoValidate(p) \/ RefuseValidation(p)
         \/ Refresh(p) \/ GiveUp(p) \/ BeginCommit(p) \/ Exit(p) \/ Mark(p) \/ WriteResult(p)
         \/ Rejects(p) \/ Dies(p)
  PROVE  Tame(p) /\ ProcOK(p)'
<1> USE DEF Goes, jobVars, rowVars, localVars, checkVars
<1> USE DEF Committed, Terminal, Ready, AtWork, Validating, Relies
<1>0. /\ at \in [Procs -> Places] /\ status \in Statuses
      /\ saw \in [Procs -> [status : Statuses, map : Maps]]
      /\ passed \in [Procs -> SUBSET Rows]
      /\ ProcOK(p)
  BY DEF TypeInv, ImportTypeOK, ProcsOK, TurnsInv
<1>1. /\ Written => /\ status \in Committed \cup {"failed"}
                    /\ at[p] \notin {"rewrite", "savemap"} /\ ~Validating(p)
      /\ p \in Mappings \cup Validations \cup Commits => p \notin Uploads
      /\ p \in Mappings => Wanted[p] # NoMap
  BY ImportPipelineAssumption DEF TurnsInv, JobOK
<1>2. /\ status \in {"validated"} \cup Committed => Right
      /\ status = "mapped" => AllMapped
  BY DEF TurnsInv, JobOK
<1>3. MayStart(p) /\ status \in Ready
        => at[p] = "idle" /\ \A q \in Procs \ {p} : AtWork(q) => at[q] = "fail"
  BY StartsBesideFailed DEF MayStart
<1>4. UNCHANGED <<mapped, verdict>> => (Right => Right') /\ (AllMapped' <=> AllMapped)
  BY SameVerdicts, SameMapping
<1>5. CASE AutoMap(p) \/ RefuseMapping(p)
  BY <1>0, <1>1, <1>2, <1>4, <1>5
     DEF AutoMap, RefuseMapping, Breaks, MayStart, Tame, KeepsTurn, ProcOK
<1>6. CASE BeginMapping(p)
  <2>1. /\ status \in {"staged", "mapped"} /\ status' = status
        /\ at'[p] = "rewrite" /\ passed'[p] = {} /\ saw'[p].map # NoMap
        /\ KeepsTurn(p) /\ UNCHANGED <<counts, rowVars>>
    BY <1>0, <1>1, <1>3, <1>6 DEF BeginMapping, ProcOK, KeepsTurn
  <2>2. p \notin Uploads
    BY <1>0, <1>1, <1>6 DEF BeginMapping, ProcOK
  <2> QED
    BY <1>1, <1>2, <2>1, <2>2 DEF Tame, ProcOK, Rewrites
<1>7. CASE SaveMapping(p)
  <2>1. AllMapped /\ status \in {"staged", "mapped", "failed"} /\ at[p] = "savemap"
    BY <1>0, <1>7 DEF SaveMapping, ProcOK, Rewrites
  <2>2. /\ status' \in {"staged", "mapped", "failed"} /\ saw'[p].status = "mapped"
        /\ at'[p] \in {"done", "autovalidate"} /\ UNCHANGED <<counts, rowVars>>
    BY <1>0, <1>7, <2>1 DEF SaveMapping
  <2> QED
    BY <1>0, <1>1, <2>1, <2>2 DEF Tame, KeepsTurn, ProcOK
<1>8. CASE RefuseProfile(p) \/ AutoValidate(p) \/ RefuseValidation(p)
  BY <1>0, <1>1, <1>2, <1>4, <1>8
     DEF RefuseProfile, AutoValidate, RefuseValidation, MayStart, Tame, KeepsTurn, ProcOK
<1>9. CASE Refresh(p)
  <2>1. /\ at[p] = "refresh" /\ at'[p] = "autocommit" /\ UNCHANGED <<status, counts, rowVars>>
        /\ saw'[p].status \in {status, saw[p].status}
    BY <1>0, <1>9 DEF Refresh
  <2> QED
    BY <1>0, <1>1, <1>2, <1>4, <2>1 DEF Tame, KeepsTurn, ProcOK
<1>10. CASE GiveUp(p)
  BY <1>0, <1>1, <1>10 DEF GiveUp, Tame, KeepsTurn, ProcOK
<1>11. CASE BeginCommit(p) \/ Exit(p)
  BY <1>0, <1>1, <1>2, <1>3, <1>4, <1>11
     DEF BeginCommit, Exit, Breaks, MayStart, Tame, KeepsTurn, ProcOK
<1>12. CASE Mark(p) \/ WriteResult(p)
  BY <1>0, <1>1, <1>4, <1>12 DEF Mark, WriteResult, Tame, KeepsTurn, ProcOK
<1>13. CASE Rejects(p) \/ Dies(p)
  BY <1>0, <1>1, <1>2, <1>13 DEF Rejects, Dies, Breaks, Tame, KeepsTurn, ProcOK
<1> QED
  BY <1>5, <1>6, <1>7, <1>8, <1>9, <1>10, <1>11, <1>12, <1>13

-----------------------------------------------------------------------------
(* The validation.                                                         *)

LEMMA WorkingOnWhole ==
  ASSUME WholeInv, NEW p \in Procs, at[p] \in Working
  PROVE  Staged = Rows
BY DEF WholeInv, Fresh, Whole

(* A loop ends when it has passed the whole file.                             *)
LEMMA LeftOfWhole ==
  ASSUME WholeInv, NEW p \in Procs, at[p] \in Working
  PROVE  Left(p) = Rows \ passed[p]
BY WorkingOnWhole DEF Left

(* The passes before the loop: no row has been checked yet.                   *)
LEMMA BeginningIsTame ==
  ASSUME ~Overlapping, TypeInv, WholeInv, TurnsInv, NEW p \in Procs, BeginValidation(p)
  PROVE  Tame(p) /\ ProcOK(p)'
<1> USE DEF Goes, jobVars, rowVars, checkVars, Committed, Terminal, Ready, Validating, Relies
<1>1. /\ at' = [at EXCEPT ![p] = "dups"] /\ at'[p] = "dups" /\ saw'[p] = saw[p]
      /\ passed'[p] = {} /\ seenKeys'[p] = {}
      /\ tally'[p].valid = 0 /\ tally'[p].again = (status = "validated")
      /\ UNCHANGED <<status, counts, staged, mapped, verdict, outcome, entity>>
      /\ status \in {"mapped", "validated"}
      /\ MayStart(p) \/ at[p] = "checkgate"
      /\ p \notin Uploads /\ saw[p].status # "validated"
  <2>1. p \in Validations => p \notin Uploads
    BY ImportPipelineAssumption
  <2> QED
    BY <2>1 DEF BeginValidation, Untallied, TypeInv, ProcsOK, TurnsInv, KeysOK, ProcOK, MayStart
<1>2. AllMapped /\ ~Written
  BY <1>1 DEF TurnsInv, JobOK, Right
<1>3. KeepsTurn(p)
  BY <1>1, StartsBesideFailed DEF KeepsTurn, AtWork
<1>4. Tame(p)
  BY <1>1, <1>2, <1>3 DEF Tame, TurnsInv, JobOK
<1>5. ValidOnes(Found(p), passed[p])' = {}
  BY <1>1 DEF ValidOnes
<1>6. Cardinality({}) = 0
  BY FS_EmptySet
<1>7. CheckedAlone(Found(p), passed[p])' /\ OneOfTwins(Found(p), passed[p])'
  BY <1>1 DEF CheckedAlone, OneOfTwins
<1>8. Loop(p)'
  BY <1>1, <1>2, <1>5, <1>6, <1>7, SameMapping DEF Loop, Written
<1> QED
  BY <1>1, <1>4, <1>8 DEF ProcOK

LEMMA PassesAreTame ==
  ASSUME TypeInv, WholeInv, TurnsInv, NEW p \in Procs, FindDuplicates(p) \/ FindExisting(p)
  PROVE  Tame(p) /\ ProcOK(p)'
<1> USE DEF Goes, jobVars, rowVars, checkVars, Validating, Relies
<1>1. /\ at'[p] \in {"existing", "check"} /\ AtWork(p) /\ at[p] \in {"dups", "existing"}
      /\ UNCHANGED <<status, counts, staged, mapped, verdict, outcome, entity>>
      /\ UNCHANGED <<saw[p], passed[p], held[p], seenKeys[p], tally[p]>>
  BY DEF FindDuplicates, FindExisting, TypeInv, ProcsOK, TurnsInv, KeysOK, AtWork
<1>2. Loop(p) /\ ProcOK(p) /\ JobOK /\ passed[p] \in SUBSET Rows
  BY <1>1 DEF TurnsInv, ProcOK, TypeInv, ProcsOK
<1>3. Tame(p)
  BY <1>1, <1>2 DEF Tame, KeepsTurn, JobOK, Loop
<1>4. at'[p] # "dups" => dupKeys'[p] = TwinKeys
  <2>1. CASE FindDuplicates(p)
    <3>1. Staged = Rows
      BY <2>1, WorkingOnWhole DEF FindDuplicates, Working
    <3> QED
      BY <2>1, <3>1 DEF FindDuplicates, TwinKeys, TurnsInv, KeysOK
  <2>2. CASE FindExisting(p)
    BY <1>2, <2>2 DEF FindExisting, Loop
  <2> QED
    BY <2>1, <2>2
<1>5. at'[p] \in {"check", "flush"} => known'[p] = Existing \ {NoKey}
  <2>1. CASE FindDuplicates(p)
    BY <2>1 DEF FindDuplicates, TypeInv, ProcsOK
  <2>2. CASE FindExisting(p)
    <3>1. entity = {}
      BY <1>2 DEF Loop, Written
    <3> QED
      BY <2>2, <3>1 DEF FindExisting, TurnsInv, KeysOK
  <2> QED
    BY <2>1, <2>2
<1>6. Loop(p)'
  <2>1. Written' <=> Written
    BY <1>1 DEF Written
  <2> QED
    BY <1>1, <1>2, <1>4, <1>5, <2>1, SameMapping, SameFindings DEF Loop
<1> QED
  BY <1>1, <1>2, <1>3, <1>6 DEF ProcOK

(* The third pass refuses a row for what is wrong with it alone, or because of *)
(* a twin that the loop has read before it.                                   *)
LEMMA PassesWhen ==
  ASSUME TypeInv, WholeInv, TurnsInv, NEW p \in Procs, at[p] = "check", NEW x \in Rows, NEW F
  PROVE  Passes(p, F, x) <=>
           /\ PassesAlone(x)
           /\ (\E y \in Rows : Twins(x, y)) => x \in F /\ KeyOf(x) \notin seenKeys[p]
<1>1. Loop(p)
  BY DEF TurnsInv, ProcOK, Validating
<1>2. mapped[x] \in FieldMaps /\ mapped[x] # NoMap
  BY <1>1, ImportPipelineAssumption DEF Loop, AllMapped
<1>3. KeyOf(x) \in Keys
  BY <1>2 DEF KeyOf, Keys
<1>4. known[p] = Existing \ {NoKey} /\ dupKeys[p] = TwinKeys
  BY <1>1 DEF Loop
<1>5. KeyOf(x) \in TwinKeys <=> \E y \in Rows : Twins(x, y)
  <2>1. ASSUME KeyOf(x) \in TwinKeys
        PROVE  \E y \in Rows : Twins(x, y)
    <3>1. PICK y, z \in Rows : y # z /\ KeyOf(y) = KeyOf(x) /\ KeyOf(z) = KeyOf(x)
      BY <2>1 DEF TwinKeys
    <3>2. KeyOf(x) # NoKey
      BY <2>1 DEF TwinKeys
    <3> QED
      BY <3>1, <3>2 DEF Twins
  <2>2. ASSUME NEW y \in Rows, Twins(x, y)
        PROVE  KeyOf(x) \in TwinKeys
    BY <1>3, <2>2 DEF Twins, TwinKeys
  <2> QED
    BY <2>1, <2>2
<1>6. KeyOf(x) \notin known[p] <=> KeyOf(x) = NoKey \/ KeyOf(x) \notin Existing
  BY <1>4
<1> QED
  BY <1>2, <1>4, <1>5, <1>6 DEF Passes, PassesAlone

LEMMA ReadIsTame ==
  ASSUME TypeInv, WholeInv, TurnsInv, NEW p \in Procs, ReadRows(p)
  PROVE  Tame(p) /\ ProcOK(p)'
<1> USE DEF Goes, jobVars, rowVars, Validating, Relies
<1>0. PICK S \in SUBSET Rows, F \in SUBSET Rows : Reads(p, S, F)
  BY ReadsSome
<1> DEFINE ok == {x \in S : Passes(p, F, x)}
           record(x) == [row |-> x, by |-> staged[x],
                         verdict |-> IF x \in ok THEN "valid" ELSE "invalid"]
           old == Found(p)
           new == [x \in Rows |-> IF x \in S THEN IF x \in ok THEN "valid" ELSE "invalid"
                                             ELSE verdict[x]]
           read == passed[p] \cup S
<1>1. /\ at[p] = "check" /\ at'[p] = "flush" /\ AtWork(p) /\ saw'[p] = saw[p]
      /\ UNCHANGED <<status, counts, staged, mapped, verdict, outcome, entity>>
      /\ UNCHANGED <<dupKeys, known>>
  BY DEF ReadRows, TypeInv, ProcsOK, AtWork
<1>2. Loop(p) /\ ProcOK(p) /\ JobOK /\ passed[p] \in SUBSET Rows
  BY <1>1 DEF TurnsInv, ProcOK, TypeInv, ProcsOK
<1>3. /\ passed'[p] = read /\ held'[p] = {record(x) : x \in S}
      /\ seenKeys'[p] = seenKeys[p] \cup {KeyOf(x) : x \in S}
      /\ tally'[p].valid = tally[p].valid + Cardinality(ok) /\ tally'[p].again = tally[p].again
      /\ S # {} /\ F \in Firsts(S) /\ S \subseteq Left(p)
  BY <1>0 DEF Reads, TypeInv, ProcsOK, TurnsInv, KeysOK
<1>4. S \cap passed[p] = {} /\ read \in SUBSET Rows
  BY <1>2, <1>3 DEF Left
<1>5. /\ \A x \in Rows : old[x] = verdict[x]
      /\ \A x \in passed[p] : new[x] = old[x]
  BY <1>1, <1>2, <1>4 DEF Found
<1>6. Found(p)' = new
  <2>1. ASSUME NEW x \in S
        PROVE  /\ \E h \in held'[p] : h.row = x
               /\ (CHOOSE h \in held'[p] : h.row = x) = record(x)
    <3>1. record(x) \in held'[p] /\ \A h \in held'[p] : h.row = x => h = record(x)
      BY <1>3
    <3> QED
      BY <3>1
  <2>2. \A x \in Rows \ S : ~ \E h \in held'[p] : h.row = x
    BY <1>3
  <2>3. \A x \in S : record(x).verdict = new[x]
    OBVIOUS
  <2>4. \A x \in Rows \ S : new[x] = verdict[x]
    OBVIOUS
  <2>5. new = [x \in Rows |-> new[x]]
    OBVIOUS
  <2> HIDE DEF record, new
  <2>6. \A x \in Rows : new[x] = IF \E h \in held'[p] : h.row = x
                                THEN (CHOOSE h \in held'[p] : h.row = x).verdict
                                ELSE verdict'[x]
    <3> SUFFICES ASSUME NEW x \in Rows
                 PROVE  new[x] = IF \E h \in held'[p] : h.row = x
                                 THEN (CHOOSE h \in held'[p] : h.row = x).verdict
                                 ELSE verdict'[x]
      OBVIOUS
    <3>1. CASE x \in S
      BY <2>1, <2>3, <3>1
    <3>2. CASE x \notin S
      BY <1>1, <2>2, <2>4, <3>2
    <3> QED
      BY <3>1, <3>2
  <2> QED
    BY <1>1, <2>5, <2>6 DEF Found
<1>7. \A x \in S : new[x] = "valid" <=>
        /\ PassesAlone(x)
        /\ (\E y \in Rows : Twins(x, y)) => x \in F /\ KeyOf(x) \notin seenKeys[p]
  <2>1. \A x \in S : new[x] = "valid" <=> Passes(p, F, x)
    OBVIOUS
  <2> QED
    BY <1>1, <2>1, PassesWhen
<1>8. CheckedAlone(new, read)
  <2>1. CheckedAlone(old, passed[p]) /\ \A x \in S : new[x] # "unvalidated"
    BY <1>2 DEF Loop
  <2> HIDE DEF new, old
  <2> QED
    BY <1>5, <1>7, <2>1 DEF CheckedAlone
<1>9. \A x \in read : new[x] \in {"valid", "invalid"}
  <2>1. \A x \in Rows : verdict[x] \in {"unvalidated", "valid", "invalid"}
    BY DEF TypeInv, ImportTypeOK
  <2> QED
    BY <1>4, <1>8, <2>1 DEF CheckedAlone
<1>10. \A k : k \in seenKeys[p] <=> \E z \in passed[p] : KeyOf(z) = k
  BY <1>2 DEF Loop
<1>11. OneOfTwins(old, passed[p])
  BY <1>2 DEF Loop
<1> HIDE DEF new, old, read
<1>12. ASSUME NEW x \in read, NEW y \in read, Twins(x, y), new[x] = "valid", new[y] = "valid"
       PROVE  FALSE
  <2>1. x \in Rows /\ y \in Rows /\ Twins(y, x)
    BY <1>4, <1>12 DEF Twins
  <2>2. CASE x \in passed[p] /\ y \in passed[p]
    BY <1>5, <1>11, <1>12, <2>2 DEF OneOfTwins
  <2>3. CASE x \in S /\ y \in passed[p]
    BY <1>7, <1>10, <1>12, <2>1, <2>3 DEF Twins
  <2>4. CASE x \in passed[p] /\ y \in S
    BY <1>7, <1>10, <1>12, <2>1, <2>4 DEF Twins
  <2>5. CASE x \in S /\ y \in S
    <3>1. x \in F /\ y \in F /\ KeyOf(x) = KeyOf(y) /\ x # y
      BY <1>7, <1>12, <2>1, <2>5 DEF Twins
    <3> QED
      BY <1>3, <2>5, <3>1 DEF Firsts
  <2> QED
    BY <2>2, <2>3, <2>4, <2>5 DEF read
<1>13. ASSUME NEW x \in read, PassesAlone(x), new[x] = "invalid"
       PROVE  \E y \in read : Twins(x, y) /\ (new[y] = "valid" \/ ~PassesAlone(y))
  <2>1. CASE x \in passed[p]
    BY <1>5, <1>11, <1>13, <2>1 DEF OneOfTwins, read
  <2>2. CASE x \in S /\ KeyOf(x) \in seenKeys[p]
    <3>1. PICK z \in passed[p] : KeyOf(z) = KeyOf(x)
      BY <1>10, <2>2
    <3>2. PICK w \in Rows : Twins(x, w)
      BY <1>7, <1>13, <2>2
    <3>3. Twins(x, z) /\ z \in read
      BY <1>4, <2>2, <3>1, <3>2 DEF Twins, read
    <3>4. CASE new[z] = "valid" \/ ~PassesAlone(z)
      BY <3>3, <3>4
    <3>5. CASE new[z] = "invalid" /\ PassesAlone(z)
      <4>1. PICK y \in passed[p] : Twins(z, y) /\ (old[y] = "valid" \/ ~PassesAlone(y))
        BY <1>5, <1>11, <3>5 DEF OneOfTwins
      <4>2. Twins(x, y) /\ y \in read /\ new[y] = old[y]
        BY <1>4, <1>5, <2>2, <3>3, <4>1 DEF Twins, read
      <4> QED
        BY <4>1, <4>2
    <3> QED
      BY <1>9, <3>3, <3>4, <3>5
  <2>3. CASE x \in S /\ KeyOf(x) \notin seenKeys[p]
    <3>1. x \notin F /\ \E w \in Rows : Twins(x, w)
      BY <1>7, <1>13, <2>3
    <3>2. PICK y \in F : KeyOf(y) = KeyOf(x)
      BY <1>3, <2>3 DEF Firsts
    <3>3. y \in S /\ y \in read /\ Twins(x, y)
      BY <1>3, <3>1, <3>2 DEF Firsts, Twins, read
    <3>4. PassesAlone(y) => new[y] = "valid"
      BY <1>7, <2>3, <3>2, <3>3
    <3> QED
      BY <3>3, <3>4
  <2> QED
    BY <2>1, <2>2, <2>3 DEF read
<1>14. OneOfTwins(new, read)
  BY <1>9, <1>12, <1>13 DEF OneOfTwins
<1>15. tally'[p].valid = Cardinality(ValidOnes(new, read))
  <2>1. ValidOnes(new, read) = ValidOnes(old, passed[p]) \cup ok
    BY <1>4, <1>5 DEF ValidOnes, new, read
  <2>2. /\ ValidOnes(old, passed[p]) \in SUBSET Rows /\ ok \in SUBSET Rows
        /\ ValidOnes(old, passed[p]) \cap ok = {}
    BY <1>2, <1>4 DEF ValidOnes
  <2>3. tally[p].valid = Cardinality(ValidOnes(old, passed[p]))
    BY <1>2 DEF Loop, old
  <2> HIDE DEF ok
  <2> QED
    BY <1>3, <2>1, <2>2, <2>3, CountAdded
<1>16. Tame(p)
  BY <1>1, <1>2 DEF Tame, KeepsTurn, JobOK, Loop
<1>17. Loop(p)'
  <2>1. AllMapped' /\ ~Written' /\ TwinKeys' = TwinKeys
    BY <1>1, <1>2, SameMapping DEF Loop, Written
  <2>2. seenKeys'[p] = {KeyOf(x) : x \in passed[p]}'
    <3>1. {KeyOf(x) : x \in passed[p]}' = {KeyOf(x) : x \in read}
      BY <1>1, <1>3, <1>4, SameMapping
    <3> QED
      BY <1>2, <1>3, <3>1 DEF Loop, read
  <2>3. CheckedAlone(Found(p), passed[p])' /\ OneOfTwins(Found(p), passed[p])'
    BY <1>1, <1>3, <1>4, <1>6, <1>8, <1>14, SameMapping DEF CheckedAlone, OneOfTwins
  <2>4. ValidOnes(Found(p), passed[p])' = ValidOnes(new, read)
    BY <1>3, <1>6 DEF ValidOnes
  <2>5. passed'[p] # {} /\ \A h \in held'[p] : h.row \in passed'[p] /\ h.by = staged'[h.row]
    BY <1>1, <1>3 DEF read
  <2> QED
    BY <1>1, <1>2, <1>3, <1>15, <2>1, <2>2, <2>3, <2>4, <2>5 DEF Loop
<1> QED
  BY <1>1, <1>2, <1>16, <1>17 DEF ProcOK

LEMMA FlushKeepsTurns ==
  ASSUME TypeInv, TurnsInv, NEW p \in Procs, FlushRows(p),
         \A q \in Procs \ {p} : at'[q] = at[q]
  PROVE  JobOK' /\ ProcOK(p)'
<1> USE DEF Goes, jobVars, Validating, Relies
<1>1. /\ at[p] = "flush" /\ at'[p] = "check" /\ AtWork(p) /\ saw'[p] = saw[p]
      /\ UNCHANGED <<status, counts, staged, mapped, outcome, entity>>
      /\ UNCHANGED <<passed, dupKeys, seenKeys, known, tally>>
  BY DEF FlushRows, TypeInv, ProcsOK, AtWork
<1>2. Loop(p) /\ ProcOK(p) /\ JobOK /\ passed[p] \in SUBSET Rows
  BY <1>1 DEF TurnsInv, ProcOK, TypeInv, ProcsOK
<1>3. verdict' = Found(p) /\ Found(p)' = Found(p)
  <2>1. \A h \in held[p] : h.by = staged[h.row]
    BY <1>1, <1>2 DEF Loop
  <2>2. verdict' = Found(p)
    BY <1>1, <2>1 DEF FlushRows, Found
  <2> QED
    BY <1>1, <2>2 DEF Found
<1>4. \A x \in Rows \ passed[p] : Found(p)[x] = verdict[x]
  BY <1>1, <1>2 DEF Loop, Found
<1>5. CheckedAlone(Found(p), passed[p]) /\ OneOfTwins(Found(p), passed[p])
  BY <1>2 DEF Loop
<1>6. status = "validated" => HalfWay(p)'
  <2>1. Cardinality(passed[p]) \in Nat /\ Cardinality(passed[p]) # 0
    <3>1. IsFiniteSet(passed[p]) /\ passed[p] # {}
      BY <1>1, <1>2, CountRows DEF Loop
    <3> QED
      BY <1>2, <3>1, CountRows, FS_EmptySet
  <2>2. tally[p].valid + tally[p].invalid = Cardinality(passed[p])
    BY <1>1 DEF TypeInv, TallyOK
  <2> QED
    BY <1>1, <1>2, <2>1, <2>2 DEF Loop, HalfWay
<1>7. Right => CheckedAlone(verdict, Rows)'
  <2> SUFFICES ASSUME Right
               PROVE  CheckedAlone(Found(p), Rows)
    BY <1>1, <1>3, SameMapping DEF CheckedAlone
  <2>1. CheckedAlone(verdict, Rows)
    BY DEF Right
  <2> QED
    BY <1>2, <1>4, <1>5, <2>1 DEF CheckedAlone
<1>8. status = "validated" => Right'
  BY <1>1, <1>2, <1>6, <1>7, SameMapping DEF JobOK, Right, NoneHalfWay
<1>9. ~Written' /\ EntitiesOK'
  BY <1>1, <1>2 DEF Loop, Written, EntitiesOK
<1>10. Exclusive'
  BY <1>1, TurnStays DEF KeepsTurn
<1>11. JobOK'
  BY <1>1, <1>2, <1>6, <1>8, <1>9, <1>10, SameMapping
     DEF JobOK, Loop, NoneHalfWay, Committed, Terminal
<1>12. Loop(p)'
  <2>1. CheckedAlone(Found(p), passed[p])' /\ OneOfTwins(Found(p), passed[p])'
    BY <1>1, <1>2, <1>3, <1>5, SameMapping DEF CheckedAlone, OneOfTwins
  <2>2. ValidOnes(Found(p), passed[p])' = ValidOnes(Found(p), passed[p])
    BY <1>1, <1>3 DEF ValidOnes
  <2>3. {KeyOf(x) : x \in passed[p]}' = {KeyOf(x) : x \in passed[p]}
    BY <1>1, <1>2, SameMapping
  <2> QED
    BY <1>1, <1>2, <1>9, <2>1, <2>2, <2>3, SameMapping DEF Loop
<1> QED
  BY <1>1, <1>2, <1>11, <1>12 DEF ProcOK

LEMMA WriteValidatedKeepsTurns ==
  ASSUME TypeInv, WholeInv, TurnsInv, NEW p \in Procs, WriteValidated(p),
         \A q \in Procs \ {p} : at'[q] = at[q]
  PROVE  JobOK' /\ ProcOK(p)'
<1> USE DEF Goes, jobVars, rowVars, localVars, checkVars, Validating, Relies
<1>1. /\ at[p] = "check" /\ at'[p] \in {"done", "refresh"} /\ AtWork(p) /\ Left(p) = {}
      /\ status' = "validated" /\ saw'[p] = saw[p]
      /\ counts'.valid = tally[p].valid /\ counts'.invalid = tally[p].invalid
      /\ UNCHANGED <<staged, mapped, verdict, outcome, entity>>
      /\ p \in Uploads => FALSE
  BY DEF WriteValidated, TypeInv, ImportTypeOK, ProcsOK, AtWork, TurnsInv, ProcOK
<1>2. Loop(p) /\ ProcOK(p) /\ JobOK
  BY <1>1 DEF TurnsInv, ProcOK
<1>3. passed[p] = Rows
  <2>1. at[p] \in Working
    BY <1>1 DEF Working
  <2>2. Rows \ passed[p] = {}
    BY <1>1, <2>1, LeftOfWhole
  <2>3. passed[p] \in SUBSET Rows
    BY DEF TypeInv, ProcsOK
  <2> QED
    BY <2>2, <2>3
<1>0. Found(p) = verdict
  BY <1>1 DEF Found, TypeInv, ImportTypeOK
<1>4. Right'
  <2>1. AllMapped /\ CheckedAlone(verdict, Rows) /\ OneOfTwins(verdict, Rows)
    BY <1>0, <1>2, <1>3 DEF Loop
  <2>2. CheckedAlone(verdict, Rows)' /\ OneOfTwins(verdict, Rows)'
    BY <1>1, <2>1, SameMapping DEF CheckedAlone, OneOfTwins
  <2> QED
    BY <1>1, <2>1, <2>2, SameMapping DEF Right
<1>5. CountsRight'
  <2>1. ValidOnes(verdict, Rows)' = ValidOnes(verdict, Rows)
    BY <1>1 DEF ValidOnes
  <2>2. tally[p].valid = Cardinality(ValidOnes(verdict, Rows))
    BY <1>0, <1>2, <1>3 DEF Loop
  <2>3. tally[p].valid + tally[p].invalid = N
    <3>1. tally[p].valid + tally[p].invalid = Cardinality(Rows)
      BY <1>1, <1>3 DEF TypeInv, TallyOK
    <3>2. Cardinality(Rows) = N
      BY FS_Interval, ImportPipelineAssumption DEF Rows
    <3> QED
      BY <3>1, <3>2
  <2>4. tally[p].valid \in Nat /\ tally[p].invalid \in Nat
    BY DEF TypeInv, ProcsOK
  <2>5. tally[p].invalid = N - tally[p].valid
    BY <2>3, <2>4, ImportPipelineAssumption
  <2> QED
    BY <1>1, <2>1, <2>2, <2>5 DEF CountsRight
<1>6. ~Written' /\ EntitiesOK'
  BY <1>1, <1>2 DEF Loop, Written, EntitiesOK
<1>7. Exclusive'
  BY <1>1, TurnStays DEF KeepsTurn
<1>8. JobOK'
  BY <1>1, <1>4, <1>5, <1>6, <1>7 DEF JobOK
<1> QED
  BY <1>1, <1>2, <1>8 DEF ProcOK

-----------------------------------------------------------------------------
(* Steps that stage, map or commit rows.                                   *)

LEMMA StagingKeepsTurns ==
  ASSUME TypeInv, WholeInv, TurnsInv, NEW p \in Procs, Clear(p) \/ InsertRows(p) \/ InsertFails(p),
         \A q \in Procs \ {p} : at'[q] = at[q]
  PROVE  JobOK' /\ ProcOK(p)'
<1> USE DEF Goes, jobVars, localVars, checkVars, Validating, Relies
<1>1. /\ at[p] \in {"clear", "insert"} /\ at'[p] \in {"insert", "stage", "fail", "broken"}
      /\ AtWork(p) /\ UNCHANGED <<status, counts, entity, saw>>
      /\ \A x \in Rows : outcome'[x] \in {outcome[x], "pending"}
      /\ p \in Uploads => at'[p] # "broken" \/ at[p] = "clear"
  BY DEF Clear, InsertRows, InsertFails, Breaks, TypeInv, ProcsOK, AtWork
<1>2. status \in Stageable /\ ProcOK(p) /\ JobOK
  BY <1>1 DEF WholeInv, Prepares, TurnsInv
<1>3. ~Written /\ ~Written'
  BY <1>1, <1>2 DEF JobOK, Written, Stageable, Committed, Terminal
<1>4. Exclusive'
  BY <1>1, TurnStays DEF KeepsTurn
<1>5. EntitiesOK'
  BY <1>1, <1>3 DEF Written, EntitiesOK
<1>6. JobOK'
  BY <1>1, <1>2, <1>3, <1>4, <1>5 DEF JobOK, Stageable, Committed, Terminal
<1> QED
  BY <1>1, <1>2, <1>6 DEF ProcOK

LEMMA RewriteKeepsTurns ==
  ASSUME TypeInv, WholeInv, TurnsInv, NEW p \in Procs, RewriteRows(p),
         \A q \in Procs \ {p} : at'[q] = at[q]
  PROVE  JobOK' /\ ProcOK(p)'
<1> USE DEF Goes, jobVars, checkVars, Validating, Relies
<1>0. PICK S \in SUBSET Rows :
        /\ mapped' = [x \in Rows |-> IF x \in S THEN saw[p].map ELSE mapped[x]]
        /\ passed' = [passed EXCEPT ![p] = @ \cup S]
  BY LeftIsOfRows DEF RewriteRows
<1>1. /\ at[p] = "rewrite" /\ at'[p] \in {"rewrite", "savemap"} /\ AtWork(p)
      /\ UNCHANGED <<status, counts, staged, outcome, entity, saw>>
      /\ passed'[p] = passed[p] \cup S
      /\ at'[p] = "savemap" => Staged \subseteq passed'[p]
      /\ \A x \in Rows : mapped'[x] = IF x \in S THEN saw[p].map ELSE mapped[x]
  BY <1>0 DEF RewriteRows, TypeInv, ProcsOK, AtWork
<1>2. Rewrites(p) /\ ProcOK(p) /\ JobOK
  BY <1>1 DEF TurnsInv, ProcOK
<1>3. saw[p].map \in FieldMaps
  BY <1>1, <1>2 DEF ProcOK, TypeInv, ProcsOK, Maps
<1>4. Staged = Rows /\ passed[p] \subseteq Rows
  BY <1>1, WorkingOnWhole DEF Working, TypeInv, ProcsOK
<1>5. \A x \in passed'[p] : mapped'[x] \in FieldMaps
  BY <1>1, <1>2, <1>3, <1>4 DEF Rewrites
<1>6. at'[p] = "savemap" => AllMapped'
  BY <1>1, <1>4, <1>5 DEF AllMapped
<1>7. AllMapped => AllMapped'
  BY <1>1, <1>3 DEF AllMapped
<1>8. ~Written' /\ EntitiesOK' /\ status' \in {"staged", "mapped", "failed"}
  BY <1>1, <1>2 DEF JobOK, Written, EntitiesOK, Rewrites
<1>9. Exclusive'
  BY <1>1, TurnStays DEF KeepsTurn
<1>10. JobOK'
  BY <1>1, <1>2, <1>7, <1>8, <1>9 DEF JobOK, Committed, Terminal
<1>11. Rewrites(p)'
  BY <1>1, <1>5, <1>6, <1>8 DEF Rewrites
<1> QED
  BY <1>1, <1>2, <1>10, <1>11 DEF ProcOK

LEMMA CommitKeepsTurns ==
  ASSUME TypeInv, WholeInv, TurnsInv, NEW p \in Procs, CommitRow(p),
         \A q \in Procs \ {p} : at'[q] = at[q]
  PROVE  JobOK' /\ ProcOK(p)'
<1> USE DEF jobVars, checkVars
<1>1. PICK x \in ToCommit(p) :
        \/ /\ entity' = entity \cup {[row |-> x, map |-> mapped[x], by |-> p]}
           /\ outcome' = [outcome EXCEPT ![x] = "committed"]
        \/ outcome' = [outcome EXCEPT ![x] = "failed"] /\ UNCHANGED entity
  BY DEF CommitRow
<1>2. /\ at[p] = "commit" /\ AtWork(p)
      /\ UNCHANGED <<status, counts, staged, mapped, verdict, at, saw, tally>>
  BY DEF CommitRow, AtWork
<1>3. x \in Rows /\ verdict[x] = "valid" /\ outcome[x] = "pending"
  BY FirstRowsOf DEF ToCommit, Staged
<1>4. ProcOK(p) /\ JobOK /\ Right /\ status \in {"committing", "failed"}
  BY <1>2 DEF TurnsInv, ProcOK, Relies
<1>5. \A q \in Procs : at[q] \notin {"rewrite", "savemap"} /\ ~Validating(q)
  BY <1>2, <1>4 DEF JobOK, Exclusive, AtWork, Validating
<1>6. PassesAlone(x) /\ mapped[x] \in FieldMaps
  BY <1>3, <1>4 DEF Right, AllMapped, CheckedAlone
<1>7. EntitiesOK'
  <2>1. outcome \in [Rows -> {"pending", "committed", "failed"}] /\ \A e \in entity : e.row \in Rows
    BY DEF TypeInv, ImportTypeOK
  <2>2. \A e \in entity : e.row # x /\ outcome'[e.row] = "committed"
    BY <1>1, <1>3, <1>4, <2>1 DEF JobOK, EntitiesOK
  <2>3. \A y \in Rows : PassesAlone(y)' <=> PassesAlone(y)
    BY <1>2, SameMapping
  <2>4. CASE UNCHANGED entity
    BY <1>2, <1>4, <2>1, <2>2, <2>3, <2>4 DEF JobOK, EntitiesOK
  <2>5. CASE /\ entity' = entity \cup {[row |-> x, map |-> mapped[x], by |-> p]}
             /\ outcome' = [outcome EXCEPT ![x] = "committed"]
    <3>1. outcome'[x] = "committed"
      BY <1>3, <2>1, <2>5
    <3> QED
      BY <1>2, <1>3, <1>4, <1>6, <2>1, <2>2, <2>3, <2>5, <3>1 DEF JobOK, EntitiesOK
  <2> QED
    BY <1>1, <2>4, <2>5
<1>8. Right'
  BY <1>2, <1>4, SameVerdicts DEF NoneHalfWay, HalfWay
<1>9. Exclusive'
  BY <1>2, <1>4 DEF JobOK, Exclusive, AtWork
<1>10. JobOK'
  BY <1>2, <1>4, <1>5, <1>7, <1>8, <1>9 DEF JobOK, Committed, Validating
<1> QED
  BY <1>2, <1>4, <1>8, <1>10 DEF ProcOK, Validating, Relies

LEMMA TurnsInvariant ==
  ASSUME ~Overlapping
  PROVE  Spec => []TurnsInv
<1>1. TypeInv /\ WholeInv /\ TurnsInv /\ [Next]_vars => TurnsInv'
  <2> SUFFICES ASSUME TypeInv, WholeInv, TurnsInv, [Next]_vars
               PROVE  TurnsInv'
    OBVIOUS
  <2>1. CASE UNCHANGED vars
    <3> USE <2>1 DEF vars, jobVars, rowVars, localVars, checkVars
    <3>0. /\ HalfWayLater' <=> HalfWayLater
          /\ NoneHalfWay' <=> NoneHalfWay
      BY DEF HalfWayLater, NoneHalfWay, HalfWay
    <3>1. JobOK'
      <4>1. (CountsRight' <=> CountsRight) /\ (Written' <=> Written) /\ (Exclusive' <=> Exclusive)
        BY DEF CountsRight, ValidOnes, Written, Exclusive, AtWork
      <4>2. EntitiesOK'
        BY SameMapping DEF TurnsInv, JobOK, EntitiesOK, TypeInv, ImportTypeOK
      <4> QED
        BY <3>0, <4>1, <4>2, SameMapping, SameVerdicts DEF TurnsInv, JobOK, Validating
    <3>2. ASSUME NEW p \in Procs
          PROVE  ProcOK(p)'
      <4>1. Loop(p) => Loop(p)'
        BY SameMapping, SameFindings DEF Loop, Written, TypeInv, ProcsOK
      <4>2. (Right => Right') /\ (Rewrites(p)' <=> Rewrites(p))
        BY <3>0, SameVerdicts DEF Rewrites, AllMapped
      <4> QED
        BY <4>1, <4>2 DEF TurnsInv, ProcOK, Validating, Relies
    <3> QED
      BY <3>0, <3>1, <3>2 DEF TurnsInv, KeysOK
  <2>2. ASSUME NEW p \in Procs, Step(p) \/ Rejects(p) \/ Dies(p)
        PROVE  TurnsInv'
    <3>1. /\ KeysOK' /\ HalfWayLater' /\ \A q \in Procs \ {p} : at'[q] = at[q]
          /\ ~WriteValidated(p) => (NoneHalfWay' => NoneHalfWay)
      BY <2>2, StepIsLocal, OnlyResultsEnd DEF TurnsInv
    <3>2. JobOK' /\ ProcOK(p)'
      <4>1. CASE WriteValidated(p)
        BY <3>1, <4>1, WriteValidatedKeepsTurns
      <4> SUFFICES ASSUME ~WriteValidated(p)
                   PROVE  JobOK' /\ ProcOK(p)'
        BY <4>1
      <4> QED
        BY <2>2, <3>1, TameKeepsJob, StagingIsTame, GatesAreTame, BeginningIsTame, PassesAreTame,
           ReadIsTame, FlushKeepsTurns, StagingKeepsTurns, RewriteKeepsTurns, CommitKeepsTurns DEF Step
    <3>3. \A q \in Procs \ {p} : ProcOK(q)'
      BY <2>2, OthersKeepProc
    <3> QED
      BY <3>1, <3>2, <3>3 DEF TurnsInv
  <2> QED
    BY <2>1, <2>2 DEF Next
<1> QED
  BY <1>1, TurnsInit, TypeInvariant, WholeInvariant, PTL DEF Spec

-----------------------------------------------------------------------------
(* What follows, for any file, mappings, chunk and processes that take turns, *)
(* whatever fails, dies and is retried.                                       *)

(* A job that got past mapping has no row without mappedFields, also if a     *)
(* request to map it anew died half way (applyMapping).                       *)
THEOREM MappedJobsAreMapped ==
  ASSUME ~Overlapping
  PROVE  Spec => []RowsAreMapped
<1>1. TurnsInv => RowsAreMapped
  BY ImportPipelineAssumption
     DEF TurnsInv, JobOK, Right, AllMapped, Committed, RowsAreMapped, Ready
<1> QED
  BY <1>1, TurnsInvariant, PTL

(* The three passes of validateImportJob, which know no more of the file than *)
(* the duplicates an aggregation found and the keys they have read, give      *)
(* every row the verdict and the job the counts that the whole file calls for,*)
(* in whatever chunks and order the cursor returns the rows: of those with the *)
(* same identity value one escapes the check for duplicates.                  *)
THEOREM VerdictsAreRight ==
  ASSUME ~Overlapping
  PROVE  Spec => []ValidatedIsChecked
<1>1. TurnsInv => ValidatedIsChecked
  BY DEF TurnsInv, JobOK, Right, CountsRight, ValidOnes, ValidatedIsChecked
<1> QED
  BY <1>1, TurnsInvariant, PTL

(* No identity value gets a second document, without the help of a unique     *)
(* index, unless another validation of the validated job broke off half way:  *)
(* the verdicts that a commit acts on are those of the rows it writes         *)
(* (validateImportJob, commitBatch).                                          *)
THEOREM KeysAreWrittenOnce ==
  ASSUME ~Overlapping
  PROVE  Spec => []NoTwoOfAKey
<1> SUFFICES ASSUME TypeInv, TurnsInv
             PROVE  NoTwoOfAKey
  BY TypeInvariant, TurnsInvariant, PTL
<1>1. \A e \in entity : /\ KeyOfEntity(e) = KeyOf(e.row) /\ e.row \in Rows
                        /\ PassesAlone(e.row) /\ verdict[e.row] = "valid"
  BY ImportPipelineAssumption
     DEF TurnsInv, JobOK, EntitiesOK, KeyOfEntity, KeyOf, TypeInv, ImportTypeOK
<1>2. ASSUME NoneHalfWay, NEW d \in entity, NEW e \in entity \ {d}, KeyOfEntity(e) # NoKey
      PROVE  KeyOfEntity(d) # KeyOfEntity(e)
  <2>1. d.row # e.row
    BY DEF TurnsInv, JobOK, EntitiesOK
  <2>2. OneOfTwins(verdict, Rows)
    BY <1>2 DEF TurnsInv, JobOK, Written, Right
  <2>3. ~Twins(d.row, e.row)
    BY <1>1, <2>2 DEF OneOfTwins
  <2> QED
    BY <1>1, <1>2, <2>1, <2>3 DEF Twins
<1> QED
  BY <1>1, <1>2 DEF NoTwoOfAKey, PassesAlone

(* With any number of mappings, no re-mapping slips in between a row's        *)
(* validation and its commit (applyMapping, validateImportJob, commitBatch).  *)
THEOREM NoRemappingSlipsIn ==
  ASSUME ~Overlapping
  PROVE  Spec => []WrittenRowsAreSound
<1>1. TurnsInv => WrittenRowsAreSound
  BY ImportPipelineAssumption DEF TurnsInv, JobOK, EntitiesOK, PassesAlone, WrittenRowsAreSound
<1> QED
  BY <1>1, TurnsInvariant, PTL

(* A row that has been written, or that was refused, is not touched again, and *)
(* only the commit writes outcomes and documents.                             *)
LEMMA OnlyCommitSettles ==
  ASSUME TypeInv, WholeInv, TurnsInv, Next
  PROVE  \/ \E p \in Procs : CommitRow(p)
         \/ UNCHANGED <<outcome, entity>> /\ (Written => UNCHANGED rowVars)
<1>1. PICK p \in Procs : Step(p) \/ Rejects(p) \/ Dies(p)
  BY DEF Next
<1>2. Written => at[p] \notin {"clear", "insert", "rewrite", "flush"}
  <2> SUFFICES ASSUME Written PROVE at[p] \notin {"clear", "insert", "rewrite", "flush"}
    OBVIOUS
  <2>1. /\ status \in Committed \cup {"failed"}
        /\ at[p] \notin {"rewrite", "savemap"} /\ ~Validating(p)
    BY DEF TurnsInv, JobOK
  <2>2. ~Prepares(p)
    BY <2>1 DEF WholeInv, Committed, Terminal, Stageable
  <2> QED
    BY <2>1, <2>2 DEF Prepares, Validating
<1>3. CASE Rejects(p) \/ Dies(p)
  BY <1>3 DEF Rejects, Dies, rowVars
<1>4. CASE Clear(p)
  <2>1. ~Written /\ outcome \in [Rows -> {"pending", "committed", "failed"}]
    BY <1>2, <1>4 DEF Clear, TypeInv, ImportTypeOK
  <2>2. outcome = [x \in Rows |-> "pending"]
    BY <2>1 DEF Written
  <2> QED
    BY <1>4, <2>1, <2>2 DEF Clear
<1>5. CASE Step(p) /\ ~Clear(p) /\ ~CommitRow(p)
  <2>1. UNCHANGED <<outcome, entity>> /\ (UNCHANGED rowVars \/ at[p] \in {"insert", "rewrite", "flush"})
    BY <1>5
       DEF Step, CreateJob, ReadUpload, SaveUploaded, Trigger, StartExecution, Parse, rowVars,
           InsertRows, InsertFails, SaveStaged, SaveStagedFails, SaveFailed, AutoMap,
           BeginMapping, RefuseMapping, RewriteRows, SaveMapping, RefuseProfile, AutoValidate,
           BeginValidation, RefuseValidation, FindDuplicates, FindExisting, ReadRows,
           FlushRows, WriteValidated, Refresh, GiveUp, BeginCommit, Exit, Mark, WriteResult
  <2> QED
    BY <1>2, <2>1
<1> QED
  BY <1>1, <1>3, <1>4, <1>5

(* No retried execution and no late request stages, maps, checks or commits a *)
(* committed row again (importPipeline.js:131, applyMapping, validateImportJob).*)
THEOREM CommittedRowsStay ==
  ASSUME ~Overlapping
  PROVE  Spec => CommittedRowIsFrozen
<1>1. TypeInv /\ WholeInv /\ TurnsInv /\ [Next]_vars =>
        [\A x \in Rows : outcome[x] = "committed" =>
            /\ staged'[x] = staged[x] /\ mapped'[x] = mapped[x]
            /\ verdict'[x] = verdict[x] /\ outcome'[x] = outcome[x]]_vars
  <2> SUFFICES ASSUME TypeInv, WholeInv, TurnsInv, Next,
                      NEW x \in Rows, outcome[x] = "committed"
               PROVE  /\ staged'[x] = staged[x] /\ mapped'[x] = mapped[x]
                      /\ verdict'[x] = verdict[x] /\ outcome'[x] = outcome[x]
    OBVIOUS
  <2>1. CASE \E p \in Procs : CommitRow(p)
    <3>1. PICK p \in Procs : CommitRow(p)
      BY <2>1
    <3>2. \A y \in ToCommit(p) : outcome[y] = "pending"
      BY FirstRowsOf DEF ToCommit
    <3>3. outcome \in [Rows -> {"pending", "committed", "failed"}]
      BY DEF TypeInv, ImportTypeOK
    <3> QED
      BY <3>1, <3>2, <3>3 DEF CommitRow
  <2>2. CASE Written => UNCHANGED rowVars
    BY <2>2 DEF Written, rowVars
  <2> QED
    BY <2>1, <2>2, OnlyCommitSettles
<1> QED
  BY <1>1, TypeInvariant, WholeInvariant, TurnsInvariant, PTL DEF Spec, CommittedRowIsFrozen

(* From the upload to the last retry, the job keeps the ledger's promise: each *)
(* row of the file takes effect at most once, and what is reported of it is   *)
(* true and final (importPipeline.js, commitBatch.js).                        *)
THEOREM JobIsLedger ==
  ASSUME ~Overlapping
  PROVE  Spec => JobImplementsLedger
<1>1. Init => Ledger!Init
  <2> SUFFICES ASSUME Init PROVE Ledger!Init
    OBVIOUS
  <2>1. \A x \in Rows : {e \in entity : e.row = x} = {} /\ outcome[x] = "pending"
    BY DEF Init
  <2> QED
    BY <2>1, FS_EmptySet DEF Ledger!Init
<1>2. TypeInv /\ WholeInv /\ TurnsInv /\ [Next]_vars => [Ledger!Next]_Ledger!ledger
  <2> SUFFICES ASSUME TypeInv, WholeInv, TurnsInv, [Next]_vars
               PROVE  Ledger!Next \/ UNCHANGED Ledger!ledger
    BY DEF Ledger!ledger
  <2>1. ASSUME UNCHANGED <<outcome, entity>> PROVE UNCHANGED Ledger!ledger
    BY <2>1 DEF Ledger!ledger
  <2>2. ASSUME NEW p \in Procs, CommitRow(p) PROVE Ledger!Next
    <3>1. PICK x \in ToCommit(p) :
            \/ /\ entity' = entity \cup {[row |-> x, map |-> mapped[x], by |-> p]}
               /\ outcome' = [outcome EXCEPT ![x] = "committed"]
            \/ outcome' = [outcome EXCEPT ![x] = "failed"] /\ UNCHANGED entity
      BY <2>2 DEF CommitRow
    <3> DEFINE doc == [row |-> x, map |-> mapped[x], by |-> p]
               report == [y \in Rows |-> IF outcome[y] = "pending" THEN "open" ELSE outcome[y]]
               effect == [y \in Rows |-> Cardinality({e \in entity : e.row = y})]
    <3>2. x \in Rows /\ outcome[x] = "pending"
      BY FirstRowsOf DEF ToCommit, Staged
    <3>3. outcome \in [Rows -> {"pending", "committed", "failed"}]
      BY DEF TypeInv, ImportTypeOK
    <3>4. {e \in entity : e.row = x} = {}
      BY <3>2 DEF TurnsInv, JobOK, EntitiesOK
    <3>5. report[x] = "open" /\ effect[x] = 0
      BY <3>2, <3>4, FS_EmptySet
    <3>6. CASE /\ entity' = entity \cup {doc}
               /\ outcome' = [outcome EXCEPT ![x] = "committed"]
      <4>1. \A y \in Rows : {e \in entity' : e.row = y} =
              IF y = x THEN {doc} ELSE {e \in entity : e.row = y}
        BY <3>4, <3>6
      <4>2. Cardinality({doc}) = 1
        BY FS_Singleton
      <4>3. effect' = [effect EXCEPT ![x] = 1]
        BY <3>2, <4>1, <4>2, Zenon
      <4>4. report' = [report EXCEPT ![x] = "committed"]
        BY <3>2, <3>3, <3>6
      <4>5. Ledger!CreateAndReport(x)
        <5> HIDE DEF report, effect
        <5> QED
          BY <3>5, <4>3, <4>4 DEF Ledger!CreateAndReport, report, effect
      <4> QED
        BY <3>2, <4>5 DEF Ledger!Next
    <3>7. CASE outcome' = [outcome EXCEPT ![x] = "failed"] /\ UNCHANGED entity
      <4>1. report' = [report EXCEPT ![x] = "failed"] /\ effect' = effect
        BY <3>2, <3>3, <3>7
      <4>2. Ledger!ReportFailed(x)
        BY <3>5, <4>1 DEF Ledger!ReportFailed
      <4> QED
        BY <3>2, <4>2 DEF Ledger!Next
    <3> QED
      BY <3>1, <3>6, <3>7
  <2> QED
    BY <2>1, <2>2, OnlyCommitSettles DEF vars, rowVars
<1> QED
  BY <1>1, <1>2, TypeInvariant, WholeInvariant, TurnsInvariant, PTL
     DEF Spec, JobImplementsLedger, Ledger!Spec

=============================================================================
