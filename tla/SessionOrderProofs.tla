------------------------- MODULE SessionOrderProofs -------------------------
(***************************************************************************)
(* Proofs about SessionOrder, for any number of jobs and entities and any  *)
(* declared dependencies: what Kahn's loop keeps true in both passes, and  *)
(* from it that no entity is taken before its dependencies and that the    *)
(* sort refuses the circular graphs and no other; then what the placing of *)
(* the jobs keeps true, and that its result is an order of all of them.    *)
(***************************************************************************)
EXTENDS SessionOrder, FiniteSetTheorems, TLAPS

-----------------------------------------------------------------------------
(* Parts of the inductive invariant. *)

InputOK ==
    /\ presentEntities \subseteq Entities
    /\ dependencies \in [Entities -> SUBSET Entities]
    /\ pass \in {"isAcyclic", "topologicalSort", "done", "refused"}

\* The loop took whole entities, each once.
TakenOnce ==
    /\ sorted \in Seq(presentEntities)
    /\ Len(sorted) = Cardinality(Taken)

\* The queue holds just those that wait for nothing, and the indegrees count
\* what the others wait for.
LoopInv ==
    /\ indegree = [e \in presentEntities |-> Cardinality(localDeps(e) \ Taken)]
    /\ queue = {e \in presentEntities \ Taken : localDeps(e) \subseteq Taken}

\* Among the entities taken, some one does not depend on the rest.
TakenAcyclic ==
    \A S \in SUBSET Taken : S # {} => \E e \in S : dependencies[e] \cap S = {}

Outcome ==
    /\ pass = "refused" => queue = {} /\ Taken # presentEntities
    /\ pass = "done" => Taken = presentEntities

\* An entity is only taken after every entity of the session it depends on
\* (topologicalSort).
DependenciesFirst ==
    \A i \in DOMAIN sorted : \A d \in dependencies[sorted[i]] \cap presentEntities :
        \E k \in 1..(i - 1) : sorted[k] = d

KahnInv ==
    InputOK /\ TakenOnce /\ LoopInv /\ DependenciesFirst /\ TakenAcyclic /\ Outcome

-----------------------------------------------------------------------------
(* The graph is finite, and nothing that is read of it changes. *)
LEMMA GraphFinite ==
  ASSUME InputOK
  PROVE  /\ IsFiniteSet(presentEntities)
         /\ \A e : localDeps(e) \subseteq presentEntities /\ IsFiniteSet(localDeps(e))
<1>1. IsFiniteSet(presentEntities)
  BY FS_Subset, SessionOrderAssumption DEF InputOK
<1>2. ASSUME NEW e
      PROVE  localDeps(e) \subseteq presentEntities /\ IsFiniteSet(localDeps(e))
  <2>1. localDeps(e) \in SUBSET presentEntities
    BY DEF localDeps
  <2> QED
    BY <2>1, <1>1, FS_Subset
<1> QED
  BY <1>1, <1>2

(* What has been taken is closed under the dependencies inside the session. *)
LEMMA TakenClosed ==
  ASSUME TakenOnce, DependenciesFirst, NEW e \in Taken
  PROVE  e \in presentEntities /\ localDeps(e) \subseteq Taken
<1>1. PICK i \in DOMAIN sorted : sorted[i] = e
  BY DEF Taken
<1>2. \A d \in localDeps(e) : \E k \in 1..(i - 1) : sorted[k] = d
  BY <1>1 DEF DependenciesFirst, localDeps
<1>3. 1..(i - 1) \subseteq DOMAIN sorted
  BY <1>1 DEF TakenOnce
<1> QED
  BY <1>1, <1>2, <1>3 DEF Taken, TakenOnce

FreshPass == sorted = <<>> /\ indegree = Indegrees /\ queue = Roots

(* Before a pass takes anything, the loop invariant is what Indegrees and Roots *)
(* set up.                                                                       *)
LEMMA FreshLoop ==
  InputOK /\ FreshPass => TakenOnce /\ LoopInv /\ DependenciesFirst /\ TakenAcyclic
<1> SUFFICES ASSUME InputOK, FreshPass
             PROVE  TakenOnce /\ LoopInv /\ DependenciesFirst /\ TakenAcyclic
  OBVIOUS
<1> USE DEF FreshPass
<1>1. Taken = {}
  BY DEF Taken
<1>2. TakenOnce
  BY <1>1, FS_EmptySet DEF TakenOnce
<1>3. \A e \in presentEntities : localDeps(e) \ Taken = localDeps(e)
  BY <1>1
<1>4. LoopInv
  <2>1. indegree = [e \in presentEntities |-> Cardinality(localDeps(e) \ Taken)]
    BY <1>3 DEF Indegrees
  <2>2. queue = {e \in presentEntities \ Taken : localDeps(e) \subseteq Taken}
    BY <1>1 DEF Roots
  <2> QED
    BY <2>1, <2>2 DEF LoopInv
<1>5. DependenciesFirst
  BY DEF DependenciesFirst
<1>6. TakenAcyclic
  BY <1>1 DEF TakenAcyclic
<1> QED
  BY <1>2, <1>4, <1>5, <1>6

(* The inputs of the sort are well formed from the start. *)
LEMMA InitKahn ==
  ASSUME Init
  PROVE  KahnInv
<1>1. PICK n \in 1..MaxJobs : jobs \in [1..n -> JobIds]
  BY DEF Init
<1>2. InputOK
  <2>1. \A i \in DOMAIN jobs : EntityOf[jobs[i]] \in Entities
    BY <1>1, SessionOrderAssumption
  <2> QED
    BY <2>1 DEF InputOK, presentEntities, Entries, Init
<1>3. FreshPass
  BY DEF Init, FreshPass
<1>4. TakenOnce /\ LoopInv /\ DependenciesFirst /\ TakenAcyclic
  BY <1>2, <1>3, FreshLoop
<1> QED
  BY <1>2, <1>4 DEF KahnInv, Outcome, Init

(* One turn of the loop: the entity taken had nothing left to wait for, and   *)
(* exactly its dependers wait for one entity less.                            *)
LEMMA TakeKeepsKahn ==
  ASSUME KahnInv, NEW v \in Entities, Take(v)
  PROVE  KahnInv'
<1> USE DEF KahnInv
<1>1. /\ presentEntities' = presentEntities
      /\ \A e : localDeps(e)' = localDeps(e)
  BY DEF Take, presentEntities, Entries, localDeps
<1>2. v \in presentEntities /\ v \notin Taken /\ localDeps(v) \subseteq Taken
  BY DEF Take, LoopInv
<1>3. InputOK'
  BY <1>1 DEF Take, InputOK, Sorting
<1>4. sorted' = Append(sorted, v) /\ sorted \in Seq(presentEntities)
  BY DEF Take, TakenOnce
<1>5. /\ Len(sorted') = Len(sorted) + 1
      /\ DOMAIN sorted' = 1..(Len(sorted) + 1) /\ DOMAIN sorted = 1..Len(sorted)
      /\ \A i \in DOMAIN sorted : i \in DOMAIN sorted' /\ sorted'[i] = sorted[i]
      /\ sorted'[Len(sorted) + 1] = v
      /\ Len(sorted) \in Nat
  BY <1>2, <1>4
<1>6. Taken' = Taken \cup {v}
  BY <1>5 DEF Taken
<1>7. IsFiniteSet(presentEntities) /\ Taken \subseteq presentEntities /\ IsFiniteSet(Taken)
  <2>1. IsFiniteSet(presentEntities)
    BY GraphFinite
  <2>2. Taken \in SUBSET presentEntities
    BY <1>4 DEF Taken
  <2> QED
    BY <2>1, <2>2, FS_Subset
<1>8. TakenOnce'
  <2>1. Cardinality(Taken') = Cardinality(Taken) + 1
    BY <1>2, <1>6, <1>7, FS_AddElement
  <2>2. sorted' \in Seq(presentEntities)'
    BY <1>1, <1>2, <1>4
  <2> QED
    BY <2>1, <2>2, <1>5 DEF TakenOnce
<1>9. ASSUME NEW e \in presentEntities
      PROVE  /\ indegree'[e] = Cardinality(localDeps(e) \ Taken')
             /\ e \in Dependers(v) => (indegree'[e] = 0 <=> localDeps(e) \subseteq Taken')
  <2>1. localDeps(e) \ Taken' = (localDeps(e) \ Taken) \ {v}
    BY <1>6
  <2>2. IsFiniteSet(localDeps(e) \ Taken)
    BY GraphFinite, FS_Subset
  <2>3. /\ IsFiniteSet(localDeps(e) \ Taken')
        /\ Cardinality(localDeps(e) \ Taken') =
             IF v \in localDeps(e) \ Taken THEN Cardinality(localDeps(e) \ Taken) - 1
                                           ELSE Cardinality(localDeps(e) \ Taken)
    BY <2>1, <2>2, FS_RemoveElement
  <2>4. e \in Dependers(v) <=> v \in localDeps(e) \ Taken
    BY <1>2 DEF Dependers
  <2>5. indegree'[e] = Cardinality(localDeps(e) \ Taken')
    BY <2>3, <2>4 DEF Take, LoopInv
  <2>6. Cardinality(localDeps(e) \ Taken') = 0 <=> localDeps(e) \ Taken' = {}
    BY <2>3, FS_EmptySet
  <2> QED
    BY <2>5, <2>6
<1>10. LoopInv'
  <2>1. indegree' = [e \in presentEntities |-> Cardinality(localDeps(e) \ Taken')]
    BY <1>9 DEF Take
  <2>2. ASSUME NEW e \in presentEntities
        PROVE  e \in queue' <=> e \notin Taken' /\ localDeps(e) \subseteq Taken'
    <3>1. CASE e \in Taken'
      <4>1. localDeps(e) \subseteq Taken /\ e \notin queue \ {v}
        BY <3>1, <1>2, <1>6, TakenClosed DEF LoopInv
      <4>2. e \notin Dependers(v)
        BY <4>1, <1>2 DEF Dependers
      <4> QED
        BY <3>1, <4>1, <4>2 DEF Take
    <3>2. CASE e \notin Taken' /\ e \in Dependers(v)
      <4>1. e \notin queue
        BY <3>2, <1>2 DEF LoopInv, Dependers
      <4> QED
        BY <3>2, <4>1, <1>9 DEF Take
    <3>3. CASE e \notin Taken' /\ e \notin Dependers(v)
      <4>1. localDeps(e) \subseteq Taken' <=> localDeps(e) \subseteq Taken
        BY <3>3, <1>6 DEF Dependers
      <4>2. e # v /\ e \notin Taken
        BY <3>3, <1>6
      <4> QED
        BY <3>3, <4>1, <4>2 DEF Take, LoopInv
    <3> QED
      BY <3>1, <3>2, <3>3
  <2>3. queue' \subseteq presentEntities
    BY DEF Take, LoopInv, Dependers
  <2> QED
    BY <1>1, <2>1, <2>2, <2>3 DEF LoopInv
<1>11. DependenciesFirst'
  <2> SUFFICES ASSUME NEW i \in DOMAIN sorted', NEW d \in localDeps(sorted'[i])
               PROVE  \E k \in 1..(i - 1) : sorted'[k] = d
    BY <1>1 DEF DependenciesFirst, localDeps
  <2>1. CASE i \in DOMAIN sorted
    <3>1. PICK k \in 1..(i - 1) : sorted[k] = d
      BY <2>1, <1>5 DEF DependenciesFirst, localDeps
    <3>2. k \in DOMAIN sorted
      BY <2>1, <1>5
    <3> QED
      BY <3>1, <3>2, <1>5
  <2>2. CASE i = Len(sorted) + 1
    <3>1. d \in Taken
      BY <2>2, <1>2, <1>5
    <3>2. PICK k \in DOMAIN sorted : sorted[k] = d
      BY <3>1 DEF Taken
    <3> QED
      BY <2>2, <3>2, <1>5
  <2> QED
    BY <2>1, <2>2, <1>5
<1>12. TakenAcyclic'
  <2>1. \A e \in Taken : v \notin dependencies[e]
    BY <1>2, TakenClosed DEF localDeps
  <2>2. v \notin dependencies[v]
    BY <1>2 DEF localDeps
  <2>3. ASSUME NEW S \in SUBSET (Taken \cup {v}), S # {}
        PROVE  \E e \in S : dependencies[e] \cap S = {}
    <3>1. CASE S = {v}
      BY <3>1, <2>2
    <3>2. CASE S # {v}
      <4>1. S \ {v} \in SUBSET Taken /\ S \ {v} # {}
        BY <2>3, <3>2
      <4>2. PICK e \in S \ {v} : dependencies[e] \cap (S \ {v}) = {}
        BY <4>1 DEF TakenAcyclic
      <4>3. v \notin dependencies[e]
        BY <4>1, <2>1
      <4> QED
        BY <4>2, <4>3
    <3> QED
      BY <3>1, <3>2
  <2> QED
    BY <2>3, <1>6 DEF TakenAcyclic, Take
<1>13. Outcome'
  BY DEF Outcome, Take, Sorting
<1> QED
  BY <1>3, <1>8, <1>10, <1>11, <1>12, <1>13

(* A pass that has counted every entity has taken every entity. *)
LEMMA TookAllMeansAll ==
  ASSUME InputOK, TakenOnce
  PROVE  TookAll <=> Taken = presentEntities
<1>1. IsFiniteSet(presentEntities) /\ Taken \in SUBSET presentEntities
  BY GraphFinite DEF TakenOnce, Taken
<1> QED
  BY <1>1, FS_Subset DEF TookAll, TakenOnce

(* The steps outside of the loop. *)
LEMMA OtherStepsKeepKahn ==
  ASSUME KahnInv, Restart \/ Refuse \/ Place \/ NextEntity \/ Return \/ UNCHANGED vars
  PROVE  KahnInv'
<1> USE DEF KahnInv
<1>1. CASE Restart
  <2>1. InputOK'
    BY <1>1 DEF Restart, InputOK, presentEntities, Entries
  <2>2. FreshPass'
    BY <1>1 DEF Restart, FreshPass, Indegrees, Roots, localDeps, presentEntities, Entries
  <2>3. (TakenOnce /\ LoopInv /\ DependenciesFirst /\ TakenAcyclic)'
    BY <2>1, <2>2, FreshLoop, PTL
  <2>4. Outcome'
    BY <1>1 DEF Restart, Outcome
  <2> QED
    BY <2>1, <2>3, <2>4
<1>2. CASE Refuse \/ Return
  <2>1. UNCHANGED <<jobs, dependencies, sortVars>>
    BY <1>2 DEF Refuse, Return
  <2>2. (TakenOnce /\ LoopInv /\ DependenciesFirst /\ TakenAcyclic)'
    BY <2>1, SMTT(30) DEF sortVars, TakenOnce, LoopInv, DependenciesFirst, TakenAcyclic, Taken,
                presentEntities, Entries, localDeps
  <2>3. InputOK'
    BY <1>2, <2>1 DEF Refuse, Return, InputOK, presentEntities, Entries
  <2>4. Outcome'
    BY <1>2, <2>1, TookAllMeansAll, ZenonT(30)
       DEF Refuse, Return, Placing, Outcome, sortVars, Taken, presentEntities, Entries
  <2> QED
    BY <2>2, <2>3, <2>4
<1>3. CASE Place \/ NextEntity \/ UNCHANGED vars
  <2>1. UNCHANGED <<jobs, dependencies, pass, indegree, queue, sorted>>
    BY <1>3 DEF Place, NextEntity, vars, sortVars
  <2>2. /\ presentEntities' = presentEntities /\ Taken' = Taken
        /\ \A e : localDeps(e)' = localDeps(e)
    BY <2>1 DEF Taken, presentEntities, Entries, localDeps
  <2>3. (InputOK /\ TakenOnce /\ DependenciesFirst /\ TakenAcyclic /\ Outcome)'
    BY <2>1, <2>2 DEF InputOK, TakenOnce, DependenciesFirst, TakenAcyclic, Outcome
  <2>4. LoopInv'
    BY <2>1, <2>2 DEF LoopInv
  <2> QED
    BY <2>3, <2>4
<1> QED
  BY <1>1, <1>2, <1>3

(* Both passes keep the loop invariant. *)
THEOREM KahnInvariant == Spec => []KahnInv
<1>1. Init => KahnInv
  BY InitKahn
<1>2. KahnInv /\ [Next]_vars => KahnInv'
  BY TakeKeepsKahn, OtherStepsKeepKahn DEF Next
<1> QED
  BY <1>1, <1>2, PTL DEF Spec

(* No entity of a session is taken before one it depends on                   *)
(* (topologicalSort), whatever the graph.                                     *)
THEOREM SortRespectsDependencies == Spec => []DependenciesFirst
<1>1. KahnInv => DependenciesFirst
  BY DEF KahnInv
<1> QED
  BY <1>1, KahnInvariant, PTL

(* computeSessionExecutionOrder refuses a session if its entities depend on   *)
(* each other in a circle, and no other session.                              *)
THEOREM CircularIsRefused == Spec => []RefusedMeansCircular
<1>1. ASSUME KahnInv, pass = "refused"
      PROVE  Circular
  <2> DEFINE S == presentEntities \ Taken
  <2>1. S \in SUBSET presentEntities /\ S # {}
    BY <1>1 DEF KahnInv, Outcome, TakenOnce, Taken
  <2>2. ASSUME NEW e \in S
        PROVE  dependencies[e] \cap S # {}
    <3>1. ~(localDeps(e) \subseteq Taken)
      BY <1>1 DEF KahnInv, Outcome, LoopInv
    <3> QED
      BY <3>1 DEF localDeps
  <2> QED
    BY <2>1, <2>2 DEF Circular
<1>2. ASSUME KahnInv, pass = "done"
      PROVE  ~Circular
  BY <1>2 DEF KahnInv, Outcome, TakenAcyclic, Circular
<1>3. KahnInv => RefusedMeansCircular
  BY <1>1, <1>2 DEF RefusedMeansCircular
<1> QED
  BY <1>3, KahnInvariant, PTL

-----------------------------------------------------------------------------
(* The placing of the jobs. *)

Placed == {placed[i] : i \in DOMAIN placed}
EntityAt(k) == EntityOf[jobs[k]]

Placement ==
    /\ jobs \in Seq(JobIds) /\ Len(jobs) \in 1..MaxJobs
    /\ turn \in 1..(Len(sorted) + 1)
    /\ placed \in Seq(DOMAIN jobs)
    /\ pass = "done" => queue = {} /\ TookAll /\ turn = Len(sorted) + 1

\* Nothing is placed before all entities are listed.
NotBefore == Placing \/ pass = "done" \/ (turn = 1 /\ placed = <<>>)

\* What is placed is of an entity whose turn has come, and with an entry all
\* earlier ones of its entity are.
Upto ==
    \A i \in DOMAIN placed :
        /\ \E t \in DOMAIN sorted : t <= turn /\ sorted[t] = EntityAt(placed[i])
        /\ \A k \in DOMAIN jobs :
             k < placed[i] /\ EntityAt(k) = EntityAt(placed[i]) => k \in Placed

\* The entities whose turn is over have no job left.
Through ==
    \A t \in DOMAIN sorted, k \in DOMAIN jobs :
        t < turn /\ EntityAt(k) = sorted[t] => k \in Placed

\* What is placed is in order, by the turns first, then by position.
InOrder ==
    \A i, k \in DOMAIN placed : i < k =>
        /\ placed[i] # placed[k]
        /\ \A s, t \in DOMAIN sorted :
             sorted[s] = EntityAt(placed[i]) /\ sorted[t] = EntityAt(placed[k]) =>
                 s <= t /\ (s = t => placed[i] < placed[k])

PlaceInv == Placement /\ NotBefore /\ Upto /\ Through /\ InOrder

(* The positions of a list of n. *)
LEMMA PositionsCount ==
  ASSUME NEW n \in Nat
  PROVE  IsFiniteSet(1..n) /\ Cardinality(1..n) = n
<1>1. 1 \in Int /\ n \in Int /\ (1 > n => n = 0)
  OBVIOUS
<1>2. IsFiniteSet(1..n) /\ Cardinality(1..n) = IF 1 > n THEN 0 ELSE n - 1 + 1
  BY <1>1, FS_Interval
<1> QED
  BY <1>1, <1>2

(* No entity is listed twice. *)
LEMMA TakenDistinct ==
  ASSUME InputOK, TakenOnce, NEW s \in DOMAIN sorted, NEW t \in DOMAIN sorted,
         sorted[s] = sorted[t]
  PROVE  s = t
<1> DEFINE D == DOMAIN sorted
<1>1. D = 1..Len(sorted) /\ Len(sorted) \in Nat
  BY DEF TakenOnce
<1>2. IsFiniteSet(D) /\ Cardinality(D) = Cardinality(Taken)
  <2>1. IsFiniteSet(1..Len(sorted)) /\ Cardinality(1..Len(sorted)) = Len(sorted)
    BY <1>1, PositionsCount
  <2> QED
    BY <1>1, <2>1 DEF TakenOnce
<1>3. sorted \in Surjection(D, Taken)
  <2>1. \A e \in Taken : \E i \in D : sorted[i] = e
    BY DEF Taken
  <2>2. sorted \in [D -> Taken]
    <3>1. sorted = [i \in D |-> sorted[i]] /\ \A i \in D : sorted[i] \in Taken
      BY DEF TakenOnce, Taken
    <3> QED
      BY <3>1
  <2> QED
    BY <2>1, <2>2 DEF Surjection
<1>4. sorted \in Injection(D, Taken)
  BY <1>2, <1>3, FS_Surjection
<1> QED
  BY <1>4 DEF Injection, IsInjective

(* Every job's entity is in the list once all are taken. *)
LEMMA EntityListed ==
  ASSUME KahnInv, Placement, TookAll, NEW k \in DOMAIN jobs
  PROVE  \E t \in DOMAIN sorted : sorted[t] = EntityAt(k)
<1>1. EntityAt(k) \in presentEntities
  BY DEF presentEntities, Entries, EntityAt
<1>2. Taken = presentEntities
  BY TookAllMeansAll DEF KahnInv
<1> QED
  BY <1>1, <1>2 DEF Taken

(* Before any job is placed. *)
LEMMA NothingPlaced ==
  turn = 1 /\ placed = <<>> /\ KahnInv => Upto /\ Through /\ InOrder
<1> SUFFICES ASSUME turn = 1, placed = <<>>, KahnInv
             PROVE  Upto /\ Through /\ InOrder
  OBVIOUS
<1>1. DOMAIN placed = {}
  OBVIOUS
<1>2. \A t \in DOMAIN sorted : ~(t < turn)
  BY DEF KahnInv, TakenOnce
<1> QED
  BY <1>1, <1>2 DEF Upto, Through, InOrder

LEMMA InitPlace == Init => PlaceInv
<1> SUFFICES ASSUME Init PROVE PlaceInv
  OBVIOUS
<1>1. PICK n \in 1..MaxJobs : jobs \in [1..n -> JobIds]
  BY DEF Init
<1>2. jobs \in Seq(JobIds) /\ Len(jobs) = n
  BY <1>1, SessionOrderAssumption
<1>3. turn = 1 /\ placed = <<>> /\ sorted = <<>> /\ pass # "done"
  BY DEF Init
<1>4. KahnInv
  BY InitKahn
<1> QED
  BY <1>2, <1>3, <1>4, NothingPlaced DEF PlaceInv, Placement, NotBefore

(* Before the placing, no step places anything. *)
LEMMA SortStepsKeepPlace ==
  ASSUME KahnInv, KahnInv', PlaceInv, (\E v \in Entities : Take(v)) \/ Restart \/ Refuse
  PROVE  PlaceInv'
<1>1. ~Placing /\ pass # "done"
  BY DEF Placing, Take, Restart, Refuse, Sorting
<1>2. turn = 1 /\ placed = <<>>
  BY <1>1 DEF PlaceInv, NotBefore
<1>3. turn' = 1 /\ placed' = <<>> /\ jobs' = jobs /\ pass' # "done"
  BY <1>1, <1>2 DEF Take, Restart, Refuse, Sorting, placeVars
<1>4. (Upto /\ Through /\ InOrder)'
  <2>1. (turn = 1 /\ placed = <<>> /\ KahnInv)'
    BY <1>3
  <2> QED
    BY <2>1, NothingPlaced, PTL
<1>5. Len(sorted') \in Nat
  BY DEF KahnInv, TakenOnce
<1>6. placed' \in Seq(DOMAIN jobs')
  BY <1>3
<1> QED
  BY <1>3, <1>4, <1>5, <1>6 DEF PlaceInv, Placement, NotBefore

(* One entry is placed: it is of the entity whose turn it is, and the first of *)
(* those that are left.                                                         *)
LEMMA PlaceKeepsPlace ==
  ASSUME KahnInv, PlaceInv, Place
  PROVE  PlaceInv'
<1> USE DEF PlaceInv
<1>1. PICK k \in Here : (\A m \in Here : k <= m) /\ placed' = Append(placed, k)
  BY DEF Place
<1>2. UNCHANGED <<jobs, dependencies, pass, indegree, queue, sorted, turn>> /\ Placing
  BY DEF Place, sortVars
<1>3. /\ k \in DOMAIN jobs /\ k \notin Placed
      /\ turn <= Len(sorted) => EntityAt(k) = sorted[turn]
      /\ \A m \in DOMAIN jobs \ Placed :
           (turn <= Len(sorted) => EntityAt(m) = sorted[turn]) => k <= m
  BY <1>1 DEF Here, Placed, EntityAt
<1>4. /\ DOMAIN jobs \subseteq Nat /\ DOMAIN sorted = 1..Len(sorted) /\ Len(sorted) \in Nat
      /\ turn \in 1..(Len(sorted) + 1)
  BY DEF Placement, KahnInv, TakenOnce
<1>5. turn \in DOMAIN sorted /\ EntityAt(k) = sorted[turn]
  <2>1. PICK t \in DOMAIN sorted : sorted[t] = EntityAt(k)
    BY <1>2, <1>3, EntityListed DEF Placing
  <2>2. ~(t < turn)
    BY <1>3, <2>1 DEF Through
  <2> QED
    BY <1>3, <1>4, <2>1, <2>2
<1> DEFINE n == Len(placed) + 1
<1>6. /\ Len(placed) \in Nat /\ DOMAIN placed = 1..Len(placed) /\ DOMAIN placed' = 1..n
      /\ placed' \in Seq(DOMAIN jobs) /\ placed'[n] = k
      /\ \A i \in DOMAIN placed : i \in DOMAIN placed' /\ placed'[i] = placed[i] /\ i < n
                                  /\ placed[i] \in DOMAIN jobs
      /\ \A i \in DOMAIN placed' : i \in DOMAIN placed \/ i = n
  BY <1>1, <1>3 DEF Placement
<1> HIDE DEF n
<1>7. Placed' = Placed \cup {k}
  <2>1. n \in DOMAIN placed'
    BY <1>6 DEF n
  <2>2. \A m \in Placed' : m \in Placed \/ m = k
    BY <1>6 DEF Placed
  <2>3. \A m \in Placed : m \in Placed'
    BY <1>6 DEF Placed
  <2>4. k \in Placed'
    BY <1>6, <2>1 DEF Placed
  <2> QED
    BY <2>2, <2>3, <2>4
<1>8. \A m : EntityAt(m)' = EntityAt(m)
  BY <1>2 DEF EntityAt
<1>9. Placement' /\ NotBefore'
  <2>1. TookAll' = TookAll /\ Placing'
    BY <1>2 DEF Placing, TookAll, presentEntities, Entries
  <2> QED
    BY <1>2, <1>6, <2>1 DEF Placement, NotBefore
<1>10. Through'
  BY <1>2, <1>7, <1>8 DEF Through
<1>11. \A m \in DOMAIN jobs : m < k /\ EntityAt(m) = EntityAt(k) => m \in Placed
  BY <1>3, <1>4, <1>5
<1>12. Upto'
  <2> SUFFICES ASSUME NEW i \in DOMAIN placed'
               PROVE  /\ \E t \in DOMAIN sorted : t <= turn /\ sorted[t] = EntityAt(placed'[i])
                      /\ \A m \in DOMAIN jobs :
                           m < placed'[i] /\ EntityAt(m) = EntityAt(placed'[i]) => m \in Placed \cup {k}
    BY <1>2, <1>7, <1>8 DEF Upto, EntityAt
  <2>1. CASE i \in DOMAIN placed
    BY <1>6, <2>1 DEF Upto
  <2>2. CASE i = n
    BY <1>4, <1>5, <1>6, <1>11, <2>2
  <2> QED
    BY <1>6, <2>1, <2>2
<1>13. InOrder'
  <2> SUFFICES ASSUME NEW i \in DOMAIN placed', NEW m \in DOMAIN placed', i < m
               PROVE  /\ placed'[i] # placed'[m]
                      /\ \A s, t \in DOMAIN sorted :
                           sorted[s] = EntityAt(placed'[i]) /\ sorted[t] = EntityAt(placed'[m]) =>
                               s <= t /\ (s = t => placed'[i] < placed'[m])
    BY <1>2, <1>8 DEF InOrder, EntityAt
  <2>1. CASE m \in DOMAIN placed
    <3>1. i \in DOMAIN placed
      BY <1>6, <2>1 DEF n
    <3> QED
      BY <1>6, <2>1, <3>1 DEF InOrder
  <2>2. CASE m = n
    <3>1. i \in DOMAIN placed /\ placed'[i] = placed[i] /\ placed'[m] = k
      BY <1>6, <2>2
    <3>2. placed[i] # k /\ placed[i] \in DOMAIN jobs
      BY <1>3, <1>6, <3>1 DEF Placed
    <3>3. ASSUME NEW s \in DOMAIN sorted, NEW t \in DOMAIN sorted,
                 sorted[s] = EntityAt(placed[i]), sorted[t] = EntityAt(k)
          PROVE  s <= t /\ (s = t => placed[i] < k)
      <4>1. t = turn
        BY <1>5, <3>3, TakenDistinct DEF KahnInv
      <4>2. PICK r \in DOMAIN sorted : r <= turn /\ sorted[r] = EntityAt(placed[i])
        BY <3>1 DEF Upto
      <4>3. r = s
        BY <3>3, <4>2, TakenDistinct DEF KahnInv
      <4>4. s = t => ~(k < placed[i])
        BY <1>3, <3>1, <3>3 DEF Upto
      <4> QED
        BY <1>4, <1>3, <3>2, <4>1, <4>2, <4>3, <4>4
    <3> QED
      BY <3>1, <3>2, <3>3
  <2> QED
    BY <1>6, <2>1, <2>2
<1> QED
  BY <1>9, <1>10, <1>12, <1>13

(* A turn is over when no job of its entity is left. *)
LEMMA NextEntityKeepsPlace ==
  ASSUME KahnInv, PlaceInv, NextEntity
  PROVE  PlaceInv'
<1> USE DEF PlaceInv
<1>1. /\ UNCHANGED <<jobs, dependencies, pass, indegree, queue, sorted, placed>> /\ Placing
      /\ Here = {} /\ turn <= Len(sorted) /\ turn' = turn + 1
  BY DEF NextEntity, sortVars
<1>2. DOMAIN sorted = 1..Len(sorted) /\ Len(sorted) \in Nat /\ turn \in Nat
  BY DEF Placement, KahnInv, TakenOnce
<1>3. Placed' = Placed /\ \A m : EntityAt(m)' = EntityAt(m)
  BY <1>1 DEF Placed, EntityAt
<1>4. Placement' /\ NotBefore'
  <2>1. TookAll' = TookAll /\ Placing' /\ pass # "done"
    BY <1>1 DEF Placing, TookAll, presentEntities, Entries
  <2> QED
    BY <1>1, <1>2, <2>1 DEF Placement, NotBefore
<1>5. \A k \in DOMAIN jobs : EntityAt(k) = sorted[turn] => k \in Placed
  BY <1>1 DEF Here, Placed, EntityAt
<1>6. Through'
  <2>1. \A t \in DOMAIN sorted : t < turn' => t < turn \/ t = turn
    BY <1>1, <1>2
  <2> QED
    BY <1>1, <1>3, <1>5, <2>1 DEF Through
<1>7. Upto'
  <2>1. \A t \in DOMAIN sorted : t <= turn => t <= turn'
    BY <1>1, <1>2
  <2> QED
    BY <1>1, <1>3, <2>1 DEF Upto
<1>8. InOrder'
  BY <1>1, <1>3 DEF InOrder
<1> QED
  BY <1>4, <1>6, <1>7, <1>8

LEMMA RestKeepsPlace ==
  ASSUME PlaceInv, Return \/ UNCHANGED vars
  PROVE  PlaceInv'
<1> USE DEF PlaceInv
<1>1. UNCHANGED <<jobs, queue, sorted, turn, placed>>
  BY DEF Return, vars, sortVars, placeVars
<1>2. /\ Placed' = Placed /\ TookAll' = TookAll
      /\ \A m : EntityAt(m)' = EntityAt(m)
  BY <1>1 DEF Placed, EntityAt, TookAll, presentEntities, Entries
<1>3. (Upto /\ Through /\ InOrder)'
  BY <1>1, <1>2 DEF Upto, Through, InOrder
<1>4. CASE Return
  <2>1. pass' = "done" /\ queue = {} /\ TookAll /\ turn = Len(sorted) + 1
    BY <1>4 DEF Return, Placing, Placement
  <2> QED
    BY <1>1, <1>2, <1>3, <2>1 DEF Placement, NotBefore
<1>5. CASE UNCHANGED vars
  BY <1>1, <1>2, <1>3, <1>5 DEF Placement, NotBefore, Placing, vars
<1> QED
  BY <1>4, <1>5

(* The placing of the jobs keeps what it has placed in order. *)
THEOREM PlaceInvariant == Spec => [](KahnInv /\ PlaceInv)
<1>1. Init => PlaceInv
  BY InitPlace
<1>2. KahnInv /\ KahnInv' /\ PlaceInv /\ [Next]_vars => PlaceInv'
  BY SortStepsKeepPlace, PlaceKeepsPlace, NextEntityKeepsPlace, RestKeepsPlace DEF Next
<1> QED
  BY <1>1, <1>2, KahnInvariant, PTL DEF Spec

(* Every variable keeps its shape: indegrees never fall below zero, and the   *)
(* turns and positions stay within the session.                                *)
THEOREM SortTypeCorrect == Spec => []SortTypeOK
<1>1. ASSUME KahnInv, PlaceInv
      PROVE  SortTypeOK
  <2>1. indegree \in [presentEntities -> Nat]
    <3>1. \A e \in presentEntities : Cardinality(localDeps(e) \ Taken) \in Nat
      <4> TAKE e \in presentEntities
      <4>1. IsFiniteSet(localDeps(e) \ Taken)
        BY <1>1, GraphFinite, FS_Subset DEF KahnInv
      <4> QED
        BY <4>1, FS_CardinalityType
    <3> QED
      BY <1>1, <3>1 DEF KahnInv, LoopInv
  <2>2. orderedIds \in Seq(JobIds)
    <3>1. \A i \in DOMAIN placed : jobs[placed[i]] \in JobIds
      BY <1>1 DEF PlaceInv, Placement
    <3>2. DOMAIN placed = 1..Len(placed) /\ Len(placed) \in Nat
      BY <1>1 DEF PlaceInv, Placement
    <3> QED
      BY <3>1, <3>2 DEF orderedIds
  <2> QED
    BY <1>1, <2>1, <2>2 DEF SortTypeOK, KahnInv, InputOK, TakenOnce, LoopInv, PlaceInv, Placement
<1> QED
  BY <1>1, PlaceInvariant, PTL

(* The result of computeSessionExecutionOrder lists every entry of the session *)
(* once, those of one entity as they were added, and none before an entry its  *)
(* entity depends on.                                                          *)
THEOREM OrderIsOfAllJobs == Spec => []OrderIsRight
<1>1. ASSUME KahnInv, PlaceInv, pass = "done"
      PROVE  Len(orderedIds) = Len(jobs) /\ Placed = DOMAIN jobs
  <2>1. /\ DOMAIN placed = 1..Len(placed) /\ Len(placed) \in Nat
        /\ DOMAIN jobs = 1..Len(jobs) /\ Len(jobs) \in Nat
        /\ placed \in [DOMAIN placed -> DOMAIN jobs]
    BY <1>1 DEF PlaceInv, Placement
  <2>2. Placed = DOMAIN jobs
    <3>1. ASSUME NEW k \in DOMAIN jobs
          PROVE  k \in Placed
      <4>1. PICK t \in DOMAIN sorted : sorted[t] = EntityAt(k)
        BY <1>1, EntityListed DEF PlaceInv, Placement
      <4>2. t < turn
        BY <1>1 DEF PlaceInv, Placement, KahnInv, TakenOnce
      <4> QED
        BY <1>1, <4>1, <4>2 DEF PlaceInv, Through
    <3> QED
      BY <2>1, <3>1 DEF Placed
  <2>3. placed \in Bijection(DOMAIN placed, DOMAIN jobs)
    <3>1. \A i, k \in DOMAIN placed : i # k => placed[i] # placed[k]
      <4> SUFFICES ASSUME NEW i \in DOMAIN placed, NEW k \in DOMAIN placed, i # k
                   PROVE  placed[i] # placed[k]
        OBVIOUS
      <4>1. i < k \/ k < i
        BY <2>1
      <4> QED
        BY <1>1, <4>1 DEF PlaceInv, InOrder
    <3> QED
      BY <2>1, <2>2, <3>1 DEF Placed, Bijection, Injection, Surjection, IsInjective
  <2>4. Len(placed) = Len(jobs)
    <3>1. /\ IsFiniteSet(1..Len(placed)) /\ Cardinality(1..Len(placed)) = Len(placed)
          /\ Cardinality(1..Len(jobs)) = Len(jobs)
      BY <2>1, PositionsCount
    <3>2. IsFiniteSet(DOMAIN placed)
      BY <2>1, <3>1
    <3>3. Cardinality(DOMAIN placed) = Cardinality(DOMAIN jobs)
      BY <2>3, <3>2, FS_Bijection DEF ExistsBijection
    <3> QED
      BY <2>1, <3>1, <3>3
  <2>5. Len(orderedIds) = Len(placed)
    BY <2>1 DEF orderedIds
  <2> QED
    BY <2>2, <2>4, <2>5
<1>2. ASSUME KahnInv, PlaceInv, pass = "done",
             NEW i \in DOMAIN placed, NEW k \in DOMAIN placed, i < k
      PROVE  /\ EntityAt(placed[k]) \notin dependencies[EntityAt(placed[i])]
             /\ EntityAt(placed[k]) = EntityAt(placed[i]) => placed[i] < placed[k]
  <2>1. placed[i] \in DOMAIN jobs /\ placed[k] \in DOMAIN jobs
    BY <1>2 DEF PlaceInv, Placement
  <2>2. PICK s \in DOMAIN sorted : sorted[s] = EntityAt(placed[i])
    BY <1>2, <2>1, EntityListed DEF PlaceInv, Placement
  <2>3. PICK t \in DOMAIN sorted : sorted[t] = EntityAt(placed[k])
    BY <1>2, <2>1, EntityListed DEF PlaceInv, Placement
  <2>4. s <= t /\ (s = t => placed[i] < placed[k])
    BY <1>2, <2>2, <2>3 DEF PlaceInv, InOrder
  <2>5. sorted[t] = sorted[s] => s = t
    BY <1>2, TakenDistinct DEF KahnInv
  <2>6. sorted[t] \notin dependencies[sorted[s]]
    <3> SUFFICES ASSUME sorted[t] \in dependencies[sorted[s]] PROVE FALSE
      OBVIOUS
    <3>1. sorted[t] \in presentEntities
      BY <1>2 DEF KahnInv, TakenOnce
    <3>2. PICK r \in 1..(s - 1) : sorted[r] = sorted[t]
      BY <1>2, <3>1 DEF KahnInv, DependenciesFirst
    <3>3. r \in DOMAIN sorted /\ r < s /\ s \in Nat /\ t \in Nat
      BY <1>2 DEF KahnInv, TakenOnce
    <3>4. r = t
      BY <1>2, <3>2, <3>3, TakenDistinct DEF KahnInv
    <3> QED
      BY <2>4, <3>3, <3>4
  <2> QED
    BY <2>2, <2>3, <2>4, <2>5, <2>6
<1>3. KahnInv /\ PlaceInv => OrderIsRight
  <2> SUFFICES ASSUME KahnInv, PlaceInv, pass = "done"
               PROVE  /\ Len(orderedIds) = Len(jobs) /\ Placed = DOMAIN jobs
                      /\ \A i, k \in DOMAIN orderedIds : i < k =>
                           /\ EntityOf[orderedIds[k]] \notin dependencies[EntityOf[orderedIds[i]]]
                           /\ EntityOf[orderedIds[k]] = EntityOf[orderedIds[i]] =>
                                  placed[i] < placed[k]
    BY DEF OrderIsRight, Placed
  <2>1. DOMAIN orderedIds = DOMAIN placed
        /\ \A i \in DOMAIN placed : EntityOf[orderedIds[i]] = EntityAt(placed[i])
    BY DEF orderedIds, EntityAt
  <2> QED
    BY <1>1, <1>2, <2>1
<1> QED
  BY <1>3, PlaceInvariant, PTL

=============================================================================
