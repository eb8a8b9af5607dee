---------------------------- MODULE SessionOrder ----------------------------
(***************************************************************************)
(* The order in which the jobs of a migration session are to run:          *)
(* computeSessionExecutionOrder and topologicalSort of orchestration/      *)
(* dependencyGraph.js.  topologicalSort runs Kahn's algorithm twice over   *)
(* the same graph, first to count the entities it can take (isAcyclic) and *)
(* then to list them; the jobs are then placed entity by entity.  The order *)
(* in which a JavaScript Map or Set yields its members is left open, so    *)
(* queue is a set.                                                         *)
(*                                                                         *)
(* A definition commented "Slip" is a mistake this code does not make: a   *)
(* property below must fail when it takes the place of what follows it.    *)
(***************************************************************************)
EXTENDS Naturals, Sequences, FiniteSets

CONSTANTS
    JobIds,    \* the import jobs there are
    Entities,  \* the entity keys
    EntityOf,  \* each job's entity key
    MaxJobs    \* bound on the entries of a session

ASSUME SessionOrderAssumption ==
    /\ IsFiniteSet(Entities)
    /\ EntityOf \in [JobIds -> Entities]
    /\ MaxJobs \in Nat

VARIABLES
    jobs,          \* the session's jobs, one of them perhaps added twice
    dependencies,  \* the dependencies each entity's descriptor declares
    pass,          \* "isAcyclic", "topologicalSort", "done" or "refused"
    indegree,      \* dependencies of each entity that are still to be taken
    queue,         \* entities that may be taken
    sorted,        \* entities taken in this pass
    turn,          \* the entity of sorted whose jobs are being placed
    placed         \* the positions, in jobs, of the entries placed so far

sortVars == <<indegree, queue, sorted>>
placeVars == <<turn, placed>>
vars == <<jobs, dependencies, pass, sortVars, placeVars>>

Entries == {jobs[i] : i \in DOMAIN jobs}
presentEntities == {EntityOf[j] : j \in Entries}

\* Slip: dependencies on entities outside the session are kept.
localDepsDeclared(e) == dependencies[e]

\* Slip: the edges of the graph go the other way.
localDepsReversed(e) == {d \in presentEntities : e \in dependencies[d]}

localDeps(e) == dependencies[e] \cap presentEntities

Dependers(v) == {e \in presentEntities : v \in localDeps(e)}

Indegrees == [e \in presentEntities |-> Cardinality(localDeps(e))]
Roots == {e \in presentEntities : localDeps(e) = {}}

Init ==
    /\ jobs \in UNION {[1..n -> JobIds] : n \in 1..MaxJobs}
    /\ dependencies \in [Entities -> SUBSET Entities]
    /\ pass = "isAcyclic"
    /\ indegree = Indegrees
    /\ queue = Roots
    /\ sorted = <<>>
    /\ turn = 1 /\ placed = <<>>

Sorting == pass \in {"isAcyclic", "topologicalSort"}

\* One turn of the while loop, in either pass.
Take(v) ==
    /\ Sorting /\ v \in queue
    /\ sorted' = Append(sorted, v)
    /\ indegree' = [e \in presentEntities |->
                      IF e \in Dependers(v) THEN indegree[e] - 1 ELSE indegree[e]]
    /\ queue' = (queue \ {v}) \cup {e \in Dependers(v) : indegree'[e] = 0}
    /\ UNCHANGED <<jobs, dependencies, pass, placeVars>>

TookAll == Len(sorted) = Cardinality(presentEntities)

\* Slip: the second pass starts from the indegrees the first one left.
RestartStale ==
    /\ pass = "isAcyclic" /\ queue = {} /\ TookAll
    /\ pass' = "topologicalSort"
    /\ queue' = {e \in presentEntities : indegree[e] = 0}
    /\ sorted' = <<>>
    /\ UNCHANGED <<jobs, dependencies, indegree, placeVars>>

\* The first pass could take every entity: the graph is sorted.
Restart ==
    /\ pass = "isAcyclic" /\ queue = {} /\ TookAll
    /\ pass' = "topologicalSort"
    /\ indegree' = Indegrees
    /\ queue' = Roots
    /\ sorted' = <<>>
    /\ UNCHANGED <<jobs, dependencies, placeVars>>

\* 400, "Circular dependency detected".
Refuse ==
    /\ Sorting /\ queue = {} /\ ~TookAll
    /\ pass' = "refused"
    /\ UNCHANGED <<jobs, dependencies, sortVars, placeVars>>

-----------------------------------------------------------------------------
(* The second pass has listed the entities: the jobs are placed in that order. *)

Placing == pass = "topologicalSort" /\ queue = {} /\ TookAll

\* What is left of the jobs whose turn it is: those of one entity, and after the
\* last entity all others, of which there are none.  A job that was added twice is
\* two entries: the ids are ObjectIds, and a Set tells two of them apart even if
\* they are equal.
Here == {k \in DOMAIN jobs \ {placed[i] : i \in DOMAIN placed} :
           turn <= Len(sorted) => EntityOf[jobs[k]] = sorted[turn]}

\* The next job of the entity, in the order they were added.
Place ==
    /\ Placing
    /\ \E k \in Here : (\A m \in Here : k <= m) /\ placed' = Append(placed, k)
    /\ UNCHANGED <<jobs, dependencies, pass, sortVars, turn>>

NextEntity ==
    /\ Placing /\ Here = {} /\ turn <= Len(sorted)
    /\ turn' = turn + 1
    /\ UNCHANGED <<jobs, dependencies, pass, sortVars, placed>>

Return ==
    /\ Placing /\ Here = {} /\ turn > Len(sorted)
    /\ pass' = "done"
    /\ UNCHANGED <<jobs, dependencies, sortVars, placeVars>>

orderedIds == [i \in DOMAIN placed |-> jobs[placed[i]]]

Next == (\E v \in Entities : Take(v)) \/ Restart \/ Refuse \/ Place \/ NextEntity \/ Return

Spec == Init /\ [][Next]_vars

-----------------------------------------------------------------------------
(* Properties. *)

Taken == {sorted[i] : i \in DOMAIN sorted}

SortTypeOK ==
    /\ jobs \in Seq(JobIds) /\ Len(jobs) \in 1..MaxJobs
    /\ dependencies \in [Entities -> SUBSET Entities]
    /\ pass \in {"isAcyclic", "topologicalSort", "done", "refused"}
    /\ indegree \in [presentEntities -> Nat]
    /\ queue \subseteq presentEntities
    /\ sorted \in Seq(presentEntities)
    /\ turn \in 1..(Len(sorted) + 1)
    /\ placed \in Seq(DOMAIN jobs) /\ orderedIds \in Seq(JobIds)

\* Some entities of the session can none of them go first: each depends on
\* another one of them, or on itself.
Circular ==
    \E S \in SUBSET presentEntities :
        S # {} /\ \A e \in S : dependencies[e] \cap S # {}

\* A session is refused for a circular dependency if it has one, and only then;
\* what its descriptors declare on entities outside of it does not matter.
RefusedMeansCircular ==
    /\ pass = "refused" => Circular
    /\ pass = "done" => ~Circular

\* The result lists the session's entries, each of them once and after all jobs
\* it depends on, those of one entity in the order they were added.
OrderIsRight ==
    pass = "done" =>
        /\ Len(orderedIds) = Len(jobs) /\ {placed[i] : i \in DOMAIN placed} = DOMAIN jobs
        /\ \A i, k \in DOMAIN orderedIds : i < k =>
             /\ EntityOf[orderedIds[k]] \notin dependencies[EntityOf[orderedIds[i]]]
             /\ EntityOf[orderedIds[k]] = EntityOf[orderedIds[i]] => placed[i] < placed[k]

=============================================================================
