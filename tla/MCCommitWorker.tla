---------------------------- MODULE MCCommitWorker ----------------------------
(* Instances of CommitWorker for TLC. *)
EXTENDS CommitWorker, TLC

SlotSymmetry == Permutations(Runs)

\* Four rows, each with an identity value of its own.
DistinctKeys == <<"a", "b", "c", "d">>

=============================================================================
