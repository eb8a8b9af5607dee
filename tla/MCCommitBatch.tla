---------------------------- MODULE MCCommitBatch ----------------------------
(* Instances of CommitBatch for TLC. *)
EXTENDS CommitBatch, TLC

RunSymmetry == Permutations(Runs)

\* Rows that each have an identity value of their own.
DistinctKeys == <<"a", "b", "c", "d", "e">>

\* Three rows; 1 and 3 carry the same identity value.
SharedKey == <<"a", "b", "a">>

=============================================================================
