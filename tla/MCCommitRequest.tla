--------------------------- MODULE MCCommitRequest ---------------------------
(* Instances of CommitRequest for TLC. *)
EXTENDS CommitRequest, TLC

CONSTANTS r1, r2, r3

\* The second server's environment defers every commit to the queue.
MixedThreshold == [q \in Runs |-> IF q = r2 THEN 2 ELSE 3]

\* Four rows, each with an identity value of its own.
DistinctKeys == <<"a", "b", "c", "d">>

=============================================================================
