------------------------------ MODULE MCGitHub ------------------------------
(***************************************************************************)
(* The symmetry of the remote target and the bounds of an instance.        *)
(***************************************************************************)
EXTENDS GitHub, TLC

Symmetry == Permutations(Procs) \cup Permutations(Reports) \cup Permutations(Edits)

\* At most this many commits, one of them the first, and one request that
\* nobody waits for.
MaxCommits == 5

FewCommits == Tip <= MaxCommits /\ Cardinality(late) <= 1
=============================================================================
