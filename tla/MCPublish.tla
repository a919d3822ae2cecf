----------------------------- MODULE MCPublish ------------------------------
(***************************************************************************)
(* The symmetry of the publish stage, whose properties compare runs,       *)
(* categories, articles and editions for equality only, and the bound on   *)
(* the records of an instance.                                             *)
(***************************************************************************)
EXTENDS Publish, TLC

Symmetry == Permutations(Runs) \cup Permutations(Categories)
               \cup Permutations(Stories) \cup Permutations(Editions)

Created == {k \in Records : rec[k].state # "absent"}

\* Several runs meet over one record.
OverlapOnOneRecord == Cardinality(Created \cup UNION {todo[r] : r \in Runs}) <= 1

\* One run after the other, when the AI stage is done, over two records that
\* compete for the articles of their category.
TwoRecordsCompete ==
    /\ \E r \in Runs : \A q \in Runs \ {r} :
          pc[q] = "idle" /\ \A k \in Records : rec[k].owner # q
    /\ Cardinality(Created) <= 2
    /\ Created # {} => \A a \in Articles :
          ai[a] = "kept" /\ art[a] \in {"ready_for_publish", "published"}

Bounds == OverlapOnOneRecord \/ TwoRecordsCompete
=============================================================================
