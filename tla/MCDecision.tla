----------------------------- MODULE MCDecision -----------------------------
(* A small instance of Decision: two categories, the articles all in the     *)
(* first one.                                                                *)
EXTENDS Decision, TLC

CONSTANTS k1, k2

MCCategories == <<k1, k2>>
MCCategoryOf == 1 :> k1 @@ 2 :> k1

\* Runs that overlap have one category and a budget of one call, and one release at a
\* time is late.
SmallOverlap ==
    /\ \A p, q \in Procs : p # q /\ pc[p] # "off" /\ pc[q] # "off"
                           => plan[p].allowed = 1 /\ Len(plan[p].cats) = 1
    /\ Cardinality(late) <= 1

AnyProc == Permutations(Procs)
=============================================================================
