----------------------------- MODULE MCReindex ------------------------------
(* A small instance of Reindex: the first two rows get different hashes      *)
(* today, the third the first one's; older algorithms mixed them up.         *)
EXTENDS Reindex, TLC

CONSTANTS h1, h2, h3

MCFresh == [i \in 1..MaxId |-> IF i = 2 THEN h2 ELSE h1]

\* Bound: a history fills one of the three tables; jobs of the other targets find
\* nothing to do but still compete for the active version.
OneTable ==
    Cardinality({t \in {<<"link", \E i \in Ids : link[i].hash # NoHash>>,
                        <<"content", \E i \in Ids : content[i] # NoHash>>,
                        <<"source", \E s \in Sources : source[s] # "absent">>} : t[2]}) <= 1

\* Processes are alike.
AnyRun == Permutations(Runs)
=============================================================================
