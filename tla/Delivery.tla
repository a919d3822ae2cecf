------------------------------ MODULE Delivery ------------------------------
(***************************************************************************)
(* What the publish stage promises (docs/adr/0003, docs/plan/08, 6 and 7): *)
(* a report is frozen once, from then on its contents do not change, and   *)
(* it goes out as a whole or not at all; an article goes out with one      *)
(* report and never again.  Leases, stages, retries and targets are not    *)
(* visible here; Publish is shown to implement this module.                *)
(***************************************************************************)
CONSTANTS
    Reports,
    Articles

VARIABLES
    report,     \* report[k]   : where report k stands
    contents,   \* contents[k] : the articles frozen into it
    out         \* the articles that have gone out

vars == <<report, contents, out>>

Init ==
    /\ report = [k \in Reports |-> "none"]
    /\ contents = [k \in Reports |-> {}]
    /\ out = {}

Open(k) ==
    /\ report[k] = "none"
    /\ report' = [report EXCEPT ![k] = "open"]
    /\ UNCHANGED <<contents, out>>

\* Nothing keeps an article out of two reports that are frozen side by side.
Freeze(k, S) ==
    /\ report[k] = "open" /\ S # {}
    /\ report' = [report EXCEPT ![k] = "frozen"]
    /\ contents' = [contents EXCEPT ![k] = S]
    /\ UNCHANGED out

\* A report goes out with all its articles, none of which has gone out before.
Deliver(k) ==
    /\ report[k] = "frozen" /\ contents[k] \cap out = {}
    /\ report' = [report EXCEPT ![k] = "delivered"]
    /\ out' = out \cup contents[k]
    /\ UNCHANGED contents

\* Reports are given up; what they contained may go out with others.
Lose(S) ==
    /\ \A k \in S : report[k] \in {"open", "frozen"}
    /\ report' = [k \in Reports |-> IF k \in S THEN "lost" ELSE report[k]]
    /\ UNCHANGED <<contents, out>>

Next ==
    \/ \E k \in Reports : Open(k) \/ Deliver(k)
    \/ \E k \in Reports, S \in SUBSET Articles : Freeze(k, S)
    \/ \E S \in SUBSET Reports : Lose(S)

Spec == Init /\ [][Next]_vars
=============================================================================
