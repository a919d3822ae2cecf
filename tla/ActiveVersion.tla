--------------------------- MODULE ActiveVersion ----------------------------
(***************************************************************************)
(* What the table rule_versions promises its readers for one kind: at any  *)
(* moment there is one active version, or none until the first; a switch   *)
(* replaces it in one step; and a version that was replaced stays so,      *)
(* except where the kind allows the return to an old one.  No jobs, no     *)
(* leases, no transactions.                                                *)
(***************************************************************************)
CONSTANTS
    Versions,       \* the versions of the kind
    NoVersion,      \* no version has been active yet
    MayReturn       \* kind = 'config': a rolled back configuration is active again

VARIABLES
    active,         \* the version readers get
    retired         \* the versions that were active and are superseded

vars == <<active, retired>>

Init == active = NoVersion /\ retired = {}

\* Version v takes the place of the active one.
Switch(v) ==
    /\ v # active
    /\ v \in retired => MayReturn
    /\ active' = v
    /\ retired' = (retired \cup {active}) \ {v, NoVersion}

Next == \E v \in Versions : Switch(v)

Spec == Init /\ [][Next]_vars

-----------------------------------------------------------------------------
\* Readers that once got a version always get one, and it is never one that
\* has been superseded.
ActiveIsCurrent ==
    /\ active \in Versions \cup {NoVersion}
    /\ retired \subseteq Versions
    /\ active \notin retired
    /\ active = NoVersion => retired = {}

\* Where nothing returns, a superseded version is superseded for good.
RetiredForGood == [][~MayReturn => retired \subseteq retired']_vars
=============================================================================
