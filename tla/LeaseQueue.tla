----------------------------- MODULE LeaseQueue -----------------------------
(***************************************************************************)
(* What every leased table of the system promises (docs/adr/0002): a row   *)
(* is worked on by at most one run at a time, is handed out at most        *)
(* MaxAttempts times, and once a run has settled it nobody touches it      *)
(* again, unless an operator reopens it with a fresh budget.  Nothing is   *)
(* said here about leases, clocks, transactions or what a row is for;      *)
(* AiRun, Extract and Decision implement this module.                      *)
(***************************************************************************)
EXTENDS Naturals

CONSTANTS
    Rows,         \* the rows of the table
    Runs,         \* the runs (lease owners)
    NoRun,        \* "lease_owner IS NULL"
    MaxAttempts,  \* the retry budget
    MayRefund,    \* whether a row may come back with its attempt
    MayReopen     \* whether an operator's command reopens settled rows

\* What the theorems about this module assume of the constants.
LeaseQueueAssumption ==
    /\ NoRun \notin Runs /\ MaxAttempts \in Nat
    /\ MayRefund \in BOOLEAN /\ MayReopen \in BOOLEAN

VARIABLES
    phase,    \* phase[k]  : where row k stands
    holder,   \* holder[k] : the run that may settle row k, or NoRun
    tries     \* tries[k]  : how often row k has been handed out

vars == <<phase, holder, tries>>

Phases == {"absent", "queued", "working", "done"}

Init ==
    /\ phase  = [k \in Rows |-> "absent"]
    /\ holder = [k \in Rows |-> NoRun]
    /\ tries  = [k \in Rows |-> 0]

\* Rows are created, ready to be handed out.
Enqueue(S) ==
    /\ \A k \in S : phase[k] = "absent"
    /\ phase' = [k \in Rows |-> IF k \in S THEN "queued" ELSE phase[k]]
    /\ UNCHANGED <<holder, tries>>

\* A run takes a batch of queued rows that still have budget.
Take(r, S) ==
    /\ \A k \in S : phase[k] = "queued" /\ tries[k] < MaxAttempts
    /\ phase'  = [k \in Rows |-> IF k \in S THEN "working" ELSE phase[k]]
    /\ holder' = [k \in Rows |-> IF k \in S THEN r ELSE holder[k]]
    /\ tries'  = [k \in Rows |-> IF k \in S THEN tries[k] + 1 ELSE tries[k]]

\* The holder settles its row for good.
Settle(r, k) ==
    /\ phase[k] = "working" /\ holder[k] = r
    /\ phase'  = [phase EXCEPT ![k] = "done"]
    /\ holder' = [holder EXCEPT ![k] = NoRun]
    /\ UNCHANGED tries

\* The holder gives its row back; only a row with budget left may come back.
GiveBack(r, k) ==
    /\ phase[k] = "working" /\ holder[k] = r /\ tries[k] < MaxAttempts
    /\ phase'  = [phase EXCEPT ![k] = "queued"]
    /\ holder' = [holder EXCEPT ![k] = NoRun]
    /\ UNCHANGED tries

\* Where an attempt may be undone, the holder gives its row back as it was.
Refund(r, k) ==
    /\ MayRefund
    /\ phase[k] = "working" /\ holder[k] = r
    /\ phase'  = [phase EXCEPT ![k] = "queued"]
    /\ holder' = [holder EXCEPT ![k] = NoRun]
    /\ tries'  = [tries EXCEPT ![k] = @ - 1]

\* Rows whose holder is gone (or too slow) are taken away from it.
Evict(S) ==
    /\ \A k \in S : phase[k] = "working"
    /\ phase'  = [k \in Rows |-> IF k \in S THEN "queued" ELSE phase[k]]
    /\ holder' = [k \in Rows |-> IF k \in S THEN NoRun ELSE holder[k]]
    /\ UNCHANGED tries

\* Queued rows without budget are settled without a holder.
Discard(S) ==
    /\ \A k \in S : phase[k] = "queued" /\ tries[k] >= MaxAttempts
    /\ phase' = [k \in Rows |-> IF k \in S THEN "done" ELSE phase[k]]
    /\ UNCHANGED <<holder, tries>>

\* Settled rows are queued again with a fresh budget.
Reopen(S) ==
    /\ MayReopen
    /\ \A k \in S : phase[k] = "done"
    /\ phase' = [k \in Rows |-> IF k \in S THEN "queued" ELSE phase[k]]
    /\ tries' = [k \in Rows |-> IF k \in S THEN 0 ELSE tries[k]]
    /\ UNCHANGED holder

Next ==
    \/ \E r \in Runs, S \in SUBSET Rows : Take(r, S)
    \/ \E r \in Runs, k \in Rows : Settle(r, k) \/ GiveBack(r, k) \/ Refund(r, k)
    \/ \E S \in SUBSET Rows : Enqueue(S) \/ Evict(S) \/ Discard(S) \/ Reopen(S)

Spec == Init /\ [][Next]_vars

-----------------------------------------------------------------------------
\* The budget bounds how often a row is handed out.
TypeOK ==
    /\ phase  \in [Rows -> Phases]
    /\ holder \in [Rows -> Runs \cup {NoRun}]
    /\ tries  \in [Rows -> 0..MaxAttempts]

\* A row has a holder exactly while it is being worked on, and a row that is
\* being worked on has been handed out at least once.
HeldExactlyWhileWorking ==
    \A k \in Rows :
        /\ (holder[k] # NoRun) <=> (phase[k] = "working")
        /\ phase[k] = "working" => tries[k] > 0

\* A settled row is never handed out again or given a new holder; where rows
\* are reopened, that is the one thing that happens to it.
DoneIsFinal ==
    [][\A k \in Rows : phase[k] = "done" =>
          /\ holder'[k] = NoRun
          /\ \/ phase'[k] = "done" /\ tries'[k] = tries[k]
             \/ MayReopen /\ phase'[k] = "queued" /\ tries'[k] = 0]_vars
=============================================================================
