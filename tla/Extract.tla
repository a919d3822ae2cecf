------------------------------ MODULE Extract -------------------------------
(***************************************************************************)
(* The extract stage: the leased table feed_entries, the articles found by *)
(* their content hash, the extract flow (run by the ingest command, after  *)
(* the feeds) in several overlapping processes, and backfill.              *)
(*                                                                         *)
(* An article is identified by its content hash, the unique key of the     *)
(* table.  What a page (or the summary of the feed) yields is a choice, a  *)
(* new one on every fetch, for pages change.  Leases and runs are modelled *)
(* as in AiRun: a lease may run out at any moment, a run is a process slot *)
(* whose name stands for its owner id.                                     *)
(***************************************************************************)
EXTENDS Naturals, FiniteSets

CONSTANTS
    Entries,        \* feed entries
    Hashes,         \* content hashes
    Runs,           \* processes that execute the extract flow
    NoRun,          \* lease_owner IS NULL
    NoEntry,        \* no article with this hash
    NoHash,         \* article_id IS NULL
    MaxAttempts,    \* retry.feed_entry_max_attempts
    BatchSize,      \* --batch-size
    Backfill        \* whether backfill --target extract is ever used

ASSUME ExtractAssumption ==
    /\ NoRun \notin Runs /\ NoEntry \notin Entries /\ NoHash \notin Hashes
    /\ MaxAttempts \in Nat \ {0} /\ BatchSize \in Nat \ {0}
    /\ Backfill \in BOOLEAN

VARIABLES
    entry,      \* the rows of feed_entries
    origin,     \* articles.origin_feed_entry_id by content hash
    pc,         \* where each run is
    tasks,      \* the claimed entries a run is still processing
    found,      \* what a task got from the articles table and has not released yet
    deferred    \* a retryable failure happened in the run's batch

vars == <<entry, origin, pc, tasks, found, deferred>>
proc == <<pc, tasks, found, deferred>>

-----------------------------------------------------------------------------
States   == {"absent", "pending_fetch", "fetching", "persisted",
             "fallback_persisted", "dedup_skipped", "failed"}
Stored   == {"persisted", "fallback_persisted"}
Settled  == Stored \cup {"dedup_skipped", "failed"}
Outcomes == Stored \cup {"dedup_skipped"}

Entry == [state : States, owner : Runs \cup {NoRun},
          lease : {"none", "live", "expired"},
          attempts : 0..MaxAttempts, article : Hashes \cup {NoHash}]

\* A row without a lease.
Unleased(st, n, h) == [state |-> st, owner |-> NoRun, lease |-> "none",
                       attempts |-> n, article |-> h]
Absent  == Unleased("absent", 0, NoHash)
Pending == Unleased("pending_fetch", 0, NoHash)

\* A row that keeps its attempts and its article and moves to state st.
Moved(row, st) == Unleased(st, row.attempts, row.article)

\* What a task has learnt of its article: how to settle the entry, and with which.
Nothing == [to |-> "nothing", hash |-> NoHash]
Finding == [to : Outcomes, hash : Hashes] \cup {Nothing}

Init ==
    /\ entry  = [e \in Entries |-> Absent]
    /\ origin = [h \in Hashes |-> NoEntry]
    /\ pc = [r \in Runs |-> "idle"]
    /\ tasks = [r \in Runs |-> {}]
    /\ found = [r \in Runs |-> [e \in Entries |-> Nothing]]
    /\ deferred = [r \in Runs |-> FALSE]

-----------------------------------------------------------------------------
(* Ingest and backfill.                                                    *)

\* Ingest stores a new entry.
InsertEntry(e) ==
    /\ entry[e].state = "absent"
    /\ entry' = [entry EXCEPT ![e] = Pending]
    /\ UNCHANGED <<origin, proc>>

Resettable(e) == entry[e].state = "failed"

\* Backfill gives the failed entries of its window a fresh budget.
ResetFailed(S) ==
    /\ Backfill
    /\ S # {} /\ \A e \in S : Resettable(e)
    /\ entry' = [e \in Entries |-> IF e \in S THEN Pending ELSE entry[e]]
    /\ UNCHANGED <<origin, proc>>

-----------------------------------------------------------------------------
(* A run: maintenance, then the claim loop.                                *)

StartRun(r) ==
    /\ pc[r] = "idle"
    /\ pc' = [pc EXCEPT ![r] = "reclaim"]
    /\ UNCHANGED <<entry, origin, tasks, found, deferred>>

Expired(e) == entry[e].state = "fetching" /\ entry[e].lease = "expired"

Reclaimed(row) == Moved(row, "pending_fetch")

\* Entries whose lease ran out go back to pending_fetch.
ReclaimLeases(r) ==
    /\ pc[r] = "reclaim"
    /\ entry' = [e \in Entries |-> IF Expired(e) THEN Reclaimed(entry[e]) ELSE entry[e]]
    /\ pc' = [pc EXCEPT ![r] = "sweep"]
    /\ UNCHANGED <<origin, tasks, found, deferred>>

\* Fault of Exhausted: off by one.
ExhaustedTooLate(e) == /\ entry[e].state = "pending_fetch" /\ entry[e].lease # "live"
                       /\ entry[e].attempts > MaxAttempts

Exhausted(e) == /\ entry[e].state = "pending_fetch" /\ entry[e].lease # "live"
                /\ entry[e].attempts >= MaxAttempts

\* Entries nobody will ever claim again fail.
SweepLeases(r) ==
    /\ pc[r] = "sweep"
    /\ entry' = [e \in Entries |-> IF Exhausted(e) THEN Moved(entry[e], "failed") ELSE entry[e]]
    /\ pc' = [pc EXCEPT ![r] = "claim"]
    /\ UNCHANGED <<origin, tasks, found, deferred>>

\* Both steps are best effort.
MaintenanceFails(r) ==
    /\ pc[r] \in {"reclaim", "sweep"}
    /\ pc' = [pc EXCEPT ![r] = IF @ = "reclaim" THEN "sweep" ELSE "claim"]
    /\ UNCHANGED <<entry, origin, tasks, found, deferred>>

\* Fault of Claimable: the budget is not looked at.
ClaimableForever(e) == entry[e].state = "pending_fetch" /\ entry[e].lease # "live"

Claimable(e) == /\ entry[e].state = "pending_fetch" /\ entry[e].lease # "live"
                /\ entry[e].attempts < MaxAttempts

Claimed(row, r) == [state |-> "fetching", owner |-> r, lease |-> "live",
                    attempts |-> row.attempts + 1, article |-> row.article]

\* One statement takes a batch of claimable entries for the run.
ClaimPendingFetch(r, S) ==
    /\ pc[r] = "claim"
    /\ S # {} /\ Cardinality(S) <= BatchSize
    /\ \A e \in S : Claimable(e)
    /\ entry' = [e \in Entries |-> IF e \in S THEN Claimed(entry[e], r) ELSE entry[e]]
    /\ tasks' = [tasks EXCEPT ![r] = S]
    /\ pc' = [pc EXCEPT ![r] = "work"]
    /\ UNCHANGED <<origin, found, deferred>>

\* Nothing to claim, the batch cap is reached, or the claim failed.
EndRun(r) ==
    /\ pc[r] = "claim"
    /\ pc' = [pc EXCEPT ![r] = "idle"]
    /\ UNCHANGED <<entry, origin, tasks, found, deferred>>

\* All tasks are joined; a retryable failure defers the rest to the next run.
EndBatch(r) ==
    /\ pc[r] = "work" /\ tasks[r] = {}
    /\ pc' = [pc EXCEPT ![r] = IF deferred[r] THEN "idle" ELSE "claim"]
    /\ deferred' = [deferred EXCEPT ![r] = FALSE]
    /\ UNCHANGED <<entry, origin, tasks, found>>

-----------------------------------------------------------------------------
(* The tasks of a batch.  The page is fetched outside any transaction, the *)
(* article is stored in one transaction and the entry settled in another.  *)

Owns(r, e)     == entry[e].owner = r
Working(r, e)  == pc[r] = "work" /\ e \in tasks[r]
Fetching(r, e) == Working(r, e) /\ found[r][e] = Nothing

TaskEnds(r, e) ==
    /\ tasks' = [tasks EXCEPT ![r] = @ \ {e}]
    /\ found' = [found EXCEPT ![r][e] = Nothing]

\* Fault of InsertOrGet: whoever comes last takes the hash.
InsertAlways(r, e, h, to) ==
    /\ origin' = [origin EXCEPT ![h] = e]
    /\ found' = [found EXCEPT ![r][e] = [to |-> to, hash |-> h]]

\* The article is inserted, or the one with the same hash is found.
InsertOrGet(r, e, h, to) ==
    IF origin[h] = NoEntry
    THEN /\ origin' = [origin EXCEPT ![h] = e]
         /\ found' = [found EXCEPT ![r][e] = [to |-> to, hash |-> h]]
    ELSE /\ found' = [found EXCEPT ![r][e] = [to |-> "dedup_skipped", hash |-> h]]
         /\ UNCHANGED origin

\* The page was extracted (persisted), or its summary has to do.
PersistArticle(r, e, h, to) ==
    /\ Fetching(r, e)
    /\ InsertOrGet(r, e, h, to)
    /\ UNCHANGED <<entry, pc, tasks, deferred>>

\* The entry is settled with the article its task inserted or found.
ReleaseArticle(r, e) ==
    /\ Working(r, e) /\ found[r][e] # Nothing
    /\ entry' = IF Owns(r, e)
                THEN [entry EXCEPT ![e] = Unleased(found[r][e].to, @.attempts, found[r][e].hash)]
                ELSE entry
    /\ TaskEnds(r, e)
    /\ UNCHANGED <<origin, pc, deferred>>

\* A retryable error: back to pending_fetch, or failed when the budget is used
\* up.  The batch counts it as retryable unless it was folded.
ReleaseRetryable(r, e) ==
    LET spent == Owns(r, e) /\ entry[e].attempts >= MaxAttempts IN
    /\ Fetching(r, e)
    /\ entry' = IF Owns(r, e)
                THEN [entry EXCEPT ![e] = Moved(@, IF spent THEN "failed" ELSE "pending_fetch")]
                ELSE entry
    /\ deferred' = [deferred EXCEPT ![r] = @ \/ ~spent]
    /\ TaskEnds(r, e)
    /\ UNCHANGED <<origin, pc>>

\* A permanent error without a summary to fall back to, or the article could
\* not be stored.
ReleasePermanent(r, e) ==
    /\ Fetching(r, e)
    /\ entry' = IF Owns(r, e) THEN [entry EXCEPT ![e] = Moved(@, "failed")] ELSE entry
    /\ TaskEnds(r, e)
    /\ UNCHANGED <<origin, pc, deferred>>

\* A task panics, or its release fails in the database: the entry keeps its
\* lease.  A failed retryable release still counts as retryable.
TaskLost(r, e) ==
    /\ Working(r, e)
    /\ TaskEnds(r, e)
    /\ \E d \in {deferred[r], found[r][e] = Nothing \/ deferred[r]} :
         deferred' = [deferred EXCEPT ![r] = d]
    /\ UNCHANGED <<entry, origin, pc>>

\* The process dies; its leases and the articles it stored stay.
Crash(r) ==
    /\ pc[r] # "idle"
    /\ pc' = [pc EXCEPT ![r] = "idle"]
    /\ tasks' = [tasks EXCEPT ![r] = {}]
    /\ found' = [found EXCEPT ![r] = [e \in Entries |-> Nothing]]
    /\ deferred' = [deferred EXCEPT ![r] = FALSE]
    /\ UNCHANGED <<entry, origin>>

\* Time passes the lease_expires_at of an entry.
LeaseExpires(e) ==
    /\ entry[e].lease = "live"
    /\ entry' = [entry EXCEPT ![e] = [@ EXCEPT !.lease = "expired"]]
    /\ UNCHANGED <<origin, proc>>

-----------------------------------------------------------------------------
TaskStep(r, e) ==
    \/ \E h \in Hashes, to \in Stored : PersistArticle(r, e, h, to)
    \/ ReleaseArticle(r, e)
    \/ ReleaseRetryable(r, e)
    \/ ReleasePermanent(r, e)
    \/ TaskLost(r, e)

Next ==
    \/ \E e \in Entries : InsertEntry(e) \/ LeaseExpires(e)
    \/ \E S \in SUBSET Entries : ResetFailed(S)
    \/ \E r \in Runs :
         \/ StartRun(r) \/ ReclaimLeases(r) \/ SweepLeases(r) \/ MaintenanceFails(r)
         \/ \E S \in SUBSET Entries : ClaimPendingFetch(r, S)
         \/ EndRun(r) \/ EndBatch(r)
         \/ \E e \in Entries : TaskStep(r, e)
         \/ Crash(r)

Spec == Init /\ [][Next]_vars

-----------------------------------------------------------------------------
(* Fairness as in AiRun: runs keep being started, do not hang, and do not  *)
(* meet a storage error or a crash at the same step every single time.     *)

Fairness ==
    /\ \A r \in Runs :
         /\ WF_vars(StartRun(r))
         /\ WF_vars(EndRun(r))
         /\ WF_vars(EndBatch(r))
         /\ WF_vars(\E e \in Entries : TaskStep(r, e))
    /\ SF_vars(\E r \in Runs : ReclaimLeases(r))
    /\ SF_vars(\E r \in Runs : SweepLeases(r))
    /\ SF_vars(\E r \in Runs, S \in SUBSET Entries : ClaimPendingFetch(r, S))
    /\ \A e \in Entries : WF_vars(LeaseExpires(e))

FairSpec == Spec /\ Fairness

-----------------------------------------------------------------------------
(* Invariants.                                                             *)

\* Among the types: no entry is claimed more often than its budget allows.
TypeOK ==
    /\ entry  \in [Entries -> Entry]
    /\ origin \in [Hashes -> Entries \cup {NoEntry}]
    /\ pc \in [Runs -> {"idle", "reclaim", "sweep", "claim", "work"}]
    /\ tasks \in [Runs -> SUBSET Entries]
    /\ found \in [Runs -> [Entries -> Finding]]
    /\ deferred \in [Runs -> BOOLEAN]

\* However runs overlap, crash, lose their lease or are followed by a backfill,
\* an entry has an owner and a lease exactly while it is being fetched, and has
\* an article exactly when it was settled with one.
EntryCoherent ==
    \A e \in Entries :
        /\ (entry[e].owner # NoRun) <=> (entry[e].state = "fetching")
        /\ (entry[e].lease # "none") <=> (entry[e].state = "fetching")
        /\ (entry[e].article # NoHash) <=> (entry[e].state \in Outcomes)

\* Cross-table invariant 1, and more: a stored entry is the origin of the very
\* article it points to, so no two entries ever share one although their pages
\* may have the same content; a skipped entry points to an article that exists.
StoredEntryIsOrigin ==
    \A e \in Entries :
        /\ entry[e].state \in Stored => origin[entry[e].article] = e
        /\ entry[e].state = "dedup_skipped" => origin[entry[e].article] # NoEntry

-----------------------------------------------------------------------------
(* Action properties.                                                      *)

\* A settled entry is never written again, by no late release and no
\* maintenance; only a failed one comes back, through backfill, with a fresh
\* budget and without a lease.
SettledOnce ==
    [][\A e \in Entries : entry[e].state \in Settled /\ entry'[e] # entry[e] =>
          entry[e].state = "failed" /\ entry'[e] = Pending]_vars

\* No release leaves a pending entry without budget; only the reclaim of a lease
\* that ran out in the last attempt does.
ExhaustedOnlyByReclaim ==
    [][\A e \in Entries :
          /\ entry'[e].state = "pending_fetch" /\ entry'[e].attempts >= MaxAttempts
          /\ entry[e].state # "pending_fetch"
          => entry[e].lease = "expired"
             /\ \E r \in Runs : pc[r] = "reclaim" /\ pc'[r] = "sweep"]_vars

-----------------------------------------------------------------------------
(* Liveness.                                                               *)

\* Unless backfill goes on resetting entries for ever, which keeps a run claiming
\* them before it looks after expired leases again, every entry is settled in the
\* end, even if every attempt fails or every run
\* that works on it dies.
EveryEntrySettles ==
    <>[][\A e \in Entries : entry[e].state = "failed" => entry'[e].state = "failed"]_vars
        => \A e \in Entries :
              entry[e].state \in {"pending_fetch", "fetching"} ~> entry[e].state \in Settled

-----------------------------------------------------------------------------
(* feed_entries as a leased queue; backfill may reopen its failed rows.    *)

Phase(row) == CASE row.state = "absent"        -> "absent"
                [] row.state = "pending_fetch" -> "queued"
                [] row.state = "fetching"      -> "working"
                [] OTHER                       -> "done"

Queue == INSTANCE LeaseQueue WITH
            Rows   <- Entries,
            phase  <- [e \in Entries |-> Phase(entry[e])],
            holder <- [e \in Entries |-> entry[e].owner],
            tries  <- [e \in Entries |-> entry[e].attempts],
            MayRefund <- FALSE,
            MayReopen <- Backfill

\* The extract stage implements the leased queue.
ImplementsLeaseQueue == Queue!Spec
=============================================================================
