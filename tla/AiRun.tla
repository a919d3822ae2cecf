------------------------------- MODULE AiRun --------------------------------
(***************************************************************************)
(* The AI stage: articles, the leased table article_ai_results, the ai-run *)
(* command (task generation, then claim / invoke / release) executed by    *)
(* several overlapping processes, and backfill --target ai.                *)
(*                                                                         *)
(* A row is identified by its idempotency key, an article and a version    *)
(* (the triple prompt version, output schema, model).  A lease is "live"   *)
(* until time passes its lease_expires_at, then "expired"; the clock       *)
(* itself is not modelled, so a lease may run out at any moment, early     *)
(* enough to hit a slow task.  A run is a process slot: its owner id is    *)
(* unique among the processes alive, which is all the lease guard needs.   *)
(* One category is modelled; maintenance by another category's run is      *)
(* maintenance by a run that claims nothing.                               *)
(***************************************************************************)
EXTENDS Integers, FiniteSets

CONSTANTS
    Articles,       \* article ids, in insertion order
    Versions,       \* (prompt version, schema, model) triples
    Runs,           \* processes that execute ai-run
    NoRun,          \* lease_owner IS NULL
    MaxAttempts,    \* retry.ai_max_attempts
    BatchSize,      \* --batch-size, for task generation and for claiming
    Scores,         \* importance scores the model may answer with
    MinScore,       \* min_importance_score
    Backfill,       \* whether backfill --target ai is ever used
    ReadCommitted   \* TRUE: PostgreSQL; FALSE: SQLite, one writer at a time

ASSUME AiRunAssumption ==
    /\ Articles \subseteq Nat
    /\ NoRun \notin Runs
    /\ MaxAttempts \in Nat \ {0} /\ BatchSize \in Nat \ {0}
    /\ Scores \subseteq Nat /\ MinScore \in Nat
    /\ Backfill \in BOOLEAN /\ ReadCommitted \in BOOLEAN

VARIABLES
    art,        \* articles.state
    res,        \* the rows of article_ai_results
    tx,         \* tx[k]: the release transaction open on row k (PostgreSQL)
    pc,         \* where each run is
    todo,       \* the rows a run's task generation is about to create
    tasks,      \* the claimed rows a run is still processing
    deferred    \* a retryable failure happened in the run's batch

vars == <<art, res, tx, pc, todo, tasks, deferred>>
db   == <<art, res, tx>>
proc == <<pc, todo, tasks, deferred>>

-----------------------------------------------------------------------------
Rows    == Articles \X Versions
NoScore == -1                       \* importance_score IS NULL

ArticleStates == {"absent", "persisted", "ai_pending", "ai_done",
                  "ready_for_publish", "publish_skipped", "published"}
AiPhase       == {"ai_pending", "ai_done"}
RowStates     == {"absent", "pending", "running",
                  "succeeded", "filtered", "permanent_failed"}
Terminal      == {"succeeded", "filtered", "permanent_failed"}
Advances      == {"no_change", "ai_done", "ready_for_publish", "publish_skipped"}

Row == [state : RowStates, owner : Runs \cup {NoRun},
        lease : {"none", "live", "expired"},
        attempts : Nat, score : Scores \cup {NoScore}]

AbsentRow  == [state |-> "absent", owner |-> NoRun, lease |-> "none",
               attempts |-> 0, score |-> NoScore]
\* A row whose lease is given up (lease_owner and lease_expires_at are NULL
\* again) and that moves to state st; the attempts are kept.
Unleased(row, st) ==
    [state |-> st, owner |-> NoRun, lease |-> "none",
     attempts |-> row.attempts, score |-> row.score]

PendingRow == Unleased(AbsentRow, "pending")

Tx     == [open : BOOLEAN, score : Scores \cup {NoScore}, advance : Advances]
Closed == [open |-> FALSE, score |-> NoScore, advance |-> "no_change"]

Init ==
    /\ art = [a \in Articles |-> "absent"]
    /\ res = [k \in Rows |-> AbsentRow]
    /\ tx  = [k \in Rows |-> Closed]
    /\ pc  = [r \in Runs |-> "idle"]
    /\ todo  = [r \in Runs |-> {}]
    /\ tasks = [r \in Runs |-> {}]
    /\ deferred = [r \in Runs |-> FALSE]

-----------------------------------------------------------------------------
(* The neighbouring stages, and backfill.                                  *)

\* Extract inserts an article; ids grow.
PersistArticle(a) ==
    /\ art[a] = "absent"
    /\ \A b \in Articles : b < a => art[b] # "absent"
    /\ art' = [art EXCEPT ![a] = "persisted"]
    /\ UNCHANGED <<res, tx, proc>>

\* Publish promotes an article it has frozen and delivered.
PublishArticle(a) ==
    /\ art[a] = "ready_for_publish"
    /\ art' = [art EXCEPT ![a] = "published"]
    /\ UNCHANGED <<res, tx, proc>>

\* Backfill inserts a parallel pending row for any article of its window and
\* leaves the article alone; an existing key is skipped.
BackfillInsert(a, v) ==
    /\ Backfill
    /\ art[a] # "absent"
    /\ res[<<a, v>>].state = "absent"
    /\ res' = [res EXCEPT ![<<a, v>>] = PendingRow]
    /\ UNCHANGED <<art, tx, proc>>

-----------------------------------------------------------------------------
(* ai-run, phase 1: task generation.                                       *)

\* The first BatchSize persisted articles by id.
TaskGenPage ==
    {a \in Articles : /\ art[a] = "persisted"
                      /\ Cardinality({b \in Articles : b < a /\ art[b] = "persisted"})
                            < BatchSize}

\* A run starts, with the version its configuration names, and reads one page.
TaskGenList(r) ==
    /\ pc[r] = "idle"
    /\ pc' = [pc EXCEPT ![r] = "gen"]
    /\ \E v \in Versions : todo' = [todo EXCEPT ![r] = TaskGenPage \X {v}]
    /\ UNCHANGED <<db, tasks, deferred>>

\* The query fails: the run goes on to process what is already pending.
TaskGenListFails(r) ==
    /\ pc[r] = "idle"
    /\ pc' = [pc EXCEPT ![r] = "reclaim"]
    /\ UNCHANGED <<db, todo, tasks, deferred>>

\* Fault of InsertAndAdvance: the advance forgotten.
InsertWithoutAdvance(k) ==
    /\ res' = IF res[k].state = "absent" THEN [res EXCEPT ![k] = PendingRow] ELSE res
    /\ UNCHANGED art

\* One transaction per candidate: insert the row and advance the article.  An
\* existing key commits nothing, an article advanced meanwhile rolls back.
InsertAndAdvance(k) ==
    IF res[k].state = "absent" /\ art[k[1]] = "persisted"
    THEN /\ res' = [res EXCEPT ![k] = PendingRow]
         /\ art' = [art EXCEPT ![k[1]] = "ai_pending"]
    ELSE UNCHANGED <<res, art>>

\* Candidates are taken in the order of their ids.
IsNext(r, k) == \A j \in todo[r] : k[1] <= j[1]

TaskGenInsert(r, k) ==
    /\ pc[r] = "gen" /\ k \in todo[r] /\ IsNext(r, k)
    /\ todo' = [todo EXCEPT ![r] = @ \ {k}]
    /\ InsertAndAdvance(k)
    /\ UNCHANGED <<tx, pc, tasks, deferred>>

\* A storage error on one candidate is logged and skipped.
TaskGenInsertFails(r, k) ==
    /\ pc[r] = "gen" /\ k \in todo[r] /\ IsNext(r, k)
    /\ todo' = [todo EXCEPT ![r] = @ \ {k}]
    /\ UNCHANGED <<db, pc, tasks, deferred>>

TaskGenDone(r) ==
    /\ pc[r] = "gen" /\ todo[r] = {}
    /\ pc' = [pc EXCEPT ![r] = "reclaim"]
    /\ UNCHANGED <<db, todo, tasks, deferred>>

-----------------------------------------------------------------------------
(* ai-run, phase 2: maintenance, then the claim loop.                      *)

Expired(k) == res[k].state = "running" /\ res[k].lease = "expired"

\* Faults of ReclaimExpired: the owner is left behind, a row lock is ignored.
ReclaimKeepsOwner ==
    res' = [k \in Rows |-> IF Expired(k) THEN [res[k] EXCEPT !.state = "pending", !.lease = "none"]
                                         ELSE res[k]]

ReclaimIgnoresLocks ==
    res' = [k \in Rows |->
              IF Expired(k) THEN Unleased(res[k], "pending") ELSE res[k]]

\* Rows whose lease ran out go back to pending; attempts are kept.  On
\* PostgreSQL the statement waits for a release that holds one of the rows.
ReclaimExpired ==
    /\ \A k \in Rows : Expired(k) => ~tx[k].open
    /\ res' = [k \in Rows |->
                 IF Expired(k) THEN Unleased(res[k], "pending") ELSE res[k]]

ReclaimLeases(r) ==
    /\ pc[r] = "reclaim"
    /\ ReclaimExpired
    /\ pc' = [pc EXCEPT ![r] = "sweep"]
    /\ UNCHANGED <<art, tx, todo, tasks, deferred>>

\* Fault of Exhausted: off by one.
ExhaustedTooLate(k) == /\ res[k].state = "pending"
                       /\ res[k].attempts > MaxAttempts
                       /\ res[k].lease # "live"

Exhausted(k) == /\ res[k].state = "pending"
                /\ res[k].attempts >= MaxAttempts
                /\ res[k].lease # "live"

\* Pending rows nobody will ever claim again become permanent failures.
SweepExhausted ==
    res' = [k \in Rows |->
              IF Exhausted(k) THEN Unleased(res[k], "permanent_failed") ELSE res[k]]

SweepLeases(r) ==
    /\ pc[r] = "sweep"
    /\ SweepExhausted
    /\ pc' = [pc EXCEPT ![r] = "claim"]
    /\ UNCHANGED <<art, tx, todo, tasks, deferred>>

\* Both steps are best effort: a storage error is a warning, the run goes on.
MaintenanceFails(r) ==
    /\ pc[r] \in {"reclaim", "sweep"}
    /\ pc' = [pc EXCEPT ![r] = IF @ = "reclaim" THEN "sweep" ELSE "claim"]
    /\ UNCHANGED <<db, todo, tasks, deferred>>

Claimable(k) == /\ res[k].state = "pending"
                /\ res[k].lease # "live"
                /\ res[k].attempts < MaxAttempts

Claimed(row, r) == [state |-> "running", owner |-> r, lease |-> "live",
                    attempts |-> row.attempts + 1, score |-> row.score]

\* One statement takes a batch of claimable rows for the run.
ClaimRows(r, S) ==
    res' = [k \in Rows |->
              IF k \in S THEN Claimed(res[k], r) ELSE res[k]]

ClaimPending(r, S) ==
    /\ pc[r] = "claim"
    /\ S # {} /\ Cardinality(S) <= BatchSize
    /\ \A k \in S : Claimable(k)
    /\ ClaimRows(r, S)
    /\ tasks' = [tasks EXCEPT ![r] = S]
    /\ pc' = [pc EXCEPT ![r] = "work"]
    /\ UNCHANGED <<art, tx, todo, deferred>>

\* The loop ends: nothing to claim, the batch cap is reached, or the claim failed.
EndRun(r) ==
    /\ pc[r] = "claim"
    /\ pc' = [pc EXCEPT ![r] = "idle"]
    /\ UNCHANGED <<db, todo, tasks, deferred>>

\* All tasks of the batch are joined; a retryable failure defers the rest.
EndBatch(r) ==
    /\ pc[r] = "work" /\ tasks[r] = {}
    /\ pc' = [pc EXCEPT ![r] = IF deferred[r] THEN "idle" ELSE "claim"]
    /\ deferred' = [deferred EXCEPT ![r] = FALSE]
    /\ UNCHANGED <<db, todo, tasks>>

-----------------------------------------------------------------------------
(* The tasks of a batch.  The model is asked outside any transaction; what *)
(* comes back is written under the guard lease_owner = owner.              *)

Owns(r, k)      == res[k].owner = r
Releasing(r, k) == tx[k].open /\ Owns(r, k)    \* r's transaction is open on k
InFlight(r, k)  == pc[r] = "work" /\ k \in tasks[r] /\ ~Releasing(r, k)

TaskEnds(r, k) == tasks' = [tasks EXCEPT ![r] = @ \ {k}]

\* What a result does to its article, from what the transaction sees:
\* a kept one publishes or parks it, a filtered one skips it unless another
\* row has succeeded.
ComputeAdvance(k, s) ==
    IF art[k[1]] \notin AiPhase THEN "no_change"
    ELSE IF s # NoScore
         THEN IF s >= MinScore THEN "ready_for_publish" ELSE "ai_done"
         ELSE IF \E j \in Rows : j[1] = k[1] /\ j # k /\ res[j].state = "succeeded"
              THEN "no_change"
              ELSE "publish_skipped"

\* The row of a result: filtered results carry no score.
Completed(row, s) ==
    [state |-> IF s = NoScore THEN "filtered" ELSE "succeeded",
     owner |-> NoRun, lease |-> "none", attempts |-> row.attempts, score |-> s]

\* Fault of CompleteRow: keep_decision = 0 is not told apart.
CompleteRowKept(k, s) ==
    res' = [res EXCEPT ![k] = [Completed(@, s) EXCEPT !.state = "succeeded"]]

\* The result is stored and the lease given up.
CompleteRow(k, s) ==
    res' = [res EXCEPT ![k] = Completed(@, s)]

\* Fault of AdvanceArticle: no WHERE on the state.
AdvanceArticleUnguarded(a, adv) ==
    art' = IF adv # "no_change" THEN [art EXCEPT ![a] = adv] ELSE art

\* UPDATE articles ... WHERE state IN ('ai_pending', 'ai_done').
AdvanceArticle(a, adv) ==
    art' = IF adv # "no_change" /\ art[a] \in AiPhase
           THEN [art EXCEPT ![a] = adv] ELSE art

\* SQLite: the transaction is one step.  A lost lease changes nothing.
ReleaseSuccess(r, k, s) ==
    /\ ~ReadCommitted
    /\ InFlight(r, k)
    /\ IF Owns(r, k)
       THEN CompleteRow(k, s) /\ AdvanceArticle(k[1], ComputeAdvance(k, s))
       ELSE UNCHANGED <<res, art>>
    /\ TaskEnds(r, k)
    /\ UNCHANGED <<tx, pc, todo, deferred>>

\* PostgreSQL, first half: the row is updated (and so locked), the article's
\* state and the other rows are read; others may commit before the second half.
BeginRelease(r, k, s) ==
    /\ ReadCommitted
    /\ InFlight(r, k)
    /\ IF Owns(r, k)
       THEN /\ tx' = [tx EXCEPT ![k] = [open |-> TRUE, score |-> s,
                                        advance |-> ComputeAdvance(k, s)]]
            /\ UNCHANGED tasks
       ELSE TaskEnds(r, k) /\ UNCHANGED tx
    /\ UNCHANGED <<art, res, pc, todo, deferred>>

\* PostgreSQL, second half: the article is updated and everything commits.
CommitRelease(r, k) ==
    /\ pc[r] = "work" /\ k \in tasks[r] /\ Releasing(r, k)
    /\ CompleteRow(k, tx[k].score)
    /\ AdvanceArticle(k[1], tx[k].advance)
    /\ tx' = [tx EXCEPT ![k] = Closed]
    /\ TaskEnds(r, k)
    /\ UNCHANGED <<pc, todo, deferred>>

\* A retryable error: back to pending, or permanent failure when the budget is
\* used up.  The batch counts it as retryable unless it was folded.
ReleaseRetryable(r, k) ==
    LET spent == Owns(r, k) /\ res[k].attempts >= MaxAttempts IN
    /\ InFlight(r, k)
    /\ res' = IF Owns(r, k)
              THEN [res EXCEPT ![k] = Unleased(@, IF spent THEN "permanent_failed"
                                                           ELSE "pending")]
              ELSE res
    /\ deferred' = [deferred EXCEPT ![r] = @ \/ ~spent]
    /\ TaskEnds(r, k)
    /\ UNCHANGED <<art, tx, pc, todo>>

\* A permanent error (also: the article cannot be read).  The article stays.
ReleasePermanent(r, k) ==
    /\ InFlight(r, k)
    /\ res' = IF Owns(r, k)
              THEN [res EXCEPT ![k] = Unleased(@, "permanent_failed")] ELSE res
    /\ TaskEnds(r, k)
    /\ UNCHANGED <<art, tx, pc, todo, deferred>>

\* A task panics, or its release fails in the database: the transaction is
\* rolled back and the row keeps its lease.  A failed retryable release still
\* counts as retryable.
TaskLost(r, k) ==
    /\ pc[r] = "work" /\ k \in tasks[r]
    /\ TaskEnds(r, k)
    /\ tx' = IF Releasing(r, k) THEN [tx EXCEPT ![k] = Closed] ELSE tx
    /\ \E d \in {deferred[r], TRUE} : deferred' = [deferred EXCEPT ![r] = d]
    /\ UNCHANGED <<art, res, pc, todo>>

\* The process dies; its open transactions are rolled back, its leases stay.
Crash(r) ==
    /\ pc[r] # "idle"
    /\ pc' = [pc EXCEPT ![r] = "idle"]
    /\ todo' = [todo EXCEPT ![r] = {}]
    /\ tasks' = [tasks EXCEPT ![r] = {}]
    /\ deferred' = [deferred EXCEPT ![r] = FALSE]
    /\ tx' = [k \in Rows |-> IF Releasing(r, k) THEN Closed ELSE tx[k]]
    /\ UNCHANGED <<art, res>>

\* Time passes the lease_expires_at of a row.
LeaseExpires(k) ==
    /\ res[k].lease = "live"
    /\ res' = [res EXCEPT ![k] = [@ EXCEPT !.lease = "expired"]]
    /\ UNCHANGED <<art, tx, proc>>

-----------------------------------------------------------------------------
Release(r, k) ==
    \/ \E s \in Scores \cup {NoScore} : ReleaseSuccess(r, k, s) \/ BeginRelease(r, k, s)
    \/ CommitRelease(r, k)
    \/ ReleaseRetryable(r, k)
    \/ ReleasePermanent(r, k)

RunStep(r) ==
    \/ TaskGenList(r) \/ TaskGenListFails(r)
    \/ \E k \in Rows : TaskGenInsert(r, k) \/ TaskGenInsertFails(r, k)
    \/ TaskGenDone(r)
    \/ ReclaimLeases(r)
    \/ SweepLeases(r)
    \/ MaintenanceFails(r)
    \/ \E S \in SUBSET Rows : ClaimPending(r, S)
    \/ EndRun(r)
    \/ EndBatch(r)
    \/ \E k \in Rows : Release(r, k) \/ TaskLost(r, k)
    \/ Crash(r)

Next ==
    \/ \E a \in Articles : PersistArticle(a) \/ PublishArticle(a)
    \/ \E a \in Articles, v \in Versions : BackfillInsert(a, v)
    \/ \E r \in Runs : RunStep(r)
    \/ \E k \in Rows : LeaseExpires(k)

Spec == Init /\ [][Next]_vars

-----------------------------------------------------------------------------
(* Fairness: the scheduler keeps starting runs, a run does not hang, time  *)
(* passes; and a step a run attempts over and over does not fail in the    *)
(* database, or meet a crash, every single time.  Nothing is assumed of    *)
(* the model's answers: every release may be a retryable failure or lost.  *)

Fairness ==
    /\ SF_vars(\E r \in Runs : TaskGenList(r))
    /\ \A k \in Rows : SF_vars(\E r \in Runs : TaskGenInsert(r, k))
    /\ SF_vars(\E r \in Runs : TaskGenDone(r))
    /\ SF_vars(\E r \in Runs : ReclaimLeases(r))
    /\ SF_vars(\E r \in Runs : SweepLeases(r))
    /\ SF_vars(\E r \in Runs, S \in SUBSET Rows : ClaimPending(r, S))
    /\ \A r \in Runs :
         /\ WF_vars(EndRun(r))
         /\ WF_vars(EndBatch(r))
         /\ WF_vars(\E k \in Rows : Release(r, k) \/ TaskLost(r, k))
    /\ \A k \in Rows : WF_vars(LeaseExpires(k))

FairSpec == Spec /\ Fairness

-----------------------------------------------------------------------------
(* Invariants.                                                             *)

TypeOK ==
    /\ art \in [Articles -> ArticleStates]
    /\ res \in [Rows -> Row]
    /\ tx  \in [Rows -> Tx]
    /\ pc  \in [Runs -> {"idle", "gen", "reclaim", "sweep", "claim", "work"}]
    /\ todo  \in [Runs -> SUBSET Rows]
    /\ tasks \in [Runs -> SUBSET Rows]
    /\ deferred \in [Runs -> BOOLEAN]

\* However runs overlap, crash or lose their lease, a row has an owner and a
\* lease exactly while it is running, has a score exactly when it succeeded,
\* and was never claimed more often than its budget allows.
LeaseCoherent ==
    \A k \in Rows :
        /\ (res[k].owner # NoRun) <=> (res[k].state = "running")
        /\ (res[k].lease # "none") <=> (res[k].state = "running")
        /\ (res[k].score # NoScore) <=> (res[k].state = "succeeded")
        /\ res[k].attempts <= MaxAttempts

\* What a score does to an article that is still in the AI phase.
Verdict(s) == IF s = NoScore THEN "publish_skipped"
              ELSE IF s >= MinScore THEN "ready_for_publish" ELSE "ai_done"

\* PostgreSQL: while a release transaction is open, its row is still running
\* and still owned by the run whose task it is, so no reclaim slips in between
\* the guarded update and the commit; and what it is about to do to the article
\* is what its own score says, or nothing.
OpenReleaseHoldsItsRow ==
    \A k \in Rows : tx[k].open =>
        /\ ReadCommitted
        /\ res[k].state = "running"
        /\ pc[res[k].owner] = "work" /\ k \in tasks[res[k].owner]
        /\ tx[k].advance \in {"no_change", Verdict(tx[k].score)}

RowsOf(a) == {k \in Rows : k[1] = a /\ res[k].state # "absent"}

\* Cross-table invariants 2 to 4 of the state machines (the deep scan of
\* doctor looks for the same), for skipped articles too: the article's state is
\* always backed by a row that justifies it, whatever the interleaving of
\* releases, backfills and publication.
ArticleStateJustified ==
    \A a \in Articles :
        /\ art[a] = "absent" => RowsOf(a) = {}
        /\ art[a] = "ai_pending" => RowsOf(a) # {}
        /\ art[a] = "ai_done" => \E k \in RowsOf(a) : res[k].state = "succeeded"
        /\ art[a] \in {"ready_for_publish", "published"} =>
               \E k \in RowsOf(a) : res[k].state = "succeeded" /\ res[k].score >= MinScore
        /\ art[a] = "publish_skipped" => \E k \in RowsOf(a) : res[k].state = "filtered"

\* The state an article has when k is its only row.
DerivedFrom(k) ==
    CASE res[k].state \in {"succeeded", "filtered"} -> Verdict(res[k].score)
      [] OTHER -> "ai_pending"

\* Without backfill an article never gets a second row, even when overlapping
\* runs use different versions, and its state is exactly what its row says:
\* no release is lost and none is applied twice.
ArticleIsDerived ==
    ~Backfill =>
        \A a \in Articles :
            IF art[a] \in {"absent", "persisted"} THEN RowsOf(a) = {}
            ELSE \E k \in RowsOf(a) :
                    /\ RowsOf(a) = {k}
                    /\ IF art[a] = "published" THEN DerivedFrom(k) = "ready_for_publish"
                                               ELSE art[a] = DerivedFrom(k)

-----------------------------------------------------------------------------
(* Action properties.                                                      *)

\* A row that has reached a terminal state is never written again: not by a
\* run that lost its lease while it waited for the model, not by maintenance.
ResultIsFinal ==
    [][\A k \in Rows : res[k].state \in Terminal => res'[k] = res[k]]_vars

\* No release produces a pending row without budget, which nobody would claim:
\* such rows come only from reclaiming the lease of a run that died or stalled
\* in its last attempt.
ExhaustedOnlyByReclaim ==
    [][\A k \in Rows :
          /\ res'[k].state = "pending" /\ res'[k].attempts >= MaxAttempts
          /\ res[k].state # "pending"
          => res[k].lease = "expired"
             /\ \E r \in Runs : pc[r] = "reclaim" /\ pc'[r] = "sweep"]_vars

\* The transitions of the article state machine.  In particular an article that
\* is ready, published or skipped is never taken back by a late AI result.
ArticleSteps ==
    {<<"absent", "persisted">>, <<"persisted", "ai_pending">>,
     <<"ready_for_publish", "published">>}
        \cup {<<p, q>> : p \in AiPhase,
                         q \in {"ai_done", "ready_for_publish", "publish_skipped"}}

ArticleMovesForward ==
    [][\A a \in Articles : art'[a] # art[a] => <<art[a], art'[a]>> \in ArticleSteps]_vars

\* An article that has a succeeded result, and is therefore ai_done, is never
\* skipped because another version of the prompt filters it.
KeptArticleNeverSkipped ==
    [][\A a \in Articles : art[a] = "ai_done" => art'[a] # "publish_skipped"]_vars

-----------------------------------------------------------------------------
(* Liveness.                                                               *)

\* Every AI task is settled in the end, even if every attempt fails or its run
\* dies: the budget runs out and the sweep closes the row.
EveryTaskSettles ==
    \A k \in Rows :
        res[k].state \in {"pending", "running"} ~> res[k].state \in Terminal

\* Every persisted article without a row gets an AI task.
EveryArticleGetsATask ==
    \A a \in Articles : (art[a] = "persisted" /\ RowsOf(a) = {}) ~> RowsOf(a) # {}

-----------------------------------------------------------------------------
(* article_ai_results as a leased queue.                                   *)

Phase(row) == CASE row.state = "absent"  -> "absent"
                [] row.state = "pending" -> "queued"
                [] row.state = "running" -> "working"
                [] OTHER                 -> "done"

Queue == INSTANCE LeaseQueue WITH
            phase  <- [k \in Rows |-> Phase(res[k])],
            holder <- [k \in Rows |-> res[k].owner],
            tries  <- [k \in Rows |-> res[k].attempts],
            MayRefund <- FALSE,
            MayReopen <- FALSE

\* The AI stage implements the leased queue: one holder at a time, a bounded
\* number of attempts, settled rows stay settled.
ImplementsLeaseQueue == Queue!Spec
=============================================================================
