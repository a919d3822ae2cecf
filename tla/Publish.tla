------------------------------- MODULE Publish ------------------------------
(***************************************************************************)
(* The publish stage: the commands publish and publish-all take the report *)
(* of a category and edition through freeze, render, store_local and       *)
(* remote.  Processes overlap, crash, stall beyond their leases and lose   *)
(* database statements; the AI stage works on the same articles; the       *)
(* targets are outside the database and cannot be rolled back.             *)
(***************************************************************************)
EXTENDS Naturals, FiniteSets

CONSTANTS
    Categories,
    Stories,      \* numbers the articles of a category
    Editions,     \* a report date and a render version (--force makes a new one)
    Runs,         \* process slots; every stage makes a fresh lease owner
    NoRun,        \* "lease_owner IS NULL"
    MaxAttempts,  \* retry.publish_max_attempts, shared by the four stages
    AiOff,        \* what "[ai] enabled = false" is among the processes
    Backfill      \* whether backfill --target ai is ever used

ASSUME PublishAssumption ==
    /\ NoRun \notin Runs
    /\ MaxAttempts \in Nat
    /\ AiOff \subseteq BOOLEAN
    /\ Backfill \in BOOLEAN

Articles == Categories \X Stories
Records == Categories \X Editions

VARIABLES
    art,      \* art[a]    : articles.state
    ai,       \* ai[a]     : what article_ai_results has of a
    rec,      \* rec[k]    : the row of publish_records with that idempotency key
    items,    \* items[k]  : the articles of its publish_items
    stored,   \* the records whose report was written to the local target
    pushed,   \* the records whose report reached the remote target
    pc,       \* pc[r]     : where a process is in its current stage
    stage,    \* stage[r]  : the state its current stage claims from
    remote,   \* remote[r] : whether the process publishes remotely
    todo,     \* todo[r]   : the records the command has not initialised yet
    batch,    \* batch[r]  : the records it has collected for the remote stage
    at,       \* at[r]     : the records its current stage is about
    held,     \* held[r]   : those it has claimed and not released
    cand,     \* cand[r]   : the candidates freeze has loaded
    promote   \* promote[r]: those among them it has to promote itself

db == <<art, ai, rec, items>>
targets == <<stored, pushed>>
proc == <<pc, stage, remote, todo, batch, at, held, cand, promote>>
vars == <<db, targets, proc>>

-----------------------------------------------------------------------------
(* Rows.                                                                   *)

StageStates == {"pending", "snapshot_frozen", "rendered", "stored_local"}
Published == {"published_local", "published_remote"}
Terminal == Published \cup {"failed"}

Row == [state    : {"absent"} \cup StageStates \cup Terminal,
        owner    : Runs \cup {NoRun},
        lease    : {"none", "live", "expired"},
        attempts : 0..MaxAttempts,
        remote   : BOOLEAN]

Unleased(st, n, target) ==
    [state |-> st, owner |-> NoRun, lease |-> "none", attempts |-> n, remote |-> target]

Absent == Unleased("absent", 0, FALSE)

\* A row that is released into state st.
Moved(k, st) == Unleased(st, rec[k].attempts, rec[k].remote)

Init ==
    /\ art = [a \in Articles |-> "persisted"]
    /\ ai = [a \in Articles |-> "none"]
    /\ rec = [k \in Records |-> Absent]
    /\ items = [k \in Records |-> {}]
    /\ stored = {} /\ pushed = {}
    /\ pc = [r \in Runs |-> "idle"]
    /\ stage = [r \in Runs |-> "pending"]
    /\ remote = [r \in Runs |-> FALSE]
    /\ todo = [r \in Runs |-> {}]
    /\ batch = [r \in Runs |-> {}]
    /\ at = [r \in Runs |-> {}]
    /\ held = [r \in Runs |-> {}]
    /\ cand = [r \in Runs |-> {}]
    /\ promote = [r \in Runs |-> {}]

-----------------------------------------------------------------------------
(* The AI stage and backfill, reduced to what freeze sees of them.         *)

\* Task generation creates a row and takes the article out of persisted.
CreateAiTask(a) ==
    /\ FALSE \in AiOff /\ art[a] = "persisted"
    /\ art' = [art EXCEPT ![a] = "ai_pending"]
    /\ ai' = [ai EXCEPT ![a] = IF @ = "none" THEN "task" ELSE @]
    /\ UNCHANGED <<rec, items, targets, proc>>

\* Backfill creates a row and leaves the article as it is, published or not.
BackfillInsert(a) ==
    /\ Backfill /\ ai[a] = "none"
    /\ ai' = [ai EXCEPT ![a] = "task"]
    /\ UNCHANGED <<art, rec, items, targets, proc>>

\* A result is kept, and above the threshold.
KeepResult(a) ==
    /\ FALSE \in AiOff
    /\ ai[a] # "none" /\ (ai[a] = "task" \/ art[a] = "ai_pending")
    /\ ai' = [ai EXCEPT ![a] = "kept"]
    /\ art' = [art EXCEPT ![a] = IF @ = "ai_pending" THEN "ready_for_publish" ELSE @]
    /\ UNCHANGED <<rec, items, targets, proc>>

-----------------------------------------------------------------------------
(* A command: init and the local stages of each record, one after the      *)
(* other, then one remote stage for all that completed them.  publish is   *)
(* the command with one category, publish-all the one with several.        *)

StartRun(r, e, C, toRemote) ==
    /\ pc[r] = "idle" /\ C # {}
    /\ pc' = [pc EXCEPT ![r] = "init"]
    /\ todo' = [todo EXCEPT ![r] = C \X {e}]
    /\ remote' = [remote EXCEPT ![r] = toRemote]
    /\ UNCHANGED <<db, targets, stage, batch, at, held, cand, promote>>

\* Stage st begins, with its maintenance.
EnterStage(r, st, K) ==
    /\ pc' = [pc EXCEPT ![r] = "reclaim"]
    /\ stage' = [stage EXCEPT ![r] = st]
    /\ at' = [at EXCEPT ![r] = K]
    /\ held' = [held EXCEPT ![r] = {}]
    /\ cand' = [cand EXCEPT ![r] = {}]
    /\ promote' = [promote EXCEPT ![r] = {}]

\* The local stages of the current record are over, completed or not.
LeaveLocal(r, completed) ==
    /\ pc' = [pc EXCEPT ![r] = "init"]
    /\ stage' = [stage EXCEPT ![r] = "pending"]
    /\ batch' = IF completed /\ remote[r]
                THEN [batch EXCEPT ![r] = @ \cup at[r]] ELSE batch
    /\ at' = [at EXCEPT ![r] = {}]
    /\ held' = [held EXCEPT ![r] = {}]
    /\ cand' = [cand EXCEPT ![r] = {}]
    /\ promote' = [promote EXCEPT ![r] = {}]

\* create_if_new, or the state of the record that is there already.  A failed
\* or published record is left alone; the local stages start from the state
\* read here, and later reads never change the plan.
InitRecord(r, k) ==
    /\ pc[r] = "init" /\ k \in todo[r]
    /\ todo' = [todo EXCEPT ![r] = @ \ {k}]
    /\ rec' = IF rec[k].state = "absent"
              THEN [rec EXCEPT ![k] = Unleased("pending", 0, remote[r])] ELSE rec
    /\ LET st == rec'[k].state IN
         \/ /\ st \in StageStates \ {"stored_local"}
            /\ EnterStage(r, st, {k})
            /\ UNCHANGED batch
         \/ /\ st = "stored_local"
            /\ batch' = IF remote[r] THEN [batch EXCEPT ![r] = @ \cup {k}] ELSE batch
            /\ UNCHANGED <<pc, stage, at, held, cand, promote>>
         \/ /\ st \in Terminal
            /\ UNCHANGED <<pc, stage, batch, at, held, cand, promote>>
    /\ UNCHANGED <<art, ai, items, targets, remote>>

\* A database error; publish-all records it and goes on.
InitFails(r, k) ==
    /\ pc[r] = "init" /\ k \in todo[r]
    /\ todo' = [todo EXCEPT ![r] = @ \ {k}]
    /\ UNCHANGED <<db, targets, pc, stage, remote, batch, at, held, cand, promote>>

RemoteStage(r) ==
    /\ pc[r] = "init" /\ todo[r] = {} /\ batch[r] # {}
    /\ EnterStage(r, "stored_local", batch[r])
    /\ batch' = [batch EXCEPT ![r] = {}]
    /\ UNCHANGED <<db, targets, remote, todo>>

Stopped(r) ==
    /\ pc' = [pc EXCEPT ![r] = "idle"]
    /\ stage' = [stage EXCEPT ![r] = "pending"]
    /\ remote' = [remote EXCEPT ![r] = FALSE]
    /\ todo' = [todo EXCEPT ![r] = {}]
    /\ batch' = [batch EXCEPT ![r] = {}]
    /\ at' = [at EXCEPT ![r] = {}]
    /\ held' = [held EXCEPT ![r] = {}]
    /\ cand' = [cand EXCEPT ![r] = {}]
    /\ promote' = [promote EXCEPT ![r] = {}]

EndRun(r) ==
    /\ pc[r] = "init" /\ todo[r] = {} /\ batch[r] = {}
    /\ Stopped(r)
    /\ UNCHANGED <<db, targets>>

\* The process dies; its leases and what reached the targets stay.
Crash(r) ==
    /\ pc[r] # "idle"
    /\ Stopped(r)
    /\ UNCHANGED <<db, targets>>

\* Time passes the lease_expires_at of a record.
LeaseExpires(k) ==
    /\ rec[k].lease = "live"
    /\ rec' = [rec EXCEPT ![k].lease = "expired"]
    /\ UNCHANGED <<art, ai, items, targets, proc>>

-----------------------------------------------------------------------------
(* Maintenance and claim at the head of every stage.                       *)

Goto(r, to) ==
    /\ pc' = [pc EXCEPT ![r] = to]
    /\ UNCHANGED <<stage, remote, todo, batch, at, held, cand, promote>>

Expired(k) == rec[k].lease = "expired" /\ rec[k].state \in StageStates

ReclaimLeases(r) ==
    /\ pc[r] = "reclaim"
    /\ rec' = [k \in Records |-> IF Expired(k) THEN Moved(k, rec[k].state) ELSE rec[k]]
    /\ Goto(r, "sweep")
    /\ UNCHANGED <<art, ai, items, targets>>

Exhausted(k) ==
    rec[k].state \in StageStates /\ rec[k].attempts >= MaxAttempts /\ rec[k].lease # "live"

SweepLeases(r) ==
    /\ pc[r] = "sweep"
    /\ rec' = [k \in Records |-> IF Exhausted(k) THEN Moved(k, "failed") ELSE rec[k]]
    /\ Goto(r, "claim")
    /\ UNCHANGED <<art, ai, items, targets>>

\* Maintenance is best effort.
MaintenanceFails(r) ==
    /\ \/ pc[r] = "reclaim" /\ Goto(r, "sweep")
       \/ pc[r] = "sweep" /\ Goto(r, "claim")
    /\ UNCHANGED <<db, targets>>

Claimable(k, st) ==
    rec[k].state = st /\ rec[k].lease # "live" /\ rec[k].attempts < MaxAttempts

Claimed(k, r) == [state |-> rec[k].state, owner |-> r, lease |-> "live",
                  attempts |-> rec[k].attempts + 1, remote |-> rec[k].remote]

\* The stage claims by id those of its records that are still in its state;
\* PostgreSQL skips rows that a transaction has locked.
ClaimByIds(r, S) ==
    /\ pc[r] = "claim" /\ S # {}
    /\ S \subseteq {k \in at[r] : Claimable(k, stage[r])}
    /\ rec' = [k \in Records |-> IF k \in S THEN Claimed(k, r) ELSE rec[k]]
    /\ held' = [held EXCEPT ![r] = S]
    /\ pc' = [pc EXCEPT ![r] = "work"]
    /\ UNCHANGED <<art, ai, items, targets, stage, remote, todo, batch, at, cand, promote>>

\* A stage that ends without having completed: a local one ends the record's
\* local stages, the remote one ends the command.
GiveUpStage(r) ==
    IF stage[r] = "stored_local" THEN Stopped(r)
    ELSE LeaveLocal(r, FALSE) /\ UNCHANGED <<remote, todo>>

\* Another process was faster, the budget is used up, or the claim failed.
NothingClaimed(r) ==
    /\ pc[r] = "claim"
    /\ GiveUpStage(r)
    /\ UNCHANGED <<db, targets>>

-----------------------------------------------------------------------------
(* Releases.                                                               *)

Owns(r, k) == rec[k].owner = r

\* Faults of Advances: no WHERE on the owner; on the id alone.
AdvancesUnowned(r, k, from) == rec[k].state = from
AdvancesById(r, k, from) == TRUE

\* The guard of a success release: WHERE id AND lease_owner AND state.
Advances(r, k, from) == Owns(r, k) /\ rec[k].state = from

\* The stage is done with one of its records; a batch goes on with the others.
Finished(r, k) ==
    IF held[r] = {k} THEN GiveUpStage(r)
    ELSE /\ held' = [held EXCEPT ![r] = @ \ {k}]
         /\ UNCHANGED <<pc, stage, remote, todo, batch, at, cand, promote>>

\* A retryable error: the stage state stays, unless the budget is used up.
ReleaseRetryable(r, k) ==
    /\ rec' = IF Owns(r, k)
              THEN [rec EXCEPT ![k] = Moved(k, IF @.attempts >= MaxAttempts
                                               THEN "failed" ELSE @.state)]
              ELSE rec
    /\ Finished(r, k)
    /\ UNCHANGED <<art, ai, items, targets>>

ReleasePermanent(r, k) ==
    /\ rec' = IF Owns(r, k) THEN [rec EXCEPT ![k] = Moved(k, "failed")] ELSE rec
    /\ Finished(r, k)
    /\ UNCHANGED <<art, ai, items, targets>>

\* The release fails in the database; the lease stays behind.
ReleaseLost(r, k) ==
    /\ Finished(r, k)
    /\ UNCHANGED <<db, targets>>

\* A stage fails after its claim.  Only the targets report errors that are worth
\* a retry, and the remote stage also when its deadline has passed.
StageFails(r, k) ==
    /\ pc[r] \in {"work", "fail"} /\ k \in held[r]
    /\ \/ stage[r] \in {"rendered", "stored_local"} /\ ReleaseRetryable(r, k)
       \/ ReleasePermanent(r, k)
       \/ ReleaseLost(r, k)

-----------------------------------------------------------------------------
(* freeze                                                                  *)

\* articles of the category that the two candidate queries select from: with a
\* result, or, when the AI stage is off, without any.
AiCandidates(c) == {a \in {c} \X Stories : art[a] = "ready_for_publish" /\ ai[a] = "kept"}
OffCandidates(c) ==
    {a \in {c} \X Stories : art[a] \in {"persisted", "ready_for_publish"} /\ ai[a] = "none"}

\* The candidates are read before the transaction.  Window, threshold and
\* max_items may leave any of them out; without AI all have to be promoted.
LoadCandidates(r, k, off, S) ==
    /\ pc[r] = "work" /\ stage[r] = "pending" /\ held[r] = {k}
    /\ S \subseteq (IF off THEN OffCandidates(k[1]) ELSE AiCandidates(k[1]))
    /\ cand' = [cand EXCEPT ![r] = S]
    /\ promote' = [promote EXCEPT ![r] = IF off THEN S ELSE {}]
    /\ pc' = [pc EXCEPT ![r] = "release"]
    /\ UNCHANGED <<db, targets, stage, remote, todo, batch, at, held>>

\* No candidates: the record stays pending and gets its attempt back.
ReleaseEmptySnapshot(r, k) ==
    /\ pc[r] = "release" /\ stage[r] = "pending" /\ held[r] = {k} /\ cand[r] = {}
    /\ rec' = IF Advances(r, k, "pending")
              THEN [rec EXCEPT ![k] = Unleased("pending", @.attempts - 1, @.remote)]
              ELSE rec
    /\ GiveUpStage(r)
    /\ UNCHANGED <<art, ai, items, targets>>

\* One transaction: promote, insert the items, move the record.  A promotion or
\* a record that does not match rolls back and leaves the lease.
FreezeSnapshot(r, k) ==
    /\ pc[r] = "release" /\ stage[r] = "pending" /\ held[r] = {k} /\ cand[r] # {}
    /\ IF /\ \A a \in promote[r] : art[a] = "persisted"
          /\ Advances(r, k, "pending")
       THEN /\ art' = [a \in Articles |->
                         IF a \in promote[r] THEN "ready_for_publish" ELSE art[a]]
            /\ items' = [items EXCEPT ![k] = cand[r]]
            /\ rec' = [rec EXCEPT ![k] = Moved(k, "snapshot_frozen")]
            /\ EnterStage(r, "snapshot_frozen", {k})
            /\ UNCHANGED <<ai, remote, todo, batch>>
       ELSE GiveUpStage(r) /\ UNCHANGED db
    /\ UNCHANGED targets

\* The transaction itself fails.
FreezeFails(r, k) ==
    /\ pc[r] = "release" /\ stage[r] = "pending" /\ held[r] = {k}
    /\ IF cand[r] = {} THEN ReleaseLost(r, k)
       ELSE ReleasePermanent(r, k) \/ ReleaseLost(r, k)

-----------------------------------------------------------------------------
(* render and store_local                                                  *)

\* The guarded release of a stage that changes nothing but the record.
Advanced(r, k, from, to) ==
    rec' = IF Advances(r, k, from) THEN [rec EXCEPT ![k] = Moved(k, to)] ELSE rec

\* The report is rendered only to see that it can be.
Render(r, k) ==
    /\ pc[r] = "work" /\ stage[r] = "snapshot_frozen" /\ held[r] = {k}
    /\ Advanced(r, k, "snapshot_frozen", "rendered")
    /\ IF Advances(r, k, "snapshot_frozen")
       THEN EnterStage(r, "rendered", {k}) /\ UNCHANGED <<remote, todo, batch>>
       ELSE GiveUpStage(r)
    /\ UNCHANGED <<art, ai, items, targets>>

\* The report is written to the local target, with or without a lease.
WriteLocal(r, k) ==
    /\ pc[r] = "work" /\ stage[r] = "rendered" /\ held[r] = {k}
    /\ stored' = stored \cup {k}
    /\ Goto(r, "release")
    /\ UNCHANGED <<db, pushed>>

\* Fault of TerminalAdvance: articles that are not ready are passed over.
TerminalAdvanceUnchecked(r, k, from, to) ==
    IF Advances(r, k, from)
    THEN /\ rec' = [rec EXCEPT ![k] = Moved(k, to)]
         /\ art' = [a \in Articles |-> IF a \in items[k] THEN "published" ELSE art[a]]
    ELSE UNCHANGED <<rec, art>>

\* The record's last step: with it, and only if all of them are ready, its
\* articles are published.  Otherwise the transaction leaves everything,
\* the lease included, as it was.
TerminalAdvance(r, k, from, to) ==
    IF Advances(r, k, from) /\ \A a \in items[k] : art[a] = "ready_for_publish"
    THEN /\ rec' = [rec EXCEPT ![k] = Moved(k, to)]
         /\ art' = [a \in Articles |-> IF a \in items[k] THEN "published" ELSE art[a]]
    ELSE UNCHANGED <<rec, art>>

\* A record without a remote target is published here.
StoreLocal(r, k) ==
    /\ pc[r] = "release" /\ stage[r] = "rendered" /\ held[r] = {k}
    /\ IF rec[k].remote
       THEN Advanced(r, k, "rendered", "stored_local") /\ UNCHANGED art
       ELSE TerminalAdvance(r, k, "rendered", "published_local")
    /\ LeaveLocal(r, rec' # rec)
    /\ UNCHANGED <<ai, items, targets, remote, todo>>

StoreLost(r, k) ==
    /\ pc[r] = "release" /\ stage[r] = "rendered" /\ held[r] = {k}
    /\ ReleaseLost(r, k)

-----------------------------------------------------------------------------
(* remote                                                                  *)

\* Fault of Push: at the deadline the commit is taken for made.
PushAssumed(r, made, reported) ==
    /\ pc[r] = "work" /\ stage[r] = "stored_local" /\ held[r] # {}
    /\ pushed' = IF made THEN pushed \cup held[r] ELSE pushed
    /\ Goto(r, IF reported THEN "release" ELSE "fail")
    /\ UNCHANGED <<db, stored>>

\* One commit for all prepared reports.  What is not ready at the deadline is
\* reported as an error, whether the commit was made or not.
Push(r, made, reported) ==
    /\ pc[r] = "work" /\ stage[r] = "stored_local" /\ held[r] # {}
    /\ reported => made
    /\ pushed' = IF made THEN pushed \cup held[r] ELSE pushed
    /\ Goto(r, IF reported THEN "release" ELSE "fail")
    /\ UNCHANGED <<db, stored>>

PublishRemote(r, k) ==
    /\ pc[r] = "release" /\ stage[r] = "stored_local" /\ k \in held[r]
    /\ TerminalAdvance(r, k, "stored_local", "published_remote")
    /\ Finished(r, k)
    /\ UNCHANGED <<ai, items, targets>>

PublishLost(r, k) ==
    /\ pc[r] = "release" /\ stage[r] = "stored_local" /\ k \in held[r]
    /\ ReleaseLost(r, k)

-----------------------------------------------------------------------------
Maintain(r) == ReclaimLeases(r) \/ SweepLeases(r) \/ MaintenanceFails(r)

StageStep(r, k) ==
    \/ StageFails(r, k)
    \/ \E off \in AiOff, S \in SUBSET Articles : LoadCandidates(r, k, off, S)
    \/ ReleaseEmptySnapshot(r, k) \/ FreezeSnapshot(r, k) \/ FreezeFails(r, k)
    \/ Render(r, k)
    \/ WriteLocal(r, k) \/ StoreLocal(r, k) \/ StoreLost(r, k)
    \/ PublishRemote(r, k) \/ PublishLost(r, k)

RunStep(r) ==
    \/ \E k \in Records : InitRecord(r, k) \/ InitFails(r, k)
    \/ RemoteStage(r) \/ EndRun(r)
    \/ Maintain(r)
    \/ \E S \in SUBSET Records : ClaimByIds(r, S)
    \/ NothingClaimed(r)
    \/ \E k \in Records : StageStep(r, k)
    \/ \E made, reported \in BOOLEAN : Push(r, made, reported)

Next ==
    \/ \E a \in Articles : CreateAiTask(a) \/ BackfillInsert(a) \/ KeepResult(a)
    \/ \E r \in Runs, e \in Editions, C \in SUBSET Categories, toRemote \in BOOLEAN :
         StartRun(r, e, C, toRemote)
    \/ \E r \in Runs : RunStep(r) \/ Crash(r)
    \/ \E k \in Records : LeaseExpires(k)

Spec == Init /\ [][Next]_vars

-----------------------------------------------------------------------------
(* Invariants.                                                             *)

Places == {"idle", "init", "reclaim", "sweep", "claim", "work", "release", "fail"}

TypeOK ==
    /\ art \in [Articles -> {"persisted", "ai_pending", "ready_for_publish", "published"}]
    /\ ai \in [Articles -> {"none", "task", "kept"}]
    /\ rec \in [Records -> Row]
    /\ items \in [Records -> SUBSET Articles]
    /\ stored \subseteq Records /\ pushed \subseteq Records
    /\ pc \in [Runs -> Places]
    /\ stage \in [Runs -> StageStates]
    /\ remote \in [Runs -> BOOLEAN]
    /\ todo \in [Runs -> SUBSET Records]
    /\ batch \in [Runs -> SUBSET Records]
    /\ at \in [Runs -> SUBSET Records]
    /\ held \in [Runs -> SUBSET Records]
    /\ cand \in [Runs -> SUBSET Articles]
    /\ promote \in [Runs -> SUBSET Articles]

\* However processes overlap, crash or lose statements: a record is leased by
\* somebody or by nobody, only while it is at a stage, and has used an attempt
\* then (which an empty snapshot may give back); it has items from the freeze on
\* and not before (cross-table invariant 6, for all later states too); and only
\* a record with a remote target is ever waiting for one.
RecordCoherent ==
    \A k \in Records :
        /\ (rec[k].owner # NoRun) <=> (rec[k].lease # "none")
        /\ rec[k].lease # "none" => rec[k].state \in StageStates /\ rec[k].attempts > 0
        /\ rec[k].state \in {"absent", "pending"} => items[k] = {}
        /\ rec[k].state \in {"snapshot_frozen", "rendered", "stored_local"} \cup Published
              => items[k] # {}
        /\ rec[k].state \in {"stored_local", "published_remote"} => rec[k].remote
        /\ rec[k].state = "published_local" => ~rec[k].remote

\* Cross-table invariant 5, in both directions: an article is published exactly
\* when it is in a published record, although many records may have frozen it,
\* and it is never in two.
PublishedOnce ==
    /\ \A a \in Articles :
         (art[a] = "published") <=>
         (\E k \in Records : rec[k].state \in Published /\ a \in items[k])
    /\ \A k, j \in Records :
         /\ rec[k].state \in Published /\ rec[j].state \in Published /\ k # j
         => items[k] \cap items[j] = {}

\* What the database calls stored or published really is at the target, although
\* the targets and the database have no transaction in common.
PublishedWasDelivered ==
    \A k \in Records :
        /\ rec[k].state \in {"stored_local"} \cup Published => k \in stored
        /\ rec[k].state = "published_remote" => k \in pushed

-----------------------------------------------------------------------------
(* Action properties.                                                      *)

\* A record moves forward only by the process that holds its lease, during the
\* stage that starts from the record's state; a process that stalled and lost
\* its lease never moves the record of its successor.
AdvancedByOwner ==
    [][\A k \in Records :
          /\ rec[k].state # "absent"
          /\ rec'[k].state \notin {rec[k].state, "failed"}
          => \E r \in Runs : /\ rec[k].owner = r /\ k \in held[r]
                             /\ stage[r] = rec[k].state
                             /\ pc[r] \in {"work", "release"}]_vars

-----------------------------------------------------------------------------
(* A stronger statement the repository makes, which the code does not keep.*)

\* docs/plan/15-retry-exhaustion-and-reclaim.md, 2: once the releases fold the
\* budget, no flow can leave a row nobody will claim again; only the reclaim of
\* a lease that ran out in the last attempt can.
ExhaustedOnlyByReclaim ==
    [][\A k \in Records :
          /\ rec'[k].state \in StageStates /\ rec'[k].lease = "none"
          /\ rec'[k].attempts >= MaxAttempts
          /\ rec'[k] # rec[k]
          => rec[k].lease = "expired"
             /\ \E r \in Runs : pc[r] = "reclaim" /\ pc'[r] = "sweep"]_vars

-----------------------------------------------------------------------------
(* What the stage promises.                                                *)

Standing(k) == CASE rec[k].state = "absent"    -> "none"
                 [] rec[k].state = "pending"   -> "open"
                 [] rec[k].state = "failed"    -> "lost"
                 [] rec[k].state \in Published -> "delivered"
                 [] OTHER                      -> "frozen"

Promise == INSTANCE Delivery WITH
              Reports  <- Records,
              report   <- [k \in Records |-> Standing(k)],
              contents <- items,
              out      <- {a \in Articles : art[a] = "published"}

\* The publish stage implements the delivery of immutable reports.
ImplementsDelivery == Promise!Spec
=============================================================================
