------------------------------ MODULE Reindex -------------------------------
(***************************************************************************)
(* Rule upgrades: the tables reindex_jobs and rule_versions (kind          *)
(* 'reindex'), the reindex flow in several overlapping processes, abort,   *)
(* and the rows it recomputes next to ingest and extract: the link hashes  *)
(* of feed_entries, the content hashes of articles, the feed_sources.      *)
(*                                                                         *)
(* A job and the version it will activate are inserted together, so they   *)
(* share a name, and ids are given out in order.  A hash is a choice per   *)
(* row: Fresh is what today's algorithm makes of the row, the rows that    *)
(* are there at the start carry whatever an older one made of them.        *)
(* Leases are modelled as in AiRun.                                        *)
(***************************************************************************)
EXTENDS Naturals, FiniteSets

CONSTANTS
    MaxJobs,        \* bound: how many jobs are ever started
    MaxId,          \* bound: how many rows feed_entries and articles ever have
    Hashes,         \* link hashes, and content hashes
    Fresh,          \* the hash today's algorithm gives row i; NoHash: the link is invalid
    NoHash,         \* the row is not there
    Sources,        \* feed sources by category and key
    Configured,     \* those the configuration lists
    Targets,        \* the targets that are ever asked for
    Runs,           \* processes that execute the reindex command
    NoRun,          \* lease_owner IS NULL
    BatchSize       \* --batch-size

Ids  == 1..MaxId
Jobs == 1..MaxJobs

ASSUME ReindexAssumption ==
    /\ MaxJobs \in Nat /\ MaxId \in Nat /\ BatchSize \in Nat \ {0}
    /\ NoHash \notin Hashes /\ NoRun \notin Runs
    /\ Fresh \in [Ids -> Hashes \cup {NoHash}]
    /\ Configured \subseteq Sources
    /\ Targets \subseteq {"link_hash", "content_hash", "categories"}

VARIABLES
    database,   \* "sqlite", or "postgres" at READ COMMITTED; it stays what it is
    job,        \* the rows of reindex_jobs
    rule,       \* rule_versions.status of the version each job is to activate
    link,       \* feed_entries: link_hash and whether the row is a dedup shadow
    content,    \* articles.content_hash
    source,     \* feed_sources.status
    pc,         \* where each run is
    mine,       \* the job a run has started; 0 before
    after,      \* the last row a run has dealt with
    page,       \* what a run has read and not dealt with yet
    seen        \* the active version that an open finish transaction has demoted

tables == <<database, job, rule, link, content, source>>
local  == <<pc, mine, after, page, seen>>
vars   == <<database, job, rule, link, content, source, pc, mine, after, page, seen>>

-----------------------------------------------------------------------------
Unfinished == {"pending", "running"}
Terminal   == {"completed", "failed", "aborted"}

Job == [target : Targets \cup {"none"}, state : {"absent"} \cup Unfinished \cup Terminal,
        owner : Runs \cup {NoRun}, lease : {"none", "live", "expired"}, last : 0..MaxId]

AbsentJob == [target |-> "none", state |-> "absent", owner |-> NoRun,
              lease |-> "none", last |-> 0]

\* A job without a lease, in state st.
Unleased(row, st) == [row EXCEPT !.state = st, !.owner = NoRun, !.lease = "none"]

\* The rows of a hash that count for deduplication, and those that share it.
Group(h)     == {i \in Ids : link[i].hash = h}
Canonical(h) == {i \in Group(h) : ~link[i].shadow}
Lowest(S)    == CHOOSE i \in S : \A k \in S : i <= k

\* Rows come with increasing ids.
Prefix(f) == \A i \in Ids : f[i] # NoHash => \A k \in 1..i : f[k] # NoHash

Init ==
    /\ database \in {"sqlite", "postgres"}
    /\ job = [j \in Jobs |-> AbsentJob]
    /\ rule = [j \in Jobs |-> "none"]
    /\ \E h \in [Ids -> Hashes \cup {NoHash}] :
          /\ Prefix(h) /\ ("link_hash" \notin Targets => \A i \in Ids : h[i] = NoHash)
          /\ link = [i \in Ids |-> [hash |-> h[i],
                                    shadow |-> h[i] # NoHash /\ \E k \in 1..(i-1) : h[k] = h[i]]]
    /\ content \in {h \in [Ids -> Hashes \cup {NoHash}] :
          /\ Prefix(h) /\ ("content_hash" \notin Targets => \A i \in Ids : h[i] = NoHash)
          /\ \A i, k \in Ids : h[i] = h[k] /\ i # k => h[i] = NoHash}
    /\ source = [s \in Sources |-> "absent"]
    /\ pc = [r \in Runs |-> "idle"]
    /\ mine = [r \in Runs |-> 0]
    /\ after = [r \in Runs |-> 0]
    /\ page = [r \in Runs |-> {}]
    /\ seen = [r \in Runs |-> 0]

-----------------------------------------------------------------------------
(* The neighbours.                                                         *)

\* The next id of a table.
NextId(f, i) == f[i] = NoHash /\ \A k \in 1..(i-1) : f[k] # NoHash

\* Ingest inserts an entry, unless the unique index on the canonical rows says
\* that its link is known.
InsertEntry(i) ==
    /\ "link_hash" \in Targets
    /\ NextId([k \in Ids |-> link[k].hash], i) /\ Fresh[i] # NoHash
    /\ Canonical(Fresh[i]) = {}
    /\ link' = [link EXCEPT ![i] = [hash |-> Fresh[i], shadow |-> FALSE]]
    /\ UNCHANGED <<database, job, rule, content, source, local>>

\* Extract inserts an article, unless one with the same content exists.
InsertArticle(i) ==
    /\ "content_hash" \in Targets
    /\ NextId(content, i) /\ Fresh[i] # NoHash
    /\ \A k \in Ids : content[k] # Fresh[i]
    /\ content' = [content EXCEPT ![i] = Fresh[i]]
    /\ UNCHANGED <<database, job, rule, link, source, local>>

\* Ingest registers a configured source, or makes an archived one active again.
RegisterSource(s) ==
    /\ "categories" \in Targets
    /\ s \in Configured /\ source[s] # "active"
    /\ source' = [source EXCEPT ![s] = "active"]
    /\ UNCHANGED <<database, job, rule, link, content, local>>

\* A source that an earlier configuration has brought in.
FormerSource(s) ==
    /\ "categories" \in Targets
    /\ s \notin Configured /\ source[s] = "absent"
    /\ \A j \in Jobs : job[j].state = "absent"
    /\ source' = [source EXCEPT ![s] = "active"]
    /\ UNCHANGED <<database, job, rule, link, content, local>>

-----------------------------------------------------------------------------
(* Starting a run.                                                         *)

Goto(r, l) == pc' = [pc EXCEPT ![r] = l]

\* The process is over: what it knew is gone.
Leave(r) ==
    /\ pc' = [pc EXCEPT ![r] = "idle"]
    /\ mine' = [mine EXCEPT ![r] = 0]
    /\ after' = [after EXCEPT ![r] = 0]
    /\ page' = [page EXCEPT ![r] = {}]
    /\ seen' = [seen EXCEPT ![r] = 0]

StartRun(r) ==
    /\ pc[r] = "idle"
    /\ Goto(r, "reclaim")
    /\ UNCHANGED <<tables, mine, after, page, seen>>

\* A finish transaction of a run is open on job j: other writers of the row wait.
Locked(j) == \E r \in Runs : pc[r] = "commit" /\ mine[r] = j

Expired(j) == job[j].state = "running" /\ job[j].lease = "expired"

Reclaimed(row) == Unleased(row, "pending")

\* Jobs whose lease ran out go back to pending and keep their checkpoint.
ReclaimLeases(r) ==
    /\ pc[r] = "reclaim"
    /\ \A j \in Jobs : Expired(j) => ~Locked(j)
    /\ job' = [j \in Jobs |-> IF Expired(j) THEN Reclaimed(job[j]) ELSE job[j]]
    /\ Goto(r, "start")
    /\ UNCHANGED <<database, rule, link, content, source, mine, after, page, seen>>

\* Maintenance is best effort.
MaintenanceFails(r) ==
    /\ pc[r] = "reclaim"
    /\ Goto(r, "start")
    /\ UNCHANGED <<tables, mine, after, page, seen>>

\* Fault of TargetFree: only a running job keeps a second one away.
TargetNotRunning(t) == \A j \in Jobs : job[j].target = t => job[j].state # "running"

\* The partial unique index on the targets of unfinished jobs.
TargetFree(t) == \A j \in Jobs : job[j].target = t => job[j].state \notin Unfinished

\* One transaction inserts the pending version and the pending job.
StartReindex(r, t, j) ==
    /\ pc[r] = "start"
    /\ job[j].state = "absent" /\ \A k \in 1..(j-1) : job[k].state # "absent"
    /\ TargetFree(t)
    /\ job' = [job EXCEPT ![j] = [AbsentJob EXCEPT !.target = t, !.state = "pending"]]
    /\ rule' = [rule EXCEPT ![j] = "pending"]
    /\ mine' = [mine EXCEPT ![r] = j]
    /\ Goto(r, "claim")
    /\ UNCHANGED <<database, link, content, source, after, page, seen>>

\* An unfinished job has the target, the tag is taken, or the database fails.
StartFails(r) ==
    /\ pc[r] = "start"
    /\ Leave(r)
    /\ UNCHANGED tables

\* The run claims the job it has just inserted.
ClaimById(r) ==
    /\ pc[r] = "claim" /\ job[mine[r]].state = "pending"
    /\ job' = [job EXCEPT ![mine[r]].state = "running", ![mine[r]].owner = r,
                          ![mine[r]].lease = "live"]
    /\ after' = [after EXCEPT ![r] = job[mine[r]].last]
    /\ Goto(r, "list")
    /\ UNCHANGED <<database, rule, link, content, source, mine, page, seen>>

\* The job has been aborted, or the database fails.
ClaimFails(r) ==
    /\ pc[r] = "claim"
    /\ Leave(r)
    /\ UNCHANGED tables

-----------------------------------------------------------------------------
(* The work.                                                               *)

Target(r) == job[mine[r]].target

Holds(r) == job[mine[r]].state = "running" /\ job[mine[r]].owner = r

\* The first BatchSize rows after the last one dealt with.
Batch(f, n) ==
    {i \in Ids : /\ i > n /\ f[i] # NoHash
                 /\ Cardinality({k \in Ids : n < k /\ k < i}) < BatchSize}

\* What there is to read for the run: rows with their hashes, or the sources to
\* write and the ones to archive.
Listing(r) ==
    CASE Target(r) = "link_hash"    -> LET h == [i \in Ids |-> link[i].hash]
                                       IN  {<<i, h[i]>> : i \in Batch(h, after[r])}
      [] Target(r) = "content_hash" -> {<<i, content[i]>> : i \in Batch(content, after[r])}
      [] Target(r) = "categories"   -> {<<s, "upsert">> : s \in Configured} \cup
                    {<<s, "archive">> : s \in {x \in Sources \ Configured : source[x] # "absent"}}

\* A page is read; an empty one is the end of the table.
List(r) ==
    /\ pc[r] = "list"
    /\ page' = [page EXCEPT ![r] = Listing(r)]
    /\ Goto(r, IF Listing(r) = {} THEN "finish" ELSE "work")
    /\ UNCHANGED <<tables, mine, after, seen>>

\* Fault of Advance: the cursor is one too far.
AdvancePast(r, x) ==
    /\ after' = [after EXCEPT ![r] = x[1] + 1]
    /\ page' = [page EXCEPT ![r] = @ \ {x}]

\* A row is dealt with.
Advance(r, x) ==
    /\ after' = [after EXCEPT ![r] = x[1]]
    /\ page' = [page EXCEPT ![r] = @ \ {x}]

\* The row to deal with next.
Head(r, x) ==
    /\ pc[r] = "work" /\ x \in page[r]
    /\ Target(r) # "categories" => \A y \in page[r] : x[1] <= y[1]

\* Fault of MovedIn: the group the row leaves gets no new canonical row.
MovedAway(table, i, h) ==
    LET joined == [table EXCEPT ![i].hash = h]
    IN  [k \in Ids |-> IF joined[k].hash = h
                       THEN [joined[k] EXCEPT !.shadow =
                                \E m \in Ids : m < k /\ joined[m].hash = joined[k].hash]
                       ELSE joined[k]]

\* Row i gets hash h; in the group it leaves and in the one it joins the row
\* with the lowest id becomes the canonical one.
MovedIn(table, i, h) ==
    LET joined == [table EXCEPT ![i].hash = h]
    IN  [k \in Ids |-> IF joined[k].hash \in {h, table[i].hash}
                       THEN [joined[k] EXCEPT !.shadow =
                                \E m \in Ids : m < k /\ joined[m].hash = joined[k].hash]
                       ELSE joined[k]]

\* The link is invalid, or its hash was current when the page was read.
SkipLink(r, x) ==
    /\ Head(r, x) /\ Target(r) = "link_hash"
    /\ Fresh[x[1]] \in {NoHash, x[2]}
    /\ Advance(r, x)
    /\ UNCHANGED <<tables, pc, mine, seen>>

\* The move is one transaction that keeps other writers out.
UpdateLinkHash(r, x) ==
    /\ Head(r, x) /\ Target(r) = "link_hash"
    /\ Fresh[x[1]] \notin {NoHash, x[2]}
    /\ link' = MovedIn(link, x[1], Fresh[x[1]])
    /\ Advance(r, x)
    /\ UNCHANGED <<database, job, rule, content, source, pc, mine, seen>>

\* The hash is current, or another article has it.
Collides(i) == \E k \in Ids \ {i} : content[k] = Fresh[i]

SkipContent(r, x) ==
    /\ Head(r, x) /\ Target(r) = "content_hash"
    /\ Fresh[x[1]] \in {NoHash, x[2], content[x[1]]} \/ Collides(x[1])
    /\ Advance(r, x)
    /\ UNCHANGED <<tables, pc, mine, seen>>

\* The collision is looked up in one statement ...
PeekContent(r, x) ==
    /\ Head(r, x) /\ Target(r) = "content_hash"
    /\ Fresh[x[1]] \notin {NoHash, x[2], content[x[1]]} /\ ~Collides(x[1])
    /\ Goto(r, "write")
    /\ UNCHANGED <<tables, mine, after, page, seen>>

\* ... and the hash is written in the next, which fails if an article with it
\* has come in between.
UpdateContentHash(r, x) ==
    /\ pc[r] = "write" /\ x \in page[r] /\ \A y \in page[r] : x[1] <= y[1]
    /\ IF Collides(x[1])
       THEN /\ Goto(r, "fail")
            /\ UNCHANGED <<content, after, page>>
       ELSE /\ content' = [content EXCEPT ![x[1]] = Fresh[x[1]]]
            /\ Advance(r, x)
            /\ Goto(r, "work")
    /\ UNCHANGED <<database, job, rule, link, source, mine, seen>>

\* A source is written or archived in one transaction with the check of the lease.
WriteSource(r, x) ==
    /\ Head(r, x) /\ Target(r) = "categories"
    /\ x[2] = "archive" => \A y \in page[r] : y[2] = "archive"
    /\ IF Holds(r)
       THEN /\ source' = [source EXCEPT ![x[1]] = IF x[2] = "upsert" THEN "active" ELSE "archived"]
            /\ page' = [page EXCEPT ![r] = @ \ {x}]
            /\ UNCHANGED pc
       ELSE /\ Goto(r, "fail")
            /\ UNCHANGED <<source, page>>
    /\ UNCHANGED <<database, job, rule, link, content, mine, after, seen>>

\* Fault of Checkpoint: the row to read next is stored.
CheckpointNext(r) ==
    /\ pc[r] = "work" /\ page[r] = {} /\ Target(r) # "categories"
    /\ IF Holds(r)
       THEN /\ job' = [job EXCEPT ![mine[r]].last = after[r] + 1]
            /\ Goto(r, "list")
       ELSE /\ Goto(r, "fail")
            /\ UNCHANGED job
    /\ UNCHANGED <<database, rule, link, content, source, mine, after, page, seen>>

\* The end of a page: the checkpoint is stored if the run still holds the job;
\* if not, the run gives up.
Checkpoint(r) ==
    /\ pc[r] = "work" /\ page[r] = {} /\ Target(r) # "categories"
    /\ IF Holds(r)
       THEN /\ job' = [job EXCEPT ![mine[r]].last = after[r]]
            /\ Goto(r, "list")
       ELSE /\ Goto(r, "fail")
            /\ UNCHANGED job
    /\ UNCHANGED <<database, rule, link, content, source, mine, after, page, seen>>

SourcesDone(r) ==
    /\ pc[r] = "work" /\ page[r] = {} /\ Target(r) = "categories"
    /\ Goto(r, "finish")
    /\ UNCHANGED <<tables, mine, after, page, seen>>

\* Any statement of the work fails in the database.
WorkFails(r) ==
    /\ pc[r] \in {"list", "work", "write"}
    /\ Goto(r, "fail")
    /\ UNCHANGED <<tables, mine, after, page, seen>>

-----------------------------------------------------------------------------
(* reindex --dry-run.                                                      *)

\* Rows whose link or body gets a hash it does not have.
Stale(i, h) == h # NoHash /\ Fresh[i] \notin {NoHash, h}

\* One more row is updated, or else skipped as a duplicate.
Counted(tally, fresh) ==
    IF fresh THEN [tally EXCEPT !.updated = @ + 1] ELSE [tally EXCEPT !.skipped = @ + 1]

Nothing == [updated |-> 0, skipped |-> 0]

\* Fault of DryLinks: a row stays in the group it leaves.
DryLinksStaying ==
    LET Sim[n \in 0..MaxId] ==
          IF n = 0 THEN [groups |-> [h \in Hashes |-> Group(h)], tally |-> Nothing]
          ELSE LET s == Sim[n - 1]
                   g == s.groups[Fresh[n]] \cup {n}
               IN  IF Stale(n, link[n].hash)
                   THEN [groups |-> [s.groups EXCEPT ![Fresh[n]] = g],
                         tally  |-> Counted(s.tally, Lowest(g) = n)]
                   ELSE s
    IN  Sim[MaxId].tally

\* The groups of equal hashes are built up first; then each row moves, in the
\* order of the ids, and counts as updated if it comes first in its new group.
DryLinks ==
    LET Sim[n \in 0..MaxId] ==
          IF n = 0 THEN [groups |-> [h \in Hashes |-> Group(h)], tally |-> Nothing]
          ELSE LET s == Sim[n - 1]
                   g == s.groups[Fresh[n]] \cup {n}
               IN  IF Stale(n, link[n].hash)
                   THEN [groups |-> [s.groups EXCEPT ![link[n].hash] = @ \ {n}, ![Fresh[n]] = g],
                         tally  |-> Counted(s.tally, Lowest(g) = n)]
                   ELSE s
    IN  Sim[MaxId].tally

\* The hashes in use are collected first.
DryContents ==
    LET Sim[n \in 0..MaxId] ==
          IF n = 0 THEN [used |-> {content[i] : i \in Ids}, tally |-> Nothing]
          ELSE LET s    == Sim[n - 1]
                   free == Fresh[n] \notin s.used
               IN  IF Stale(n, content[n])
                   THEN [used  |-> IF free THEN (s.used \ {content[n]}) \cup {Fresh[n]} ELSE s.used,
                         tally |-> Counted(s.tally, free)]
                   ELSE s
    IN  Sim[MaxId].tally

\* What the updates of a run do that has the tables to itself.
RunLinks ==
    LET Run[n \in 0..MaxId] ==
          IF n = 0 THEN [table |-> link, tally |-> Nothing]
          ELSE LET s     == Run[n - 1]
                   moved == MovedIn(s.table, n, Fresh[n])
               IN  IF Stale(n, s.table[n].hash)
                   THEN [table |-> moved, tally |-> Counted(s.tally, ~moved[n].shadow)]
                   ELSE s
    IN  Run[MaxId].tally

RunContents ==
    LET Run[n \in 0..MaxId] ==
          IF n = 0 THEN [table |-> content, tally |-> Nothing]
          ELSE LET s    == Run[n - 1]
                   free == \A k \in Ids \ {n} : s.table[k] # Fresh[n]
               IN  IF Stale(n, s.table[n])
                   THEN [table |-> IF free THEN [s.table EXCEPT ![n] = Fresh[n]] ELSE s.table,
                         tally |-> Counted(s.tally, free)]
                   ELSE s
    IN  Run[MaxId].tally

-----------------------------------------------------------------------------
(* The end of a run.                                                       *)

Active == {j \in Jobs : rule[j] = "active"}

\* Fault of Switched: the old version stays active.
SwitchedBeside(j, old) == [rule EXCEPT ![j] = "active"]

\* Version j is active in the place of the versions in old.
Switched(j, old) ==
    [k \in Jobs |-> IF k = j THEN "active" ELSE IF k \in old THEN "superseded" ELSE rule[k]]

\* Job and versions change together.
Complete(r, old) ==
    /\ job' = [job EXCEPT ![mine[r]] = Unleased(@, "completed")]
    /\ rule' = Switched(mine[r], old)

\* finish_reindex_tx on SQLite, which has one writer.
FinishReindex(r) ==
    /\ database = "sqlite" /\ pc[r] = "finish" /\ Holds(r)
    /\ Complete(r, Active)
    /\ Leave(r)
    /\ UNCHANGED <<database, link, content, source>>

\* On PostgreSQL the job is updated and locked and the active version looked up ...
BeginFinish(r) ==
    /\ database = "postgres" /\ pc[r] = "finish" /\ Holds(r)
    /\ seen' = [seen EXCEPT ![r] = IF Active = {} THEN 0 ELSE Lowest(Active)]
    /\ Goto(r, "commit")
    /\ UNCHANGED <<tables, mine, after, page>>

\* ... and if another job has switched the version since, the unique index
\* rejects this one: everything is rolled back, the error ends the process and
\* the job stays as it was.
CommitFinish(r) ==
    /\ pc[r] = "commit"
    /\ IF Active \subseteq {seen[r]}
       THEN Complete(r, Active)
       ELSE UNCHANGED <<job, rule>>
    /\ Leave(r)
    /\ UNCHANGED <<database, link, content, source>>

\* The job is another's by now, or the transaction fails: the error goes up.
FinishFails(r) ==
    /\ pc[r] \in {"finish", "commit"}
    /\ Leave(r)
    /\ UNCHANGED tables

\* Fault of MarkFailed: whoever holds the job.
MarkFailedAnyway(r) ==
    /\ pc[r] = "fail"
    /\ job' = [job EXCEPT ![mine[r]] = Unleased(@, "failed")]
    /\ Leave(r)
    /\ UNCHANGED <<database, rule, link, content, source>>

\* After an error the job is failed, if the run still holds it; the version
\* stays pending.
MarkFailed(r) ==
    /\ pc[r] = "fail"
    /\ job' = IF Holds(r) THEN [job EXCEPT ![mine[r]] = Unleased(@, "failed")] ELSE job
    /\ Leave(r)
    /\ UNCHANGED <<database, rule, link, content, source>>

MarkFailedLost(r) ==
    /\ pc[r] = "fail"
    /\ Leave(r)
    /\ UNCHANGED tables

\* reindex --abort, without regard to leases.
Abort(j) ==
    /\ job[j].state \in Unfinished /\ ~Locked(j)
    /\ job' = [job EXCEPT ![j] = Unleased(@, "aborted")]
    /\ UNCHANGED <<database, rule, link, content, source, local>>

Crash(r) ==
    /\ pc[r] # "idle"
    /\ Leave(r)
    /\ UNCHANGED tables

LeaseExpires(j) ==
    /\ job[j].lease = "live"
    /\ job' = [job EXCEPT ![j].lease = "expired"]
    /\ UNCHANGED <<database, rule, link, content, source, local>>

-----------------------------------------------------------------------------
Neighbours ==
    \/ \E i \in Ids : InsertEntry(i) \/ InsertArticle(i)
    \/ \E s \in Sources : RegisterSource(s) \/ FormerSource(s)

RunStep(r) ==
    \/ ReclaimLeases(r) \/ MaintenanceFails(r)
    \/ \E t \in Targets, j \in Jobs : StartReindex(r, t, j)
    \/ StartFails(r) \/ ClaimById(r) \/ ClaimFails(r) \/ List(r)
    \/ \E x \in page[r] : \/ SkipLink(r, x) \/ UpdateLinkHash(r, x)
                          \/ SkipContent(r, x) \/ PeekContent(r, x) \/ UpdateContentHash(r, x)
                          \/ WriteSource(r, x)
    \/ Checkpoint(r) \/ SourcesDone(r) \/ WorkFails(r)
    \/ FinishReindex(r) \/ BeginFinish(r) \/ CommitFinish(r) \/ FinishFails(r)
    \/ MarkFailed(r) \/ MarkFailedLost(r)

Next ==
    \/ Neighbours
    \/ \E r \in Runs : StartRun(r) \/ RunStep(r) \/ Crash(r)
    \/ \E j \in Jobs : Abort(j) \/ LeaseExpires(j)

Spec == Init /\ [][Next]_vars

\* A process that can take a step takes one, and time passes; that a job is
\* started, or maintenance works out, is not promised.
FairSpec ==
    /\ Spec
    /\ \A r \in Runs : WF_vars(RunStep(r))
    /\ \A j \in Jobs : WF_vars(LeaseExpires(j))

-----------------------------------------------------------------------------
(* Invariants.                                                             *)

TypeOK ==
    /\ database \in {"sqlite", "postgres"}
    /\ job \in [Jobs -> Job]
    /\ rule \in [Jobs -> {"none", "pending", "active", "superseded"}]
    /\ link \in [Ids -> [hash : Hashes \cup {NoHash}, shadow : BOOLEAN]]
    /\ content \in [Ids -> Hashes \cup {NoHash}]
    /\ source \in [Sources -> {"absent", "active", "archived"}]
    /\ pc \in [Runs -> {"idle", "reclaim", "start", "claim", "list", "work", "write",
                        "finish", "commit", "fail"}]
    /\ mine \in [Runs -> 0..MaxJobs]
    /\ after \in [Runs -> 0..MaxId]
    /\ page \in [Runs -> SUBSET ((Ids \X (Hashes \cup {NoHash})) \cup
                                 (Sources \X {"upsert", "archive"}))]
    /\ seen \in [Runs -> 0..MaxJobs]

\* However runs overlap, die and are aborted: a job has an owner and a lease
\* exactly while it runs, a target has one unfinished job at most, and a version
\* has been activated exactly if its job was completed, so a job that failed or
\* was aborted halfway never shows to a reader.
JobCoherent ==
    /\ \A j \in Jobs :
          /\ (job[j].owner # NoRun) <=> (job[j].state = "running")
          /\ (job[j].lease # "none") <=> (job[j].state = "running")
          /\ (rule[j] \in {"active", "superseded"}) <=> (job[j].state = "completed")
          /\ (rule[j] = "none") <=> (job[j].state = "absent")
    /\ \A j, k \in Jobs : {job[j].state, job[k].state} \subseteq Unfinished
                           => (job[j].target = job[k].target => j = k)

\* reindex --dry-run foretells what a run would count that nothing disturbs,
\* although the one simulates groups of ids and occupied hashes in memory and
\* the other moves row after row with all that a move does to other rows.
DryRunForetells == DryLinks = RunLinks /\ DryContents = RunContents

\* Whatever order rows are moved in, by however many runs and next to ingest,
\* every link that is known has exactly one row that counts, the oldest: no link
\* is represented by shadows only, which would let ingest store it again.
OneCanonicalPerLink ==
    \A h \in Hashes : Group(h) # {} => Canonical(h) = {Lowest(Group(h))}

-----------------------------------------------------------------------------
(* Action properties.                                                      *)

\* A version becomes active only when its job has done all its work: after a
\* link_hash job every entry with a valid link has today's hash, the rows that
\* came in meanwhile and the ones an aborted run has touched included.
SwitchedWhenDone ==
    [][\A j \in Jobs : rule[j] # "active" /\ rule'[j] = "active" /\ job[j].target = "link_hash"
          => \A i \in Ids : link[i].hash \in {NoHash, Fresh[i]} \/ Fresh[i] = NoHash]_vars

\* A job that has ended never changes again, whatever a run that has lost it
\* still attempts, and the checkpoint of a job never goes back.
EndedForGood ==
    [][\A j \in Jobs : /\ job[j].state \in Terminal => job'[j] = job[j]
                       /\ job'[j].last >= job[j].last]_vars

-----------------------------------------------------------------------------
(* Liveness.                                                               *)

\* docs/plan/05-storage.md, 8.1: a job whose lease was reclaimed is resumed from
\* its checkpoint, next time.  Nothing in the code claims a job it has not inserted.
ReclaimedJobResumes ==
    \A j \in Jobs : (job[j].state = "pending" /\ job[j].last > 0) ~> job[j].state # "pending"

-----------------------------------------------------------------------------
(* The versions of kind 'reindex' as readers see them.                     *)

Version == INSTANCE ActiveVersion WITH
              Versions  <- Jobs,
              NoVersion <- 0,
              MayReturn <- FALSE,
              active    <- IF Active = {} THEN 0 ELSE Lowest(Active),
              retired   <- {j \in Jobs : rule[j] = "superseded"}

\* The reindex flow switches the active version in one step, or not at all.
ImplementsActiveVersion == Version!Spec
=============================================================================
