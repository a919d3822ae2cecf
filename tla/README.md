# RSS-AI-News in TLA+

RSS-AI-News is a batch system: a command line program, started by an external
scheduler, that moves news through a pipeline of stages and keeps all of its
state in one database (SQLite or PostgreSQL).  Nothing stops two processes from
running at the same time, a process can die at any point, and the database is
the only thing they share, next to a branch on GitHub that other people push to
as well.  This directory holds a model of that system in TLA+, the TLC
configurations that check it on small instances, and proofs, checked by TLAPS,
of what matters for instances of every size.

## 1. Inventory

Paths are under `src/crates/`.

| Component | State it keeps | Operations | What is hard, and what makes it correct |
|---|---|---|---|
| Lease model (`storage/src/lease.rs`, and the SQL of every leased table) | state, `lease_owner`, `lease_expires_at`, `attempt_count` of a row | claim a batch, release (success, retryable, permanent), reclaim expired, sweep exhausted | Overlapping processes, slow tasks, crashes. One holder at a time; bounded attempts; a settled row stays settled; nothing stays unsettled. |
| Ingest (`runtime/src/flows/ingest.rs`, `storage/src/repo/feed_source_*.rs`) | `feed_sources` with the cursor for conditional requests, new `feed_entries`, the active configuration in `rule_versions` | rotate the configuration, register sources, fetch a feed, insert entries with de-duplication by uid and link, write the cursor | A failed insert followed by a written cursor loses entries for good; rows are read, compared and written back whole; two processes have different configurations. |
| Extract (`runtime/src/flows/extract.rs`, `storage/src/repo/feed_entry_*.rs`, `article.rs`) | `feed_entries`, `articles` | claim, fetch page, insert or find the article, settle the entry, fall back to the summary | The article and the entry are written in two transactions; de-duplication by content hash. |
| AI stage (`runtime/src/flows/ai_run/`, `storage/src/repo/article_ai_result*.rs`) | `article_ai_results`, `articles.state` | generate tasks, claim, ask the model, release | The model is asked outside any transaction; several rows of one article; two isolation levels; the article's state is derived from its rows. |
| Decision stage (`runtime/src/flows/decision_run/`, `storage/src/repo/decision_result_*.rs`) | `decision_results` | generate, claim a window, call a provider, release | A budget of calls shared by concurrent tasks; failures that give the attempt back and failures that do not; releases that arrive after the run has given up on them. |
| Publish (`runtime/src/flows/publish/`, `storage/src/repo/publish_*.rs`) | `publish_records`, `publish_items`, `articles.state` | freeze a snapshot, render, store locally, push remotely | Four stages share a lease and a budget; a remote push cannot be rolled back; a record and all its articles end together. |
| GitHub target (`publish/src/github.rs`) | a branch | look up and write one file; head, tree, commit and branch update for several | Requests are lost, resent by the HTTP library, answered with errors after they took effect; others push. |
| Backfill (`runtime/src/flows/backfill.rs`) | none of its own | reset failed entries; insert parallel AI rows | Writes next to running stages. |
| Reindex and rule versions (`runtime/src/flows/reindex/`, `storage/src/repo/reindex_job_*.rs`, `rule_version.rs`) | `reindex_jobs`, `rule_versions` | start, claim, step a cursor, switch the active version, dry run, abort | A job survives its process; rows are rewritten next to the stages that insert them; the version switches over a finished table or not at all. |
| Doctor (`runtime/src/doctor/`) | none | read-only checks and scans | What its scans look for across tables are the invariants the stages must keep. |
| Command line and configuration (`cli/src/commands/`, `config/`) | files, environment, exit codes | check, open, migrate, run the stages over categories | The checks are spread over loader, commands and stages; one category's failure may not stop another; the exit code must be true. |
| Migrations (`storage/src/migrate.rs`) | the list of applied migrations | apply in order, refuse a newer database | Programs of several releases; SQLite has no lock around the list. |
| Clients and parsers (`feed`, `extractor`, `ai`, `decision` providers), report rendering | none | network, text | Outcomes of the stages' calls. |
| Pool, run events, artifacts, metrics | append-only rows | | No stage reads them. |

**How they interact.**  The stages never call each other.  Ingest creates
entries, extract creates articles (`persisted`); the AI stage creates a row per
article and version and moves the article to `ai_pending`, then to `ai_done`,
`ready_for_publish` or `publish_skipped`; publish freezes ready articles and
takes them to `published`; the decision stage reads articles and writes only its
own table.  Every table that is worked on row by row uses the same lease model,
and every stage starts by reclaiming expired leases and sweeping exhausted rows
of its table.  Reindex rewrites rows of ingest and extract while these go on.

## 2. Modules

| Module | Models | Composes |
|---|---|---|
| `LeaseQueue` | What a leased table promises, without leases, clocks or transactions: `phase`, `holder`, `tries` of a row; `Enqueue`, `Take`, `Settle`, `GiveBack`, `Evict`, `Discard`, `Reopen`. | implemented by `AiRun`, `Extract`, `Decision` |
| `Delivery` | What the publish stage promises (`docs/adr/0003`, `docs/plan/08-state-machines.md` 6 and 7): where a report stands, the articles frozen into it, the articles that have gone out. | implemented by `Publish` |
| `ActiveVersion` | What `rule_versions` promises its readers for one kind: the active version is replaced in one step, and the replaced one stays so, or returns where the kind allows it. | implemented by `Ingest` (kind `config`) and `Reindex` (kind `reindex`) |
| `Ingest` | The ingest stage in overlapping processes with their configurations. | the rotation, the sources, the feeds; `reindex --target categories` as a neighbour |
| `Extract` | The extract stage and `backfill --target extract`. | ingest as a neighbour |
| `AiRun` | The AI stage and `backfill --target ai`, on either database. | extract and publish as neighbours |
| `Decision` | `decision-run` in overlapping processes. | |
| `Publish` | The publish stage and its two commands. | AI stage and backfill as neighbours |
| `GitHub` | The remote target, request by request, under the records of the remote stage. | the detail behind `Push` of `Publish` |
| `Reindex` | Reindex jobs, their runs, dry run and abort. | ingest and extract as neighbours |
| `Config` | What a configuration is checked for, by loader, commands, stages, `validate-config` and doctor. | |
| `Commands` | All commands on one database: checks, migrations, stages, exit code. | `Config`; the stages as outcomes |
| `MC...` | Instances, bounds and symmetries for TLC. | |
| `...Proofs` | Theorems and their proofs. | |

### AiRun

`art[a]` is `articles.state`, `res[k]` the row of `article_ai_results` with
idempotency key `k` (an article and a version, which stands for prompt version,
output schema and model).  `pc[r]`, `todo[r]`, `tasks[r]`, `deferred[r]` are the
local state of an `ai-run` process: where it is in `task_gen` and
`process_ai_tasks`, the candidates it read and has not inserted yet, the claimed
rows whose tasks have not been joined, and whether the batch counted a retryable
failure.  `tx[k]` is a PostgreSQL release transaction that is open on row `k`.

| Action | Code |
|---|---|
| `TaskGenList`, `TaskGenInsert`, `TaskGenDone` and their failures | `task_gen`: one page of candidates, one transaction per candidate (`insert_pending_and_advance_article`), a failed candidate is skipped, a failed query ends the phase |
| `ReclaimLeases`, `SweepLeases`, `MaintenanceFails` | the maintenance at the head of `process_ai_tasks`, best effort |
| `ClaimPending`, `EndBatch`, `EndRun` | the claim loop; `EndBatch` stops the run when the batch had a retryable failure |
| `ReleaseSuccess` | `sqlite_release_success_and_advance`: one step, because SQLite has one writer |
| `BeginRelease`, `CommitRelease` | `pg_release_success_and_advance`: the guarded update and the reads, then the article's update and the commit.  Between the two, other transactions commit |
| `ReleaseRetryable`, `ReleasePermanent` | `release.rs`; the budget is folded into the retryable release |
| `TaskLost` | a task panics, or its release fails in the database |
| `Crash` | the process dies; open transactions roll back, leases stay |
| `LeaseExpires` | time passes `lease_expires_at` |
| `BackfillInsert` | `backfill --target ai`, one candidate |
| `PersistArticle`, `PublishArticle` | the neighbouring stages, reduced to what they do to `articles.state` |

**Abstractions.**  There is no clock: a lease is live or expired, and it may
expire at any moment, also under a task that is merely slow.  A process slot's
name stands for the owner id; the code makes a fresh one for every process
(`build_owner_id`), and a slot that starts again has no tasks left, so no old
owner id is ever presented.  The model's answer is a choice: filtered (no
score), or kept with one of `Scores`.  Concurrency inside a batch is the
interleaving of its tasks, which is more than `concurrent_fetches` allows.  A
claim takes any set of claimable rows, not the first by `created_at`: the order
is not what any property is about.  One category is modelled.

### Extract

`entry[e]` is the row of `feed_entries`; `origin[h]` the
`origin_feed_entry_id` of the article with content hash `h`, the unique key of
`articles`.  `pc[r]`, `tasks[r]`, `deferred[r]` are as in `AiRun`; `found[r][e]` is
what a task holds between its two transactions: the article it has stored or
found, and the state it is about to release the entry to.

| Action | Code |
|---|---|
| `InsertEntry` | the INSERT of the ingest stage |
| `StartRun`, `ReclaimLeases`, `SweepLeases`, `MaintenanceFails`, `ClaimPendingFetch`, `EndBatch`, `EndRun` | `ExtractFlow::run` |
| `PersistArticle` | `process_entry` up to the first commit: the page was extracted, or failed for good and its summary has to do; `insert_or_get_by_content_hash` inserts the article or finds the one with the same hash |
| `ReleaseArticle` | the second commit: `release_success`, `release_fallback_persisted` or `release_dedup_skipped` |
| `ReleaseRetryable`, `ReleasePermanent` | `release_extract_error`, `release_permanent_failure` |
| `TaskLost`, `Crash`, `LeaseExpires` | as in `AiRun` |
| `ResetFailed` | `backfill --target extract`: one statement over the failed entries of a window; the window is any set of them |

Both dialects have the same statements here and no transaction has two steps
that could see different states, so one model serves both.  Which content a
fetch yields is a choice, and a new one every time.

### Ingest

A feed is an endpoint (URL and kind) that shows a set of entries and replaces it
from time to time; the cursor `<<u, v>>` stands for the ETag and Last-Modified
that endpoint `u` sent with version `v`.  `source[s]` is the row of
`feed_sources`, `entry` the pairs of source and uid in `feed_entries`, `rule[c]`
the status of configuration `c` in `rule_versions`.  `task[p][s]` is a process's
work on a source: the row it has read or will write, what is left of the feed,
the cursor to store at the end.

The cursor is stored by the row's id alone (`feed_source_sql.rs:134`), so a slow
task of one configuration stores the cursor of its endpoint on a row that another
process has moved to a new URL, and the next request takes it there (`Foreign`).
An endpoint may mistake such validators for its own, If-Modified-Since being but a
date; the history variable `mistaken` records it, and `CursorAfterEntries` excuses
exactly the version whose entries that 304 has hidden.

| Action | Code |
|---|---|
| `NoChange`, `RotateConfig` | `rotate_active_config`, one transaction on SQLite |
| `BeginRotation`, `CommitRotation`, `RetryRotation`, `StartFails` | `pg_rotate_active_config_once`: demote what is seen, activate; a conflict with the unique index is retried once |
| `FindSource`, `Upsert`, `ReadBack`, `ResolveFails` | the main loop: find the row, write it back with every column if the configuration differs, read it again |
| `Fetch`, `NotModified`, `FetchFails` | the conditional request, with whatever cursor the row has; a 304 to the endpoint's own validators or to foreign ones, which may leave the validators out |
| `Insert`, `InsertFails`, `AllInserted` | `process_entries`, `insert_deduplicated`: a known uid or link is passed over, the first error ends the insertion |
| `SaveSuccess`, `SaveFailure`, `TaskEnds` | the update of the source at the end of a task |
| `FeedChanges`, `ReindexSource`, `Crash` | the world around it |

### Decision

`row[k]` is the row of `decision_results` of an article under a configuration,
`late` the releases that nobody waits for any more.  Of a run, `plan[p]` is what it
was called with (configuration, categories, `max_requests`), `pc[p]` and `turn[p]`
are its place in its steps and in its rounds, `skipped[p]` the categories that are
idle or paused, `calls[p]` and `stop[p]` its calls and why it stops, and `task[p]`
its open window.  A run purges expired raw responses, reclaims
and sweeps per category, then goes round the categories: claim a window of at
most `concurrency` rows within the budget, generate rows if there are none, send
every one, join all of them.  Every error class of the provider is an action
with its release mode (`charge`, `permanent`, `refund`) and its stop.

### Publish

`rec[k]` is the row of `publish_records` with idempotency key `k`, a category and an
edition; an edition stands for a report date and a render version (`--force` makes
a new one).  `items[k]` are the articles of its `publish_items`, `art[a]` is
`articles.state` and `ai[a]` what `article_ai_results` has of the article (no row, a
row, a result that is kept and above the threshold).  `stored` and `pushed` are
the reports the local and the remote target have; nothing ever reads them, they are
there so that the database's word can be compared with the world.  `pc[r]`,
`stage[r]`, `todo[r]`, `batch[r]`, `at[r]`, `held[r]`, `cand[r]`, `promote[r]` are the
local state of a `publish` or `publish-all` process.

| Action | Code |
|---|---|
| `StartRun`, `InitRecord`, `InitFails`, `RemoteStage`, `EndRun` | `commands/publish.rs`, `commands/publish_all.rs`: init of every category's record, its local stages, then one remote stage.  `publish` is the command with one category |
| `EnterStage`, `LeaveLocal`, `GiveUpStage`, `Finished` | the control of `run_local_stages` and of a batch: the next stage, the end of the local stages, the end of the command |
| `ReclaimLeases`, `SweepLeases`, `MaintenanceFails` | `run_publish_maintenance`, at the head of every stage |
| `ClaimByIds`, `NothingClaimed` | `claim_publish_by_ids`; on PostgreSQL a locked row is skipped |
| `LoadCandidates`, `ReleaseEmptySnapshot`, `FreezeSnapshot`, `FreezeFails` | `freeze.rs` and `freeze_snapshot`: the candidates are read before the transaction that promotes, inserts the items and moves the record |
| `Render` | `render.rs`: the report is rendered to see that it can be |
| `WriteLocal`, `StoreLocal`, `StoreLost` | `store_local.rs`: write the target, then release; a record without a remote target is published by this release |
| `Push`, `PublishRemote`, `PublishLost` | `remote.rs`: one commit for the batch, cut off at the deadline; then one release per record |
| `StageFails` | the failure releases of the four stages: retryable (targets and the deadline), permanent, or lost in the database |
| `TerminalAdvance` | `release_terminal_advance_with_articles`: the record and all its articles in one transaction |
| `CreateAiTask`, `KeepResult`, `BackfillInsert` | the AI stage and backfill, reduced to what the two candidate queries see |

Which candidates a query returns is any subset of those it may return: the time
window, the threshold and `max_items` may leave any out.  A target's call happens
or not, and is reported as a success only if it happened; everything else,
the deadline included, is an error.  Every transaction is one step on both
databases: freeze and the terminal advance read nothing they have not locked by
an update whose `WHERE` decides.

### GitHub

`history` is the branch, a sequence of commits with their author and files;
`push[p]` a call of `publish` (contents API: `Lookup`, `PutFile`) or
`publish_many` (git data API: `HeadCommitAndTree`, `UpdateBranchRef`,
`BranchMoved`, which starts over once), and then the releases of its records
(`Settle`); `late` the requests under way whose sender was cut off by the
deadline or died.  A request that was served may be answered, answered with an
error, or not at all, after which the HTTP library sends it once more.  The
server is modelled from what the client relies on: a file is written only over
the version named, and the branch moves only forward.

### Reindex

`job[j]` is a row of `reindex_jobs`, `rule[j]` the status of the version it is
to activate; `link`, `content`, `source` are the link hashes of `feed_entries`
with their shadow flags, the content hashes of `articles`, the status of
`feed_sources`.  A hash is a choice per row: `Fresh` is what today's algorithm
makes of it.  `ReclaimLeases`, `StartReindex`, `ClaimById`, `List`, the row steps
of the three targets, `Checkpoint`, the end (`FinishReindex` on SQLite,
`BeginFinish` and `CommitFinish` on PostgreSQL) and `MarkFailed` are
`ReindexFlow::run` and `execute`; `Abort` is `--abort`; `DryLinks` and
`DryContents` are `--dry-run`, folds over the rows, and `RunLinks` and
`RunContents` what an undisturbed run does with the same rows.

### Config and Commands

`Config` is a set of predicates over a configuration and an environment:
`Structural` (every command), `SourcesReady`, `AiReady`, `Credentials`,
`PublishReady`, `DecisionProvided`, `EnoughToAsk` (the stages), `Validated`
(`validate-config`), `DoctorAccepts` (doctor), `DatabaseReady` (DATABASE_URL against
the driver, wherever a database is opened), the path templates and the lease budget
of a category.
A value whose range alone is checked is in `sane`.

`call[i]` is an invocation of the program with its arguments, configuration,
environment and the migrations it was built with; `applied` and `lock` are
sqlx's list and lock; `job` says that a reindex job is under way; `reports` are
the paths written.  `Start` refuses or enters; `OpenForReading`, `Gate`, `Open`,
`Migrate`, `Migrated` are the storage; `Ingest`, `AiCategory`,
`PublishPreflight`, `PublishRules` (the target and the active rules, which fail for
all categories at once), `PublishCategory`, `PublishBatch`, `Work`, `Reindex` the
stages as outcomes; `OpenForDoctor`, `Doctor`, `DeepScan` the checks of doctor.

A `decision-run` prepares (`PrepareDecisions`), gives each category that asks its
first window (`DecideCategory`) and goes on in rounds (`LaterRounds`).  The tasks of
a window may meet several of the three stops at once, and the run ends with the
worst: 78 if the provider refuses the configuration or the credentials, after the
database was opened, migrated and written; 1 for anything else; 0 for a rate limit
alone, although categories may be left (`docs/adr/0011`, 10).  The properties name
these exits instead of promising more than the code does: `ExitIsTrue` allows a 0
after a rate limit and asks for 78 after a refusal, `RefusedLeavesNoTrace` is about
what a command's own checks refuse, and `ValidatedIsRunnable` lists what
`validate-config` does not look at.

`Refusal` is what a command's checks say before a database is opened, in the order
of the code: the flags (`--dry-run`, `--category`, `--abort`), the loader, the
command's own checks, DATABASE_URL.  "reindex --dry-run" is a dry reindex with either
of the two flags of that name; `rebuild-report` is called without `--output`.

## 3. What TLC checks

| Run | Instance | Shows |
|---|---|---|
| `ai_postgres` | 1 article, 2 versions, 2 runs, 2 attempts, scores below and at the threshold, backfill, READ COMMITTED | `OpenReleaseHoldsItsRow`, `ArticleStateJustified` (doctor's rules across the two tables), `ArticleMovesForward`, and the refinement of the leased queue. |
| `ai_live` | 2 articles, 1 version, pages of 1, 2 runs, 2 attempts, no backfill, fairness | `EveryArticleGetsATask`, `EveryTaskSettles`; `ArticleIsDerived`: an article has at most one row and its state is exactly what the row says. |
| `extract` | 2 entries that may yield the same content, 2 runs, 2 attempts, backfill, fairness | `StoredEntryIsOrigin`, `EveryEntrySettles`, and the refinement of the leased queue. |
| `publish` | 1 category of 1 article, 2 editions, 2 processes, 4 attempts, AI on or off, backfill; bounds below | `PublishedOnce`, `PublishedWasDelivered`, `AdvancedByOwner`, and the refinement of the delivery. |
| `reindex` | 2 jobs, 2 rows, 3 hashes, 2 sources, 2 runs, batches of 1, both databases | `JobCoherent`, `OneCanonicalPerLink`, `DryRunForetells`, `SwitchedWhenDone`, `EndedForGood`, and the refinement of the active version. |
| `ingest` | 2 processes, 2 configurations, 1 source, 2 endpoints of which one changes, 4 entries of which two share a link and one has none, one mistaken 304, both databases | `CursorAfterEntries`, `OneEntryPerLink`, and the refinement of the active version. |
| `decision` | 2 processes, 2 articles of the first of 2 categories, budgets of 1 and 4 calls, windows of 2, 2 attempts | `CallsAreCharged`, `CallsWithinBudget`, `FirstWindowForAll`, and the refinement of the leased queue. |
| `github` | 2 reports, 1 other file, 1 edit by others, 2 processes, 2 attempts, 5 commits | `PublishedIsOnBranch`, `CommitIsOneWholeBatch`, `OverwritesOnlyWhatItRead`; its `TypeOK` also says that no call is under way for a record that another process holds. |
| `commands` | all commands, 19 configurations on either driver, 4 environments, 4 kinds of DATABASE_URL, `--dry-run`, 2 calls, 2 releases, both databases | `ExitIsTrue`, `OneCategoryStopsNoOther`, `RefusedLeavesNoTrace`, `ValidatedIsRunnable`, `WorksOnItsSchema`, `DaysNeverShareAPath`. |
| `ai_lost_keep` | as `ai_postgres` | `KeptArticleNeverSkipped` violated, see findings. |
| `publish_dead_end` | 1 report, 3 attempts, AI off | `ExhaustedOnlyByReclaim` violated, see findings. |
| `reindex_resume` | 1 job, 1 run, fairness | `ReclaimedJobResumes` violated, see findings. |

`LeaseQueue`, `Delivery` and `ActiveVersion` have no run of their own: the runs above
check that the detailed modules implement them, and what `LeaseQueue` and
`ActiveVersion` promise is proved from their specifications.

**Bounds.**  Two processes are enough for every race the code has between
processes: one works, the other reclaims, claims and releases.  Two attempts let a row
fail, come back and use up its budget.  Two versions make two rows of one article, which
is what the article's state is derived from; a third would only repeat the
second.  Articles interact only through the page of candidates, so the run that
is about pages has two and the others one.

* `publish`: a remote record needs four claims, one per stage, so there are four
  attempts: enough for the whole life, and a failure anywhere leads to the
  budget's end.  The constraint `Bounds` explores the states in which several runs
  meet over one record (`OverlapOnOneRecord`), and those in which two records
  compete for the articles of their category, one run after the other, when the
  AI stage is done (`TwoRecordsCompete`): records outlive their run, it crashes,
  and its successor takes them up in any order.
* `reindex`: `OneTable` lets a history fill one of the three tables; jobs of the
  other targets find nothing to do but still compete for the active version.
* `ingest`: `AloneOnSqlite`, because SQLite's rotation is PostgreSQL's with
  nothing in between and the rest is the same statement by statement.
  `OneMistake`: one version of a feed is lost to a mistaken 304; each is excused by
  itself.
* `decision`: `SmallOverlap`: runs that overlap have one category and one call
  each, and one release at a time is late; a run that is alone has two categories
  and four calls.
* `github`: `FewCommits`: five commits, one of them the first, and one request
  that nobody waits for.
* `commands`: `VariantsRunAlone`: only calls with a good configuration meet
  another call, since configurations do not interact.

Where a run has `SYMMETRY`, its properties compare the permuted values for
equality only, and it checks no liveness.

**Fairness.**  `FairSpec` of `AiRun` and `Extract` assumes that the scheduler keeps
starting runs and that time passes; that a run that can take its next step takes it
(tasks are bounded by the request timeout); and that a step a run attempts over and
over does not meet a database error or a crash every single time (strong fairness).
Of the model's answers nothing is assumed: every release may be a retryable
failure, and every task may be lost.  Backfill, extraction, publication and
crashes have no fairness.  `EveryEntrySettles` is about entries that backfill does not
reopen for ever.  `FairSpec` of `Reindex` assumes that a process that can take a step
takes one and that time passes; the violation needs no more.

Deadlock is checked wherever some process can always start; not in `github` and
`commands`, whose bounded number of attempts and calls comes to an end.

## 4. What is proved

The proofs hold for all sets of articles, versions, entries, hashes, runs,
feeds, files and scores and for every budget and batch size, on both databases,
from the assumptions on the constants alone (`LeaseQueueAssumption`,
`AiRunAssumption`, `ExtractAssumption`, `PublishAssumption`, `IngestAssumption`,
`GitHubAssumption`, `DecisionAssumption`, `ReindexAssumption`,
`CommandsAssumption`: the null values are not runs, entries, hashes or
processes, the numbers are naturals, the switches Booleans; for the decision
stage there is a configuration and a category, and the articles are a finite set
of numbers; for the command line the categories of a configuration are a list, and
every release has at least one migration).  One theorem,
`CommandsDaysNeverShareAPath`, also needs `PathAssumption`: templates are lists of
words, and a date is a year, a month and a day.

Every property that a passing run checks is proved here as well, but for the
three liveness properties.

* What `LeaseQueue` and `ActiveVersion` promise is proved from their own
  specifications, for tables of any size: `LeaseQueueTyped`, `LeaseQueueHeld`,
  `LeaseQueueDoneIsFinal` at the end of `ExtractProofs`, `ActiveVersionIsCurrent`,
  `ActiveVersionRetires` at the end of `ReindexProofs`.  With the refinements they
  become properties of the stages: `ExtractQueueHeld`, `AiRunQueueHeld`,
  `DecisionQueueHeld` (no row is handed out beyond its budget), `...QueueDoneIsFinal`
  (a settled row stays settled, unless an operator reopens it),
  `IngestReadersGetCurrent`, `ReindexReadersGetCurrent` and
  `ReindexRetiredForGood` (readers get one version and no superseded one).
* `AiRunTyped`: `TypeOK` is inductive as it stands.
* `AiRunLeaseCoherent`, `AiRunResultIsFinal`, `AiRunExhaustedOnlyByReclaim`:
  from one lemma, `RowSteps`, which says what a step can do to one row.
  `LeaseCoherent` is inductive relative to `TypeOK`.
* `AiRunOpenReleaseHoldsItsRow`: inductive with `LeaseCoherent`; the reclaim is the
  only step that could take the row away and it waits for the row lock.
* `AiRunArticleMovesForward`, `AiRunArticleStateJustified`: from `ArticlesStep`, which
  says what a step can do to one article and which row backs it.  The
  strengthening is `OpenReleaseHoldsItsRow`: it ties the advance a PostgreSQL
  transaction has computed to the score it is about to store.
* `AiRunKeptArticleNeverSkipped`: on SQLite only.  An article is `ai_done` only if a row
  has succeeded (`ArticleStateJustified`), and the release that would skip it sees
  that row.
* `AiRunArticleIsDerived`: without backfill.  The strengthening adds that a row under an
  open transaction is the only row of its article, so what the
  transaction read is still true when it commits.
* `AiRunImplementsLeaseQueue`: the refinement, step by step.
* `ExtractTyped`, `ExtractEntryCoherent`, `ExtractSettledOnce`,
  `ExtractExhaustedOnlyByReclaim`: as for the AI stage, from `EntrySteps`.
* `ExtractStoredEntryIsOrigin`: not inductive by itself, because the release trusts
  what the task found in an earlier transaction.  The strengthening
  `FindingsSound` says that what a task holds in its hands is true, and
  `ArticlesStay`, that no hash is ever taken from its entry, keeps it true.
* `ExtractImplementsLeaseQueue`: the refinement; the reset of backfill is the
  reopening of settled rows, which the queue allows where an operator may do it.
* The publish stage: one lemma, `EveryStep`, says what a step does to the records:
  nothing but leases and attempts, one is created, some fail, one is frozen, one
  goes to its next stage, one is published.  The six theorems follow from it.
  * `PublishTyped` and `PublishRecordCoherent` are inductive together: that an empty
    snapshot can give an attempt back needs that a leased record has used one, and
    that nobody claims beyond the budget is the type of the attempts.
  * `PublishAdvancedByOwner`: the three forward steps have the record in the hands of
    their process.
  * `PublishPublishedOnce`: inductive with `RecordCoherent`, because only a pending
    record gets items, and the terminal release publishes only articles that no
    published record has.
  * `PublishWasDelivered`: the strengthening `HandsFull` says that a process about to
    release has done what the release will say.
  * `PublishImplementsDelivery`: the refinement, from the same lemma.
* The ingest stage.
  * `IngestTyped`: inductive with `Grounded`, which ties a process to a configuration
    and its tasks to endpoints that exist.
  * `IngestCursorAfterEntries`: inductive with `HandsTrue`, which says the same of
    the cursors in the hands of a task: the one it has read has nothing behind it,
    and the one it is about to write has at most the entries left to insert, none
    when it writes.  Entries are never deleted, so both stay true while others
    write the row, with the cursor of another endpoint too; a 304 to foreign
    validators is the one step that does not keep it, and it is on record.
  * `IngestOneEntryPerLink` is inductive: the insertion looks the link up in the
    statement that inserts.
  * `IngestImplementsActiveVersion`: the strengthening `OneActive` says that at
    most one configuration is active; the unique index is what keeps it when two
    rotations of PostgreSQL commit one after the other.
* The GitHub target.  The inductive invariant has four parts: the types; `Held`, that
  a call holds the records of its batch; `RequestsSound`, that a branch update which
  is under way, or late, carries the files of the head it was built on; and
  `MarksTrue`, that every commit a call has been told of is on the branch with its
  reports.  All that is said of the branch survives because it only grows
  (`GrownKeeps`).  `GitHubTyped` and `GitHubPublishedIsOnBranch` follow from it.
  For `GitHubCommitIsOneWholeBatch` and `GitHubOverwritesOnlyWhatItRead`, `WhoPushes`
  says where a new commit can come from: an edit from outside, or one request of one
  process, which adds its reports to the files at the head and has seen what it
  replaces (`PutAdds`, `RefAdds`).
* The decision stage.
  * `DecisionTyped` and `DecisionImplementsLeaseQueue`: one lemma, `EveryStep`, says
    what a step does to the rows (claim, generate, reclaim, sweep, release, expire),
    whichever of a run's steps or late releases makes it.
  * `DecisionCallsAreCharged`: the inductive invariant counts who holds a row
    together with who may still call about it (`AllCharged`), because a run whose
    lease was taken away keeps its charge until its task ends.  A late release could
    take that charge back too early; `LateIsOver` says that its run has stopped and
    does not claim again, which is why the task it belongs to is closed.
  * `DecisionCallsWithinBudget` and `DecisionFirstWindowForAll`: the invariant
    `InBudget` adds the unsent tasks of the open window to the calls, and says that
    before its n-th category of the first round a run has spent at most n - 1
    windows.  That a window is no larger than its bound (`FirstOfBound`) is a
    counting argument about the ordering of the claim statement.

* The reindex flow.  The inductive invariant `Inv` has five parts: the types;
  `JobsFit`, that the jobs are `JobCoherent`, a row that is not there is blank, and
  one version is active at most; `Apart`, that no two runs work on the same job;
  `RunsFit`, what a run knows of its job and its page (`RunFits`, `PageFits`) and
  that all rows up to its cursor are done, those of its page excepted
  (`LinksDone`); and `LinksFit`, that ids have no gaps and a row is a shadow
  exactly if an older one has its hash.
  * `ReindexTyped`, `ReindexJobCoherent` and `ReindexOneCanonicalPerLink` follow.
  * `ReindexSwitchedWhenDone`: `LinksDone` is the strengthening.  It holds next
    to other writers because whoever changes a hash gives the row today's, and
    because new rows come with it; with an empty page it says the table is done
    (`EmptyBatchIsTheEnd`).
  * `ReindexEndedForGood`: the checkpoint is never ahead of the cursor of the run
    that holds the job.
  * `ReindexImplementsActiveVersion`: `RuleMoves` says that versions change by
    the end of a job and nothing else; `OneActive` is what the unique index of
    PostgreSQL keeps when two jobs commit one after the other.
  * `ReindexDryRunForetells`: the simulation in memory and the run on the tables
    agree after each row (`LinksAgree`, `ContentsAgree`): the groups are those of
    the table, the hashes in use those of the articles.  The second needs that no
    two articles share a hash, which is an invariant of its own
    (`ContentUniqueHolds`).  `Recursion` and `Induction` are proved from the least
    element of a set of naturals, so that no library theorem with an operator
    parameter is needed.
* The command line.  The inductive invariant is `SchemaFits`, that a call which
  works has found its migrations applied and the lock is held by one that
  migrates, together with `CallFits`, what a call has met in each stage it has
  been through: which codes it has collected, and for which categories.  A
  `decision-run` has met no stop before the step that ends it (`Unstopped`), so its
  code is that of the stops of one window (`StoppedFits`).
  * `CommandsExitIsTrue`, `CommandsOneCategoryStopsNoOther`,
    `CommandsRefusedLeavesNoTrace`, `CommandsValidatedIsRunnable` and
    `CommandsWorksOnItsSchema` follow from it.
  * `CommandsDaysNeverShareAPath`: the invariant `Reports` says that every report was
    written by a configuration the loader had accepted.  Its template names the
    year, the month and the day, and since what a word of a template becomes has the
    same length on every day (`WordsAre`), two equal paths have been put together
    from equal pieces (`SamePieces`).

**Model-checked only.**  Liveness (`EveryTaskSettles`, `EveryArticleGetsATask`,
`EveryEntrySettles`, and the violated `ReclaimedJobResumes`): temporal reasoning
under fairness is out of the prover's reach.  The two other violated statements
are refuted by their runs.

## 5. Findings

1. *A kept article can be skipped on PostgreSQL* (`ai_lost_keep`).  Two releases of the
   same article, one kept and one filtered, overlap: the filtered one does not see
   the other's uncommitted success, computes `publish_skipped`, and its guarded
   update still applies after the success has committed `ai_done`.
2. *A success can be a record's last act* (`publish_dead_end`).  All four stages of
   a record share `publish_max_attempts`, and a success keeps the count.  A record
   that succeeds in its last attempt enters its next stage with no attempt left: no
   claim takes it, and the next maintenance fails it.  With three attempts a
   remote record never gets through, without a single failure, and validation
   accepts one, two and three.  `docs/plan/15-retry-exhaustion-and-reclaim.md` 2 and
   3.3 say that no flow can leave such a row.
3. *A reclaimed reindex job is never resumed* (`reindex_resume`).  The reclaim keeps
   the checkpoint, and `docs/plan/05-storage.md` 8.1 says the next round resumes from
   it; but a run claims only the job it has just inserted, and cannot insert one while the
   reclaimed job holds its target.  An operator has to abort it, and the next job starts
   from the first row.

**Observations** made while modelling, without a run of their own:

* Task generation can starve: it reads one page of persisted articles, always from
  the first id, and an article whose key backfill has already inserted stays
  `persisted` at the head of the page (`docs/plan/03-ai.md:191`).
* `docs/plan/11-error-and-recovery.md:209` says that an article and its entry are
  written in one transaction; they are two (`extract.rs:514`).  After a crash in
  between, the entry is fetched again and is skipped as a duplicate of its own
  article, or stores a second article when the page has changed.
  `EveryEntrySettles` and `StoredEntryIsOrigin` show that no entry is lost by it.
* The cursor of a source is stored with `WHERE id = $6` and no guard on its URL
  (`feed_source_sql.rs:134`).  A slow task of one configuration stores the validators of
  the old URL on a row that another has moved to the new one; the next request
  sends them there, and if that server takes the date for its own, the entries of that
  version are never stored (`Foreign`, `mistaken`).
* `validate-config` accepts an environment in which every command that opens the
  database ends with 78, because only those look at DATABASE_URL (`db_url.rs:16`).
* A 304 overwrites the stored validators with whatever the response carries, also with
  nothing (`docs/acceptance-cases/pipelines/01-feed-ingest.md:16`); the next
  request is then unconditional.
* The second 422 of a contested branch update ends a batch for good, although the
  branch has merely moved twice
  (`docs/acceptance-cases/pipelines/04-publish-local-and-github.md:34`).
* Two categories whose templates collide only on some days pass validation, which
  renders the sample date 2026-01-03 (`checks.rs`, `docs/plan/04-publish.md:150`).
* `migrate run` refuses while a reindex job is under way; every other writing command
  migrates without asking (`docs/operations/docker-and-scheduler.md:81`).
* With AI off, the candidate query also returns articles that are already
  `ready_for_publish`, but the freeze promotes every such candidate from
  `persisted`: an article frozen by an earlier report makes the whole freeze
  fail, and the record keeps its lease until it runs out.
* Of two remote reports with a common article both are pushed, but only the first
  becomes `published_remote`; the other ends `failed` although the target has it.
* `doctor --deep` reports a violation for an article that was published without an AI
  result and that `backfill --target ai` has given a row afterwards
  (`deep_scan.rs`, `docs/operations/troubleshooting.md` 8).

## 6. Not modelled, and why

Text formats, rendering, prompts and HTTP parsing are a choice of outcome in the flows.
The connection pool, metrics and the append-only `run_events` and artifacts are read by
no stage.  Thresholds of doctor's health queries are left open.  Smaller things each
module leaves out:

* `Ingest`: failure counters and the configuration stamp on a source, which nothing
  reads back here; sources paused by hand.
* `Decision`: policy snapshots and events; the release of a row whose article is missing
  (`task.rs:196`), which the foreign key of `decision_results` keeps from happening; runs
  whose identity differs are other configurations.
* `GitHub`: path joining; errors while a batch is prepared, before any request.
* `Commands`: output formats, argument syntax; the details of `backfill` and `replay`;
  all reindex calls name one target; that a program which has started may go on
  while a newer one migrates is allowed, as in the code.

Liveness of `Publish` is not stated: claims are bound to the record of the
command's date, so a record left behind by a failed run is taken up again only if an
operator names it, and no fairness of the scheduler leads there.  A composition of all
stages in one state space is not needed for the cross-table rules: each module has its
neighbours' effects on its tables.
