------------------------------ MODULE Commands ------------------------------
(***************************************************************************)
(* The commands of rss-ai-news on one database: what each checks before it *)
(* opens the database, the migrations it applies or asks for, the stages   *)
(* it runs and over which categories, what a failure of one of them does   *)
(* to the others, what doctor checks, and the exit code.                   *)
(*                                                                         *)
(* What the stages do is in Ingest, Extract, AiRun, Decision, Publish and  *)
(* Reindex; here a stage has an outcome.  Commands overlap and are killed. *)
(* Programs of several releases meet at one database, each with the        *)
(* migrations 1..n it was built with; sqlx applies them in order.          *)
(***************************************************************************)
EXTENDS Config, FiniteSets

CONSTANTS
    Invocations,    \* calls of the program
    NoOne,
    Configs,        \* the configurations, by name
    Setups,         \* with what each invocation may be called
    Latest          \* the number of migrations of the newest program

\* The categories of a configuration are a list, and each release has its
\* migrations 1..bin, one at least.  A dry reindex is the command "reindex
\* --dry-run", and rebuild-report is called without --output.
ASSUME CommandsAssumption ==
    /\ NoOne \notin Invocations /\ Latest \in Nat
    /\ \A i \in Invocations : \A s \in Setups[i] :
          /\ s.bin \in 1..Latest
          /\ s.cmd = "reindex" => ~s.dry
          /\ LET cats == Configs[s.cfg].cats IN cats \in Seq(ToSet(cats))

\* Templates are lists of words, and a report is made for a date.
ASSUME PathAssumption ==
    \A i \in Invocations : \A s \in Setups[i] :
        LET c == Configs[s.cfg] IN
        /\ s.day = [y |-> s.day.y, m |-> s.day.m, d |-> s.day.d]
        /\ c.template \in Seq(ToSet(c.template))
        /\ \A cat \in ToSet(c.cats) :
              cat.template # Inherit => cat.template \in Seq(ToSet(cat.template))

VARIABLES
    backend,        \* the database: on PostgreSQL migrations exclude each other
    applied,        \* _sqlx_migrations: 1..applied
    lock,           \* who holds the lock of the migrations
    job,            \* a row of reindex_jobs is pending or running
    reports,        \* the reports that were written: path, category, day, configuration
    call            \* the invocations

vars == <<backend, applied, lock, job, reports, call>>

-----------------------------------------------------------------------------
\* Fault of Worst: the code of a runtime error hides the others.
WorstFirst(codes) == IF 1 \in codes THEN 1 ELSE CHOOSE x \in codes \cup {0} : \A y \in codes : y <= x

\* ExitCode.as_i32 orders the codes.
Worst(codes) == CHOOSE x \in codes \cup {0} : \A y \in codes : y <= x

Readers == {"recent-entries", "replay", "rebuild-report", "reindex --dry-run"}
Doctors == {"doctor", "doctor --deep"}
Workers == {"backfill", "reindex", "reindex --abort"}

\* The global --dry-run would be ignored by the others.
TakesDryRun == Readers \cup {"validate-config", "reindex --abort"}

CfgOf(s) == Configs[s.cfg]
CatsOf(s) == Selected(CfgOf(s), s.filter)
Keys(s) == {cat.key : cat \in ToSet(CatsOf(s))}

\* --max-requests, or the budget of the configuration.
RequestsOf(s) == IF s.requests = Inherit THEN CfgOf(s).decision.requests ELSE s.requests

\* A batch of the category is through before the lease of its rows expires.
FitsItsLease(s, cat) == AiLeaseBudget(CfgOf(s), cat, s.batch) <= CfgOf(s).lease

\* Fault of LoneCredentials: every category is looked at in its turn.
LoneCredentialsLater(s) == TRUE

\* ai-run of one category looks for its credentials first; with several, each
\* is looked at in its turn.
LoneCredentials(s) ==
    Len(CatsOf(s)) = 1 => Credentials(CatsOf(s)[1], s.env)

\* decision-run looks at its settings and its client, then at the selection.
DecisionRefusal(s) ==
    LET c == CfgOf(s) IN
    IF ~DecisionProvided(c, s.env) THEN 78
    ELSE IF CatsOf(s) = <<>> THEN 1
    ELSE IF \E cat \in ToSet(CatsOf(s)) : ~GoodQuestions(cat) THEN 78
    ELSE IF ~EnoughToAsk(c, s.filter, RequestsOf(s)) THEN 78
    ELSE 0

\* The code of a call that is refused before the database is opened, or 0.
Refusal(s) ==
    LET c == CfgOf(s) IN
    IF s.dry /\ s.cmd \notin TakesDryRun THEN 2
    ELSE IF s.cmd \in {"reindex", "reindex --dry-run", "reindex --abort"} /\ s.filter # NoFilter THEN 2
    ELSE IF s.cmd = "recent-entries" /\ s.filter = NoFilter THEN 2
    ELSE IF s.cmd = "reindex --abort" /\ s.dry THEN 78
    ELSE IF ~Structural(c, s.env) THEN 78
    ELSE IF s.cmd = "validate-config" /\ ~Validated(c, s.env, s.filter) THEN 78
    ELSE IF s.cmd \in {"ingest", "run"} /\ ~SourcesReady(c, s.env, s.filter) THEN 78
    ELSE IF s.cmd = "ai-run" /\ ~c.ai THEN 78
    ELSE IF s.cmd \in {"publish", "publish-all"} /\ ~PublishReady(c, s.env, s.local) THEN 78
    ELSE IF s.cmd \in {"ai-run", "publish-all"} /\ CatsOf(s) = <<>> THEN 1
    ELSE IF s.cmd = "publish" /\ Len(CatsOf(s)) # 1 THEN 1
    ELSE IF s.cmd = "ai-run" /\ ~LoneCredentials(s) THEN 78
    ELSE IF s.cmd = "decision-run" /\ DecisionRefusal(s) # 0 THEN DecisionRefusal(s)
    ELSE IF s.cmd # "validate-config" /\ ~DatabaseReady(c, s.env) THEN 78
    ELSE 0

\* Where a call goes when it is not refused.
Entry(cmd) ==
    CASE cmd = "validate-config" -> "ended"
      [] cmd \in Readers \cup {"migrate check"} -> "read"
      [] cmd \in Doctors -> "probe"
      [] cmd = "migrate run" -> "gate"
      [] OTHER -> "open"

FirstStage(cmd) ==
    CASE cmd \in {"ingest", "run"} -> "ingest"
      [] cmd = "ai-run" -> "ai"
      [] cmd \in {"publish", "publish-all"} -> "rules"
      [] cmd = "migrate run" -> "ended"
      [] OTHER -> "work"

-----------------------------------------------------------------------------
(* pc    : where the call is                                               *)
(* seen  : the migrations it has found or applied                          *)
(* todo  : the categories its stage has before it, or the checks of doctor *)
(* batch : the categories of its remote batch                              *)
(* done, hit : what was carried through and what an outside failure met    *)
(* codes : the exit codes of its failures; wrote: it changed the database  *)
NotCalled ==
    [pc |-> "idle", setup |-> NoOne, seen |-> 0, todo |-> <<>>, batch |-> {},
     done |-> {}, hit |-> {}, codes |-> {}, wrote |-> FALSE, exit |-> 0]

Called(s, pc) == [NotCalled EXCEPT !.pc = pc, !.setup = s]

Ended(r) == [r EXCEPT !.pc = "ended", !.exit = Worst(r.codes), !.todo = <<>>, !.batch = {}]

Failing(r, code) == [r EXCEPT !.codes = @ \cup {code}]
Did(r, what)     == [r EXCEPT !.done = @ \cup {what}]
Hit(r, what)     == [r EXCEPT !.hit = @ \cup {what}, !.codes = @ \cup {1}]

\* What a provider or the database may answer a decision-run: its configuration
\* or credentials are refused, its rate is limited, or anything else.
Stops == {"refused", "limited", "failed"}
StopCodes(stop) == IF stop = "refused" THEN {78} ELSE IF stop = "failed" THEN {1} ELSE {}

\* The tasks of a window have met these; the run ends with the worst of them.
Stopped(r, stops) ==
    Ended([r EXCEPT !.hit = @ \cup {<<stop, NoOne>> : stop \in stops},
                    !.codes = @ \cup UNION {StopCodes(stop) : stop \in stops}])

\* Stage pc over the selected categories; without any it is over at once.
Enter(r, pc) == [r EXCEPT !.pc = pc, !.todo = CatsOf(r.setup)]

AfterAi(r) == IF r.setup.cmd = "run" THEN [r EXCEPT !.pc = "preflight", !.todo = <<>>] ELSE Ended(r)

\* run skips ai-run where AI is disabled, and stops where ingest returned an error.
AfterIngest(r, failed) ==
    IF failed \/ r.setup.cmd # "run" THEN Ended(r)
    ELSE IF CfgOf(r.setup).ai /\ CatsOf(r.setup) # <<>> THEN Enter(r, "ai") ELSE AfterAi(r)

AfterFirstRound(r) == [r EXCEPT !.pc = "rounds"]

AfterPublish(r) == IF r.batch # {} THEN [r EXCEPT !.pc = "batch"] ELSE Ended(r)

\* Remove the category at hand; the last one takes the call to its next stage.
Advanced(r, After(_)) ==
    LET rest == [r EXCEPT !.todo = Tail(@)]
    IN  IF rest.todo = <<>> THEN After(rest) ELSE rest

Becomes(i, r) == call' = [call EXCEPT ![i] = r]

-----------------------------------------------------------------------------
Init ==
    /\ backend \in {"sqlite", "postgres"} /\ applied = 0 /\ lock = NoOne /\ job = FALSE /\ reports = {}
    /\ call = [i \in Invocations |-> NotCalled]

Start(i) ==
    /\ call[i].pc = "idle"
    /\ \E s \in Setups[i] :
          /\ Refusal(s) # 0 \/ s.cmd = "validate-config" \/ CfgOf(s).driver = backend
          /\ Becomes(i, IF Refusal(s) # 0 THEN Ended(Failing(Called(s, "ended"), Refusal(s)))
                                          ELSE Called(s, Entry(s.cmd)))
    /\ UNCHANGED <<backend, applied, lock, job, reports>>

\* open_read_storage, or migrate check: nothing is migrated.
OpenForReading(i) ==
    /\ call[i].pc = "read"
    /\ LET s == call[i].setup
           fits == IF s.cmd = "migrate check" THEN s.bin <= applied ELSE s.bin = applied
           done == [Did(call[i], <<"read", NoOne>>) EXCEPT !.seen = applied]
       IN  Becomes(i, Ended(IF fits THEN done ELSE Failing(call[i], 1)))
    /\ UNCHANGED <<backend, applied, lock, job, reports>>

\* migrate run asks whether a reindex job is under way; a writing command does not.
Gate(i) ==
    /\ call[i].pc = "gate"
    /\ Becomes(i, IF job THEN Ended(Failing(call[i], 1)) ELSE [call[i] EXCEPT !.pc = "open"])
    /\ UNCHANGED <<backend, applied, lock, job, reports>>

\* sqlx takes its lock, reads what is applied, and refuses a newer database.
Open(i) ==
    /\ call[i].pc = "open" /\ (backend = "postgres" => lock = NoOne)
    /\ IF applied > call[i].setup.bin
          THEN /\ Becomes(i, Ended(Failing(call[i], 1)))
               /\ UNCHANGED lock
          ELSE /\ Becomes(i, [call[i] EXCEPT !.pc = "migrate", !.seen = applied])
               /\ lock' = IF backend = "postgres" THEN i ELSE lock
    /\ UNCHANGED <<backend, applied, job, reports>>

Unlocked(i) == IF lock = i THEN NoOne ELSE lock

\* Fault of Migrate: a migration that has failed is taken for applied.
MigrateUntold(i) ==
    /\ call[i].pc = "migrate" /\ call[i].seen < call[i].setup.bin
    /\ \E fails \in BOOLEAN :
          /\ fails \/ applied = call[i].seen
          /\ applied' = IF fails THEN applied ELSE applied + 1
    /\ Becomes(i, [call[i] EXCEPT !.seen = @ + 1, !.wrote = TRUE])
    /\ UNCHANGED <<backend, lock, job, reports>>

\* The next migration, in a transaction of its own; it fails where another
\* process has applied it since.
Migrate(i) ==
    /\ call[i].pc = "migrate" /\ call[i].seen < call[i].setup.bin
    /\ \/ /\ applied = call[i].seen
          /\ applied' = applied + 1
          /\ Becomes(i, [call[i] EXCEPT !.seen = applied + 1, !.wrote = TRUE])
          /\ UNCHANGED lock
       \/ /\ Becomes(i, Ended(Hit(call[i], <<"open", NoOne>>)))
          /\ lock' = Unlocked(i)
          /\ UNCHANGED applied
    /\ UNCHANGED <<backend, job, reports>>

\* All are there: the lock is given back; a writing command makes its
\* configuration the active one and enters its first stage.
Migrated(i) ==
    /\ call[i].pc = "migrate" /\ call[i].seen = call[i].setup.bin
    /\ lock' = Unlocked(i)
    /\ LET cmd == call[i].setup.cmd
           r == [call[i] EXCEPT !.wrote = @ \/ cmd # "migrate run"]
       IN  \/ Becomes(i, CASE FirstStage(cmd) = "ended" -> Ended(Did(r, <<"open", NoOne>>))
                           [] FirstStage(cmd) = "ai" -> Enter(r, "ai")
                           [] OTHER -> [r EXCEPT !.pc = FirstStage(cmd)])
           \/ cmd # "migrate run" /\ Becomes(i, Ended(Hit(call[i], <<"open", NoOne>>)))
    /\ UNCHANGED <<backend, applied, job, reports>>

\* Ingest and extract: a summary, a summary with storage failures, or an error.
Ingest(i) ==
    /\ call[i].pc = "ingest"
    /\ \/ Becomes(i, AfterIngest(Did(call[i], <<"ingest", NoOne>>), FALSE))
       \/ \E error \in BOOLEAN :
             Becomes(i, AfterIngest(Hit(call[i], <<"ingest", NoOne>>), error))
    /\ UNCHANGED <<backend, applied, lock, job, reports>>

\* Fault of AiCategory: the first category that cannot run ends the stage.
AiCategoryOrNone(i) ==
    /\ call[i].pc = "ai"
    /\ LET r == call[i]
           cat == Head(r.todo)
           s == r.setup
       IN  IF ~Credentials(cat, s.env) THEN Becomes(i, AfterAi(Failing(r, 78)))
           ELSE IF ~FitsItsLease(s, cat) THEN Becomes(i, Advanced(Failing(r, 1), AfterAi))
           ELSE \/ Becomes(i, Advanced(Did(r, <<"ai", cat.key>>), AfterAi))
                \/ Becomes(i, Advanced(Hit(r, <<"ai", cat.key>>), AfterAi))
    /\ UNCHANGED <<backend, applied, lock, job, reports>>

\* One category: its credentials, the budget of its lease, its tasks.
AiCategory(i) ==
    /\ call[i].pc = "ai"
    /\ LET r == call[i]
           cat == Head(r.todo)
           s == r.setup
       IN  IF ~Credentials(cat, s.env) THEN Becomes(i, Advanced(Failing(r, 78), AfterAi))
           ELSE IF ~FitsItsLease(s, cat) THEN Becomes(i, Advanced(Failing(r, 1), AfterAi))
           ELSE \/ Becomes(i, Advanced(Did(r, <<"ai", cat.key>>), AfterAi))
                \/ Becomes(i, Advanced(Hit(r, <<"ai", cat.key>>), AfterAi))
    /\ UNCHANGED <<backend, applied, lock, job, reports>>

\* The checks run makes before its publish stage.
PublishPreflight(i) ==
    /\ call[i].pc = "preflight"
    /\ LET s == call[i].setup IN
       Becomes(i, IF ~PublishReady(CfgOf(s), s.env, s.local) THEN Ended(Failing(call[i], 78))
                  ELSE IF CatsOf(s) = <<>> THEN Ended(Failing(call[i], 1))
                  ELSE [call[i] EXCEPT !.pc = "rules"])
    /\ UNCHANGED <<backend, applied, lock, job, reports>>

\* The publish target and the active rules, for all categories at once.
PublishRules(i) ==
    /\ call[i].pc = "rules"
    /\ \/ Becomes(i, Enter(call[i], "publish"))
       \/ Becomes(i, Ended(Hit(call[i], <<"rules", NoOne>>)))
    /\ UNCHANGED <<backend, applied, lock, job, reports>>

\* One category up to its local report: stored, nothing to do, or failed (init,
\* a failed record, a stage).
PublishCategory(i) ==
    /\ call[i].pc = "publish"
    /\ LET r == call[i]
           s == r.setup
           cat == Head(r.todo)
           path == PathOf(TemplateOf(CfgOf(s), cat), cat.key, s.day)
           Stored == IF RemoteWanted(CfgOf(s), s.local)
                        THEN [r EXCEPT !.batch = @ \cup {cat.key}]
                        ELSE Did(r, <<"publish", cat.key>>)
       IN  \/ /\ Becomes(i, Advanced(Stored, AfterPublish))
              /\ reports' = reports \cup
                    {[path |-> path, key |-> cat.key, day |-> s.day, cfg |-> s.cfg]}
           \/ /\ \/ Becomes(i, Advanced(Did(r, <<"publish", cat.key>>), AfterPublish))
                 \/ Becomes(i, Advanced(Hit(r, <<"publish", cat.key>>), AfterPublish))
              /\ UNCHANGED reports
    /\ UNCHANGED <<backend, applied, lock, job>>

\* The remote batch, in which some of the reports may fail.
PublishBatch(i) ==
    /\ call[i].pc = "batch"
    /\ \E out \in SUBSET call[i].batch :
          LET r == [call[i] EXCEPT !.done = @ \cup {<<"publish", k>> : k \in out},
                                   !.hit = @ \cup {<<"publish", k>> : k \in call[i].batch \ out}]
          IN  Becomes(i, Ended(IF out = call[i].batch THEN r ELSE Failing(r, 1)))
    /\ UNCHANGED <<backend, applied, lock, job, reports>>

\* decision-run purges raw answers, stores the policies and reclaims leases.
PrepareDecisions(i) ==
    /\ call[i].pc = "work" /\ call[i].setup.cmd = "decision-run"
    /\ \/ Becomes(i, Enter(call[i], "decide"))
       \/ Becomes(i, Ended(Hit(call[i], <<"work", NoOne>>)))
    /\ UNCHANGED <<backend, applied, lock, job, reports>>

\* The first window of a category that asks, which the budget reaches
\* (FirstWindowForAll of Decision); a stop met in it is one of the whole run.
DecideCategory(i) ==
    /\ call[i].pc = "decide"
    /\ LET r == call[i]
           cat == Head(r.todo)
       IN  IF cat.asks # "asks" THEN Becomes(i, Advanced(r, AfterFirstRound))
           ELSE \/ Becomes(i, Advanced(Did(r, <<"decide", cat.key>>), AfterFirstRound))
                \/ \E stops \in (SUBSET Stops) \ {{}} : Becomes(i, Stopped(r, stops))
    /\ UNCHANGED <<backend, applied, lock, job, reports>>

\* Until nothing is left, the budget is spent or a stop is met.
LaterRounds(i) ==
    /\ call[i].pc = "rounds"
    /\ \E stops \in SUBSET Stops : Becomes(i, Stopped(call[i], stops))
    /\ UNCHANGED <<backend, applied, lock, job, reports>>

\* backfill selects its one category only now.
Work(i) ==
    /\ call[i].pc = "work" /\ call[i].setup.cmd = "backfill"
    /\ \/ Becomes(i, Ended(Hit(call[i], <<"work", NoOne>>)))
       \/ /\ Len(CatsOf(call[i].setup)) = 1
          /\ Becomes(i, Ended(Did(call[i], <<"work", NoOne>>)))
    /\ UNCHANGED <<backend, applied, lock, job, reports>>

\* reindex, of one target: its job is inserted, unless one is there, and ends;
\* it stays where its end fails.  --abort ends the job it names, if there is one.
Reindex(i) ==
    /\ UNCHANGED <<backend, applied, lock, reports>>
    /\ \/ /\ call[i].pc = "work" /\ call[i].setup.cmd = "reindex" /\ ~job
          /\ job' = TRUE
          /\ Becomes(i, [call[i] EXCEPT !.pc = "job"])
       \/ /\ call[i].pc = "work" /\ call[i].setup.cmd \in {"reindex", "reindex --abort"}
          /\ Becomes(i, Ended(Hit(call[i], <<"work", NoOne>>)))
          /\ UNCHANGED job
       \/ /\ call[i].pc = "job" /\ job' \in {job, FALSE}
          /\ Becomes(i, Ended(Hit(call[i], <<"work", NoOne>>)))
       \/ /\ \/ call[i].pc = "job"
             \/ call[i].pc = "work" /\ call[i].setup.cmd = "reindex --abort"
          /\ job' = FALSE
          /\ Becomes(i, Ended(Did(call[i], <<"work", NoOne>>)))

-----------------------------------------------------------------------------
(* doctor: what its checks may find.  Only "fail" counts for the exit code.  *)

Checks ==
    <<"Configuration", "Database connection", "Migration version", "OpenAI API key",
      "GitHub token", "RSSHub base URL", "Timezone", "Expired leases", "Failed backlog",
      "Stuck reindex jobs", "Silent feed sources", "Pending backlog", "Disk space">>

DatabaseChecks == {"Database connection", "Migration version"}

ConfigCheck(s) == {IF DoctorAccepts(CfgOf(s), s.env, s.filter) THEN "ok" ELSE "fail"}

MigrationVersion(s) == IF s.bin = applied THEN {"ok", "fail"} ELSE {"fail"}

OpenAiPing(s) == IF CfgOf(s).ai /\ s.env.key THEN {"ok", "fail"} ELSE {"info"}

GitHubPing(s) ==
    IF CfgOf(s).owner /\ CfgOf(s).repo /\ s.env.token THEN {"ok", "fail"} ELSE {"warn"}

RsshubPing(s) == IF s.env.rsshub = "unset" THEN {"info"} ELSE {"ok", "fail"}

DiskSpace == IF backend = "sqlite" THEN {"ok", "info", "fail"} ELSE {"info"}

\* A query of the tables, which a database without any migration lacks.
Query(found) == IF applied = 0 THEN {"fail"} ELSE found \cup {"fail"}

StuckReindex == Query(IF job THEN {"ok", "warn"} ELSE {"ok"})

Outcomes(check, s) ==
    CASE check = "Configuration"       -> ConfigCheck(s)
      [] check = "Database connection" -> {"ok", "fail"}
      [] check = "Migration version"   -> MigrationVersion(s)
      [] check = "OpenAI API key"      -> OpenAiPing(s)
      [] check = "GitHub token"        -> GitHubPing(s)
      [] check = "RSSHub base URL"     -> RsshubPing(s)
      [] check = "Timezone"            -> {"ok", "warn"}
      [] check = "Failed backlog"      -> Query({"info"})
      [] check = "Stuck reindex jobs"  -> StuckReindex
      [] check = "Disk space"          -> DiskSpace
      [] OTHER                         -> Query({"ok", "warn"})

\* The pool is read only, and opens whatever the migrations are.
OpenForDoctor(i) ==
    /\ call[i].pc = "probe"
    /\ \/ Becomes(i, [call[i] EXCEPT !.pc = "doctor", !.todo = Checks])
       \/ Becomes(i, Ended(Hit(call[i], <<"check", NoOne>>)))
    /\ UNCHANGED <<backend, applied, lock, job, reports>>

\* The tables are scanned only where both checks of the database went well.
AfterChecks(r) ==
    LET checked == Did(r, <<"check", NoOne>>)
    IN  IF r.setup.cmd = "doctor --deep" /\ <<"database", NoOne>> \notin r.hit
           THEN [checked EXCEPT !.pc = "scan"] ELSE Ended(checked)

Doctor(i) ==
    /\ call[i].pc = "doctor"
    /\ LET r == call[i]
           check == Head(r.todo)
           what == IF check \in DatabaseChecks THEN "database" ELSE "check"
       IN  \E outcome \in Outcomes(check, r.setup) :
              Becomes(i, Advanced(IF outcome = "fail" THEN Hit(r, <<what, NoOne>>) ELSE r, AfterChecks))
    /\ UNCHANGED <<backend, applied, lock, job, reports>>

\* The invariants across the tables: none is violated, or some row does, or a
\* query fails.
DeepScan(i) ==
    /\ call[i].pc = "scan"
    /\ \/ Becomes(i, Ended(Did(call[i], <<"scan", NoOne>>)))
       \/ Becomes(i, Ended(Hit(call[i], <<"scan", NoOne>>)))
    /\ UNCHANGED <<backend, applied, lock, job, reports>>

-----------------------------------------------------------------------------
\* A killed process; the connection takes the lock with it.
Crash(i) ==
    /\ call[i].pc \notin {"idle", "ended", "crashed"}
    /\ lock' = Unlocked(i)
    /\ Becomes(i, [NotCalled EXCEPT !.pc = "crashed"])
    /\ UNCHANGED <<backend, applied, job, reports>>

Next ==
    \E i \in Invocations :
        \/ Start(i) \/ OpenForReading(i) \/ Gate(i) \/ Open(i) \/ Migrate(i) \/ Migrated(i)
        \/ Ingest(i) \/ AiCategory(i) \/ PublishPreflight(i) \/ PublishRules(i)
        \/ PublishCategory(i) \/ PublishBatch(i) \/ Work(i) \/ Reindex(i)
        \/ PrepareDecisions(i) \/ DecideCategory(i) \/ LaterRounds(i)
        \/ OpenForDoctor(i) \/ Doctor(i) \/ DeepScan(i) \/ Crash(i)

Spec == Init /\ [][Next]_vars

-----------------------------------------------------------------------------
(* Properties *)

\* The categories a decision-run asks questions about.
DecisionsDue(s) == {<<"decide", cat.key>> : cat \in {x \in ToSet(CatsOf(s)) : x.asks = "asks"}}

\* What a call has to carry through before it may say that all went well.
Due(s) ==
    LET All(stage) == {<<stage, k>> : k \in Keys(s)} IN
    CASE s.cmd = "run" -> {<<"ingest", NoOne>>} \cup All("publish")
                          \cup (IF CfgOf(s).ai THEN All("ai") ELSE {})
      [] s.cmd = "ingest" -> {<<"ingest", NoOne>>}
      [] s.cmd = "ai-run" -> All("ai")
      [] s.cmd \in {"publish", "publish-all"} -> All("publish")
      [] s.cmd \in Readers \cup {"migrate check"} -> {<<"read", NoOne>>}
      [] s.cmd = "migrate run" -> {<<"open", NoOne>>}
      [] s.cmd = "doctor" -> {<<"check", NoOne>>}
      [] s.cmd = "doctor --deep" -> {<<"check", NoOne>>, <<"scan", NoOne>>}
      [] s.cmd = "decision-run" -> DecisionsDue(s)
      [] s.cmd \in Workers -> {<<"work", NoOne>>}
      [] OTHER -> {}

Over(i)    == call[i].pc = "ended"
Reached(r) == r.seen = r.setup.bin /\ <<"open", NoOne>> \notin r.hit

Unprovided(s) == {cat \in ToSet(CatsOf(s)) : CfgOf(s).ai /\ ~Credentials(cat, s.env)}

\* The provider told the decision-run to come back later, and nothing else failed.
RateLimited(r) == r.setup.cmd = "decision-run" /\ r.hit = {<<"limited", NoOne>>}

\* exit_code.rs, run.rs derive_exit_code, decision_run exit_class: a call ends
\* with 0 only when every stage it owes has been carried through for every
\* selected category, whatever went wrong before or after it, or when it is a
\* decision-run that a rate limit alone has stopped.  A decision-run whose
\* provider refuses its configuration ends with 78, and so does a run in which a
\* category lacks its credentials, whatever else failed.
ExitIsTrue ==
    \A i \in Invocations : Over(i) =>
        LET r == call[i] IN
        /\ r.exit = 0 => RateLimited(r) \/ (Due(r.setup) \subseteq r.done /\ r.hit = {})
        /\ <<"refused", NoOne>> \in r.hit => r.exit = 78
        /\ r.setup.cmd = "run" /\ <<"ingest", NoOne>> \in r.done /\ Unprovided(r.setup) # {}
              => r.exit = 78

\* run.rs, ai_run.rs run_categories, publish_all.rs run_loaded: a category that
\* has what it needs gets its AI stage and its report, or fails by itself; the
\* missing credentials or the failure of another category never stops it.  Only
\* where the rules of the publish stage cannot be read is none published.
OneCategoryStopsNoOther ==
    \A i \in Invocations : Over(i) /\ Reached(call[i]) =>
        LET r == call[i]
            s == r.setup
            IsMet(stage, k) == <<stage, k>> \in r.done \cup r.hit
        IN  \A cat \in ToSet(CatsOf(s)) :
              /\ \/ s.cmd = "ai-run"
                 \/ s.cmd = "run" /\ <<"ingest", NoOne>> \in r.done /\ CfgOf(s).ai
                 => \/ IsMet("ai", cat.key) \/ cat \in Unprovided(s)
                    \/ ~FitsItsLease(s, cat)
              /\ \/ s.cmd = "publish-all"
                 \/ s.cmd = "run" /\ <<"ingest", NoOne>> \in r.done
                    /\ PublishReady(CfgOf(s), s.env, s.local)
                 => IsMet("publish", cat.key) \/ <<"rules", NoOne>> \in r.hit

\* A call whose configuration is looked at as a whole before the database is
\* opened; run checks stage by stage, ai-run of several categories each in turn.
ChecksFirst(s) == s.cmd # "run" /\ (s.cmd = "ai-run" => Len(CatsOf(s)) <= 1)

\* ai_run.rs, publish_all.rs, ingest.rs, decision_run.rs, db_url.rs: such a call
\* that ends with 78 has neither migrated the database nor changed its active
\* configuration, unless it is a decision-run that its provider refuses when it
\* is asked.
RefusedLeavesNoTrace ==
    \A i \in Invocations :
        LET r == call[i] IN
        Over(i) /\ r.exit = 78 /\ ChecksFirst(r.setup) /\ <<"refused", NoOne>> \notin r.hit
            => ~r.wrote

\* validate_config.rs, validate.rs CommandKind::Doctor: what validate-config
\* accepts, no command refuses in the same environment, but for what it does not
\* look at: DATABASE_URL, the remote target, whether AI is enabled, what
\* decision-run is to ask and what its provider answers, and a flag that --abort
\* does not take.  What doctor accepts, DATABASE_URL among it, no command refuses
\* but for the credentials of a category, whether AI is enabled, the sections of
\* decision-run and that flag.
ValidatedIsRunnable ==
    \A i \in Invocations : Over(i) /\ call[i].exit = 78 =>
        LET s == call[i].setup
            c == CfgOf(s)
        IN  /\ \/ ~Validated(c, s.env, s.filter)
               \/ s.cmd # "validate-config" /\ ~DatabaseReady(c, s.env)
               \/ s.cmd \in {"publish", "publish-all", "run"} /\ ~PublishReady(c, s.env, s.local)
               \/ s.cmd = "ai-run" /\ ~c.ai
               \/ s.cmd = "decision-run"
                  /\ \/ ~c.decision.enabled \/ ~EnoughToAsk(c, s.filter, RequestsOf(s))
                     \/ <<"refused", NoOne>> \in call[i].hit
               \/ s.cmd = "reindex --abort" /\ s.dry
            /\ \/ ~DoctorAccepts(c, s.env, s.filter) \/ ~DatabaseReady(c, s.env)
               \/ s.cmd = "ai-run" /\ ~c.ai
               \/ s.cmd \in {"ai-run", "run"} /\ Unprovided(s) # {}
               \/ s.cmd \in {"decision-run", "validate-config"}
               \/ s.cmd = "reindex --abort" /\ s.dry

\* open_write_storage, open_read_storage: no command works on a database that
\* lacks one of its migrations, and under the lock of the migrations nobody else
\* applies one.
WorksOnItsSchema ==
    /\ \A i \in Invocations :
          call[i].pc \in {"ingest", "ai", "preflight", "rules", "publish", "batch",
                          "work", "decide", "rounds", "job"}
              => call[i].setup.bin <= applied
    /\ lock # NoOne => call[lock].pc = "migrate" /\ call[lock].seen = applied

\* checks.rs validate_path_template: under one configuration the reports a
\* category makes on two days do not overwrite each other.
DaysNeverShareAPath ==
    \A x, y \in reports :
        x.cfg = y.cfg /\ x.key = y.key /\ x.path = y.path => x.day = y.day
=============================================================================
