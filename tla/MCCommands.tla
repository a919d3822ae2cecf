----------------------------- MODULE MCCommands -----------------------------
(* A small instance of Commands: configurations of two categories that differ *)
(* from a good one in one respect each.                                       *)
EXTENDS Commands, TLC

MCUpper == "ai" :> "AI" @@ "go" :> "GO" @@ "../x" :> "../X"

Daily   == <<"{CATEGORY_KEY}", "/", "{YYYY}", "{MM}", "{DD}">>
Dated   == <<"news-", "{category_key}", "{date}">>

Cat(k) == [key |-> k, template |-> Inherit, base |-> Inherit, keyEnv |-> Inherit,
           urls |-> {"plain"}, enabled |-> {"plain"}, model |-> Inherit, fallback |-> Inherit, asks |-> "nothing"]

NoDecision == [sane |-> TRUE, enabled |-> FALSE, complete |-> FALSE, timeout |-> 10, lease |-> 120,
               concurrency |-> 2, requests |-> 4, keyEnv |-> "LAYA"]

Good == [sane |-> TRUE, driver |-> "sqlite", ai |-> TRUE, owner |-> FALSE, repo |-> TRUE, template |-> Daily,
         model |-> "m", fallback |-> <<"n", "m", "n">>, fetches |-> 2, timeout |-> 60, lease |-> 240,
         decision |-> NoDecision, cats |-> <<Cat("ai"), Cat("go")>>]

With(j, cat) == [Good EXCEPT !.cats[j] = cat]
Asking == [Good EXCEPT !.decision.enabled = TRUE, !.decision.complete = TRUE,
                       !.cats[1].asks = "asks", !.cats[2].asks = "asks"]

Named ==
    "good"      :> Good @@
    "remote"    :> [Good EXCEPT !.owner = TRUE] @@
    "norepo"    :> [Good EXCEPT !.owner = TRUE, !.repo = FALSE] @@
    "single"    :> [Good EXCEPT !.cats = <<[Cat("ai") EXCEPT !.keyEnv = "AI_KEY"]>>] @@
    "ownkey"    :> With(1, [Cat("ai") EXCEPT !.keyEnv = "AI_KEY", !.base = "url"]) @@
    "noai"      :> [Good EXCEPT !.ai = FALSE] @@
    "longchain" :> With(2, [Cat("go") EXCEPT !.fallback = <<"n", "o", "p", "q">>, !.model = "o"]) @@
    "rsshub"    :> With(2, [Cat("go") EXCEPT !.urls = {"plain", "rsshub"},
                                              !.enabled = {"plain", "rsshub"}]) @@
    "switched"  :> With(2, [Cat("go") EXCEPT !.urls = {"plain", "rsshub"}]) @@
    "asking"    :> Asking @@
    "oneasks"   :> [Asking EXCEPT !.cats[1].asks = "nothing"] @@
    "misasked"  :> [Asking EXCEPT !.cats[2].asks = "malformed"] @@
    "tight"     :> [Asking EXCEPT !.decision.requests = 3] @@
    "shortwait" :> [Asking EXCEPT !.decision.lease = 30] @@
    "monthly"   :> With(1, [Cat("ai") EXCEPT !.template = <<"ai/", "{YYYY}", "{MM}">>]) @@
    "crossed"   :> [Good EXCEPT !.cats[1].template = <<"r/", "{YYYY}", "{MM}", "{DD}">>,
                                !.cats[2].template = <<"r/", "{YYYY}", "{DD}", "{MM}">>] @@
    "same"      :> [Good EXCEPT !.cats[1].template = Dated, !.cats[2].template = Tail(Dated),
                                !.cats[2].key = "ai"] @@
    "unsafe"    :> With(2, Cat("../x")) @@
    "empty"     :> [Good EXCEPT !.cats = <<>>]

\* Each of them on SQLite and on PostgreSQL.
Drivers == {"sqlite", "postgres"}
MCConfigs == [name \in (DOMAIN Named) \X Drivers |-> [Named[name[1]] EXCEPT !.driver = name[2]]]

FullEnv == [key |-> TRUE, base |-> "url", named |-> {"AI_KEY", "LAYA"}, token |-> TRUE,
            rsshub |-> "url", db |-> "unset"]
Envs == {FullEnv, [FullEnv EXCEPT !.named = {}, !.rsshub = "unset", !.token = FALSE],
         [FullEnv EXCEPT !.key = FALSE], [FullEnv EXCEPT !.base = "malformed"]}

Day(m, d) == [y |-> "2026", m |-> m, d |-> d]

Setup(cmd, name) == [cmd |-> cmd, cfg |-> <<name, "sqlite">>, env |-> FullEnv, filter |-> "all",
                     local |-> FALSE, dry |-> FALSE, requests |-> Inherit, batch |-> 4, bin |-> 2,
                     day |-> Day("02", "02")]

Whole == {"run", "ai-run", "publish-all", "ingest", "decision-run", "validate-config"}
Every == Whole \cup Readers \cup Doctors \cup Workers \cup {"publish", "migrate run", "migrate check"}

\* The configurations with which calls overlap, on either database.
Shared == {"good", "monthly", "crossed", "oneasks"}

OnEither(setups) ==
    setups \cup {[s EXCEPT !.cfg = <<@[1], "postgres">>, !.env.db = "postgres"] :
                    s \in {x \in setups : x.cfg[1] \in Shared}}

\* Where DATABASE_URL and --dry-run make the difference.
Invoked ==
    {[Setup(cmd, "good") EXCEPT !.cfg = <<"good", driver>>, !.env.db = db] :
        cmd \in Every, driver \in Drivers, db \in {"unset", "sqlite", "postgres", "unknown"}}
    \cup {[Setup(cmd, "good") EXCEPT !.dry = TRUE] : cmd \in Every \ {"reindex"}}

MCSetups ==
    "main" :> Invoked \cup OnEither(
        {Setup(cmd, name) : cmd \in Whole, name \in DOMAIN Named}
        \cup {[Setup(cmd, name) EXCEPT !.env = env] :
            cmd \in Whole, name \in {"ownkey", "rsshub", "switched", "asking"}, env \in Envs}
        \cup {[Setup(cmd, "ownkey") EXCEPT !.filter = k, !.env = env] :
            cmd \in {"run", "ai-run", "decision-run"}, k \in {"ai", "go", "zz"}, env \in Envs}
        \cup {[Setup("decision-run", name) EXCEPT !.filter = k, !.requests = n] :
            name \in {"asking", "oneasks"}, k \in {"ai", "go", "zz", "all"}, n \in {1, 3, 4}}
        \cup {[Setup(cmd, "good") EXCEPT !.filter = k] :
            cmd \in {"publish", "backfill", "recent-entries", "rebuild-report"}, k \in {"ai", "zz", "all"}}
        \cup {[Setup(cmd, "good") EXCEPT !.local = TRUE, !.bin = b] :
            cmd \in {"publish-all", "replay", "migrate run", "migrate check"}, b \in 1..2}
        \cup {Setup("doctor", name) : name \in DOMAIN Named}
        \cup {[Setup(cmd, "good") EXCEPT !.bin = b] : cmd \in Doctors, b \in 1..2})
@@  "other" :> OnEither(
        {[Setup(cmd, "good") EXCEPT !.bin = b] :
            cmd \in {"migrate run", "reindex", "reindex --abort", "reindex --dry-run"}, b \in 1..2}
        \cup {[Setup("publish-all", name) EXCEPT !.day = Day("02", "03")] :
            name \in {"monthly", "crossed"}})

\* A bound: of the calls of main, only these meet another one, and PostgreSQL.
VariantsRunAlone ==
    call["other"].pc # "idle" \/ backend = "postgres" =>
        \/ call["main"].pc \in {"idle", "crashed"}
        \/ call["main"].setup.cfg[1] \in Shared
=============================================================================
