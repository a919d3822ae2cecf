------------------------------- MODULE Config -------------------------------
(***************************************************************************)
(* The checks a configuration passes before a command works with it: the   *)
(* files under config_dir and the variables of the environment.            *)
(*                                                                         *)
(* A path template is a sequence of words, a rendered path the sequence of *)
(* words it stands for.  A value whose range alone is checked (schema      *)
(* version, timeouts, counts, time zone, the other templates) is in sane.  *)
(***************************************************************************)
EXTENDS Naturals, Sequences, SequencesExt

CONSTANTS
    Upper,          \* a category key in capitals
    UnsafeKeys,     \* keys that are not one plain component of a path
    Inherit,        \* a category leaves a field to the global configuration
    NoFilter        \* no --category was given

-----------------------------------------------------------------------------
(* Paths *)

Words(word, key, day) ==
    CASE word = "{category_key}" -> <<key>>
      [] word = "{CATEGORY_KEY}" -> <<Upper[key]>>
      [] word = "{date}"         -> <<day.y, "-", day.m, "-", day.d>>
      [] word = "{YYYYMMDD}"     -> <<day.y, day.m, day.d>>
      [] word = "{YYYY}"         -> <<day.y>>
      [] word = "{MM}"           -> <<day.m>>
      [] word = "{DD}"           -> <<day.d>>
      [] OTHER                   -> <<word>>

PathOf(template, key, day) ==
    FlattenSeq([i \in DOMAIN template |-> Words(template[i], key, day)])

\* Words that are no placeholder and stand for an unknown or unclosed one, a
\* step upwards, a backslash or the root ("//", the plain separator being "/").
BrokenWords == {"{week}", "{", "..", "\\", "//"}

\* Fault of NamesItsDay: a month is enough.
NamesItsMonth(template) ==
    \/ {"{date}", "{YYYYMMDD}"} \cap ToSet(template) # {}
    \/ {"{YYYY}", "{MM}"} \subseteq ToSet(template)

NamesItsDay(template) ==
    \/ {"{date}", "{YYYYMMDD}"} \cap ToSet(template) # {}
    \/ {"{YYYY}", "{MM}", "{DD}"} \subseteq ToSet(template)

NamesItsCategory(template) ==
    {"{category_key}", "{CATEGORY_KEY}"} \cap ToSet(template) # {}

GoodTemplate(template) ==
    template # <<>> /\ NamesItsDay(template) /\ BrokenWords \cap ToSet(template) = {}

TemplateOf(c, cat) == IF cat.template \in {Inherit, <<>>} THEN c.template ELSE cat.template

SampleDay == [y |-> "2026", m |-> "01", d |-> "03"]

SamplePath(c, cat) == PathOf(TemplateOf(c, cat), cat.key, SampleDay)

-----------------------------------------------------------------------------
(* What every command checks when it loads the files *)

GoodFeedUrls(cat, env) ==
    /\ "malformed" \notin cat.urls
    /\ "rsshub" \in cat.urls => env.rsshub # "malformed"

SafeKey(key) == key \notin UnsafeKeys

ValuesInRange(c) == c.sane

GoodCategory(cat, env) ==
    /\ SafeKey(cat.key)
    /\ cat.template # Inherit => GoodTemplate(cat.template)
    /\ cat.base # "malformed"
    /\ GoodFeedUrls(cat, env)

Distinct(f) == \A i, j \in DOMAIN f : f[i] = f[j] => i = j

Structural(c, env) ==
    /\ ValuesInRange(c)
    /\ GoodTemplate(c.template) /\ NamesItsCategory(c.template)
    /\ \A i \in DOMAIN c.cats : GoodCategory(c.cats[i], env)
    /\ Distinct([i \in DOMAIN c.cats |-> c.cats[i].key])
    /\ Distinct([i \in DOMAIN c.cats |-> SamplePath(c, c.cats[i])])

-----------------------------------------------------------------------------
(* What the stages ask of the environment *)

Selected(c, filter) ==
    LET kept[n \in 0..Len(c.cats)] ==
            IF n = 0 THEN <<>>
            ELSE IF filter \in {NoFilter, c.cats[n].key} THEN Append(kept[n - 1], c.cats[n])
            ELSE kept[n - 1]
    IN  kept[Len(c.cats)]

\* Enabled sources only: cat.urls are those of all sources, cat.enabled of these.
SourcesReady(c, env, filter) ==
    (\E cat \in ToSet(Selected(c, filter)) : "rsshub" \in cat.enabled) => env.rsshub # "unset"

\* The global credentials are needed where a selected category inherits them.
AiReady(c, env, filter) ==
    LET chosen == ToSet(Selected(c, filter))
        NeedsGlobal(field) == chosen = {} \/ \E cat \in chosen : cat[field] = Inherit
    IN  c.ai => /\ NeedsGlobal("keyEnv") => env.key
                /\ env.base # "malformed"
                /\ NeedsGlobal("base") => env.base # "unset"

\* base_url and api key of one category are inherited separately.
Credentials(cat, env) ==
    /\ cat.base = Inherit => env.base = "url"
    /\ IF cat.keyEnv = Inherit THEN env.key ELSE cat.keyEnv \in env.named

\* Fault of Audited: the variables a category names are not looked at.
AuditedInherited(c, env, filter) ==
    c.ai => \A i \in DOMAIN c.cats : c.cats[i].keyEnv = Inherit => Credentials(c.cats[i], env)

Audited(c, env, filter) ==
    c.ai => \A i \in DOMAIN c.cats : Credentials(c.cats[i], env)

RemoteWanted(c, local) == ~local /\ c.owner

PublishReady(c, env, local) == RemoteWanted(c, local) => env.token /\ c.repo

\* DATABASE_URL has a known scheme, or none, and agrees with the driver; SQLite
\* does without it, at the path of the configuration.
DatabaseReady(c, env) ==
    env.db \in IF c.driver = "postgres" THEN {"postgres"} ELSE {"unset", "sqlite"}

\* What doctor asks of the configuration: what the stages would ask, with the
\* remote target; that AI is off is no fault of it.
DoctorAccepts(c, env, filter) ==
    /\ Structural(c, env)
    /\ AiReady(c, env, filter) /\ SourcesReady(c, env, filter)
    /\ PublishReady(c, env, FALSE)

\* The models tried after the category's own, each once.
FallbackChain(c, cat) ==
    LET listed == IF cat.fallback = Inherit THEN c.fallback ELSE cat.fallback
        main == IF cat.model = Inherit THEN c.model ELSE cat.model
        first(i) == \A j \in 1..(i - 1) : listed[j] # listed[i]
    IN  SelectSeq([i \in DOMAIN listed |-> IF first(i) THEN listed[i] ELSE main],
                  LAMBDA m : m # main)

\* The longest a claimed batch can take: the waves of calls, each with its chain.
AiLeaseBudget(c, cat, batch) ==
    LET waves == (batch + c.fetches - 1) \div c.fetches
    IN  waves * c.timeout * (1 + Len(FallbackChain(c, cat)))

-----------------------------------------------------------------------------
(* The sections of decision-run, which loading a configuration does not read *)

MinDecisionLease(d) == d.timeout + 3 * 5 + 10

GoodDecision(d) ==
    /\ d.sane /\ d.timeout \in 1..60 /\ d.lease \in 30..3600
    /\ d.lease >= MinDecisionLease(d)
    /\ d.enabled => d.complete

GoodQuestions(cat) == cat.asks # "malformed"

\* Each category that asks has a first window of concurrency requests.
FirstWindows(c, filter) ==
    c.decision.concurrency
        * Len(SelectSeq(Selected(c, filter), LAMBDA cat : cat.asks = "asks"))

\* The settings of decision-run and the client built of them.
DecisionProvided(c, env) ==
    GoodDecision(c.decision) /\ c.decision.enabled /\ c.decision.keyEnv \in env.named

\* Some category asks, and the budget reaches a first window of each that does.
EnoughToAsk(c, filter, requests) ==
    /\ FirstWindows(c, filter) > 0
    /\ filter = NoFilter => requests >= FirstWindows(c, filter)

\* validate-config
Validated(c, env, filter) ==
    /\ Structural(c, env)
    /\ AiReady(c, env, filter) /\ SourcesReady(c, env, filter)
    /\ Audited(c, env, filter)
    /\ GoodDecision(c.decision)
    /\ c.decision.enabled => c.decision.keyEnv \in env.named
    /\ \A i \in DOMAIN c.cats : GoodQuestions(c.cats[i])
=============================================================================
