------------------------------- MODULE Ingest -------------------------------
(***************************************************************************)
(* The ingest stage in several overlapping processes, each with the        *)
(* configuration it was started with: the rotation of the active           *)
(* configuration in rule_versions (kind 'config'), the rows of             *)
(* feed_sources with the cursor for conditional requests, and the          *)
(* insertion of the entries a feed shows.                                  *)
(*                                                                         *)
(* A feed is an endpoint (URL and kind) that shows a set of entries and    *)
(* replaces it from time to time; the cursor <<u, v>> stands for the ETag  *)
(* and Last-Modified that endpoint u sent with version v.  An entry stands *)
(* for its uid.                                                            *)
(***************************************************************************)
EXTENDS Naturals, FiniteSets

CONSTANTS
    Procs,          \* processes that run ingest
    Configs,        \* configurations, by the hash of their content
    NoConfig,       \* there is none
    Sources,        \* feed sources, by category and key
    Urls,           \* endpoints
    UrlOf,          \* the endpoint a configuration gives a source; NoUrl: not enabled
    NoUrl,
    NameOf,         \* what else a configuration says of its sources: name, priority
    LastVersion,    \* bound: how often each endpoint changes what it shows
    Shown,          \* the entries that version v of endpoint u shows
    LinkOf,         \* the normalized link of an entry
    BadLink,        \* the link cannot be normalized
    NoCursor,       \* etag and last_modified are NULL
    ConcurrentFeeds \* http.concurrent_feeds

VersionsOf(u) == 0..LastVersion[u]
Entries     == DOMAIN LinkOf

ASSUME IngestAssumption ==
    /\ NoConfig \notin Configs /\ NoUrl \notin Urls
    /\ UrlOf \in [Configs -> [Sources -> Urls \cup {NoUrl}]]
    /\ LastVersion \in [Urls -> Nat]
    /\ \A u \in Urls : Shown[u] \in [VersionsOf(u) -> SUBSET Entries]
    /\ \A u \in Urls : NoCursor \notin {u} \X VersionsOf(u)
    /\ ConcurrentFeeds \in Nat \ {0}

VARIABLES
    database,   \* "sqlite", or "postgres" at READ COMMITTED; it stays what it is
    rule,       \* rule_versions.status of each configuration
    source,     \* the rows of feed_sources
    entry,      \* the rows of feed_entries: source and uid
    version,    \* what each endpoint shows now
    mistaken,   \* a history: the source and the cursor of an endpoint that took another's for it
    pc,         \* where each process is
    cfg,        \* the configuration it was started with
    seen,       \* the active versions its open transaction has demoted
    retried,    \* its rotation has met a conflict
    task        \* its work on each source

tables == <<database, rule, source, entry>>
world  == <<version, mistaken>>
start  == <<pc, cfg, seen, retried>>
vars   == <<database, rule, source, entry, version, mistaken, pc, cfg, seen, retried, task>>

-----------------------------------------------------------------------------
Cursors == {NoCursor} \cup UNION {{u} \X VersionsOf(u) : u \in Urls}

Row == [status : {"absent", "active", "archived"}, url : Urls \cup {NoUrl},
        name : {NameOf[c] : c \in Configs} \cup {NoConfig}, cursor : Cursors]

AbsentRow == [status |-> "absent", url |-> NoUrl, name |-> NoConfig, cursor |-> NoCursor]

\* What a task has read of its source or will write to it, what is left of the
\* feed, and the cursor to store at the end.
Task == [at : {"todo", "upsert", "read", "fetch", "insert", "save", "fail", "done"},
         row : Row, left : SUBSET Entries, cursor : Cursors]

Doing(at, row, left, cursor) == [at |-> at, row |-> row, left |-> left, cursor |-> cursor]

Waiting == Doing("todo", AbsentRow, {}, NoCursor)
Over    == Doing("done", AbsentRow, {}, NoCursor)

Active == {c \in Configs : rule[c] = "active"}

Known == {LinkOf[x[2]] : x \in entry}

\* An entry whose link can be normalized.
Storable == {e \in Entries : LinkOf[e] # BadLink}

\* Fault of Dealt: a link that cannot be normalized is stored as it is.
DealtAnyLink(s, e) == LinkOf[e] \in Known \/ <<s, e>> \in entry

\* Fault of Dealt: a known link is not noticed.
DealtByUid(s, e) == LinkOf[e] = BadLink \/ <<s, e>> \in entry

\* An entry that will never be stored, or is.
Dealt(s, e) == LinkOf[e] \in Known \cup {BadLink} \/ <<s, e>> \in entry

Init ==
    /\ database \in {"sqlite", "postgres"}
    /\ rule = [c \in Configs |-> "none"]
    /\ source = [s \in Sources |-> AbsentRow]
    /\ entry = {}
    /\ version = [u \in Urls |-> 0] /\ mistaken = {}
    /\ pc = [p \in Procs |-> "off"]
    /\ cfg = [p \in Procs |-> NoConfig]
    /\ seen = [p \in Procs |-> {}]
    /\ retried = [p \in Procs |-> FALSE]
    /\ task = [p \in Procs |-> [s \in Sources |-> Over]]

-----------------------------------------------------------------------------
(* The start of a process: the active configuration follows the one loaded. *)

Leave(p) ==
    /\ pc' = [pc EXCEPT ![p] = "off"]
    /\ cfg' = [cfg EXCEPT ![p] = NoConfig]
    /\ seen' = [seen EXCEPT ![p] = {}]
    /\ retried' = [retried EXCEPT ![p] = FALSE]
    /\ task' = [task EXCEPT ![p] = [s \in Sources |-> Over]]

Start(p, c) ==
    /\ pc[p] = "off"
    /\ pc' = [pc EXCEPT ![p] = "rotate"]
    /\ cfg' = [cfg EXCEPT ![p] = c]
    /\ UNCHANGED <<tables, world, seen, retried, task>>

\* Every source the configuration enables gets a task.
Work(p) ==
    /\ pc' = [pc EXCEPT ![p] = "work"]
    /\ seen' = [seen EXCEPT ![p] = {}]
    /\ retried' = [retried EXCEPT ![p] = FALSE]
    /\ task' = [task EXCEPT ![p] = [s \in Sources |->
                   IF UrlOf[cfg[p]][s] = NoUrl THEN Over ELSE Waiting]]

NoChange(p) ==
    /\ pc[p] = "rotate" /\ Active = {cfg[p]}
    /\ Work(p)
    /\ UNCHANGED <<tables, world, cfg>>

\* Fault of Rotated: the version that was active stays so.
RotatedBeside(c, old) == [rule EXCEPT ![c] = "active"]

\* Version c is inserted or revived in the place of the versions in old.
Rotated(c, old) ==
    [d \in Configs |-> IF d = c THEN "active" ELSE IF d \in old THEN "superseded" ELSE rule[d]]

\* One transaction on SQLite, which has one writer.
RotateConfig(p) ==
    /\ database = "sqlite" /\ pc[p] = "rotate" /\ Active # {cfg[p]}
    /\ rule' = Rotated(cfg[p], Active)
    /\ Work(p)
    /\ UNCHANGED <<database, source, entry, world, cfg>>

\* On PostgreSQL the active version is demoted first; who demotes the same row
\* waits for the end of the transaction ...
BeginRotation(p) ==
    /\ database = "postgres" /\ pc[p] = "rotate"
    /\ Active # {cfg[p]} \/ retried[p]
    /\ pc' = [pc EXCEPT ![p] = "commit"]
    /\ seen' = [seen EXCEPT ![p] = Active]
    /\ UNCHANGED <<tables, world, cfg, retried, task>>

\* ... and if a version has become active that this transaction does not see,
\* the unique index rejects a second one.
Conflicting(p) == ~(Active \subseteq seen[p] \cup {cfg[p]})

CommitRotation(p) ==
    /\ pc[p] = "commit" /\ ~Conflicting(p)
    /\ rule' = Rotated(cfg[p], Active)
    /\ Work(p)
    /\ UNCHANGED <<database, source, entry, world, cfg>>

\* A conflict is retried once ...
RetryRotation(p) ==
    /\ pc[p] = "commit" /\ Conflicting(p) /\ ~retried[p]
    /\ pc' = [pc EXCEPT ![p] = "rotate"]
    /\ seen' = [seen EXCEPT ![p] = {}]
    /\ retried' = [retried EXCEPT ![p] = TRUE]
    /\ UNCHANGED <<tables, world, cfg, task>>

\* ... and then ends the process, as any other error of the start does.
StartFails(p) ==
    /\ pc[p] \in {"rotate", "commit"}
    /\ Leave(p)
    /\ UNCHANGED <<tables, world>>

-----------------------------------------------------------------------------
(* A source is resolved, in the main loop of the process.                  *)

At(p, s, l) == pc[p] = "work" /\ task[p][s].at = l

Becomes(p, s, t) == task' = [task EXCEPT ![p][s] = t]

Goto(p, s, l) ==
    Becomes(p, s, Doing(l, task[p][s].row, task[p][s].left, task[p][s].cursor))

Done(p, s) == Becomes(p, s, Over)

Resolving == {"upsert", "read"}
Running   == {"fetch", "insert", "save", "fail"}

\* The loop is free, and so is one of the places for concurrent feeds.
MayResolve(p) ==
    /\ \A s \in Sources : task[p][s].at \notin Resolving
    /\ Cardinality({s \in Sources : task[p][s].at \in Running}) < ConcurrentFeeds

NeedsSync(p, s) ==
    \/ source[s].url # UrlOf[cfg[p]][s]
    \/ source[s].name # NameOf[cfg[p]]
    \/ source[s].status # "active"

\* The row with what the configuration says; a new endpoint has no cursor.
Synced(row, u, n) ==
    [status |-> "active", url |-> u, name |-> n,
     cursor |-> IF row.url = u THEN row.cursor ELSE NoCursor]

\* What the request is made of.
Request(url, cursor) ==
    [status |-> "absent", url |-> url, name |-> NoConfig, cursor |-> cursor]

Requested(s) == Doing("fetch", Request(source[s].url, source[s].cursor), {}, NoCursor)

FindSource(p, s) ==
    /\ At(p, s, "todo") /\ MayResolve(p)
    /\ Becomes(p, s, IF NeedsSync(p, s)
                     THEN Doing("upsert", Synced(source[s], UrlOf[cfg[p]][s], NameOf[cfg[p]]),
                                {}, NoCursor)
                     ELSE Requested(s))
    /\ UNCHANGED <<tables, world, start>>

\* Every column is written, those read before included.
Upsert(p, s) ==
    /\ At(p, s, "upsert")
    /\ source' = [source EXCEPT ![s] = task[p][s].row]
    /\ Goto(p, s, "read")
    /\ UNCHANGED <<database, rule, entry, world, start>>

\* The task works with what the row says now.
ReadBack(p, s) ==
    /\ At(p, s, "read")
    /\ Becomes(p, s, Requested(s))
    /\ UNCHANGED <<tables, world, start>>

\* A statement fails: the source counts as failed, the row stays.
ResolveFails(p, s) ==
    /\ \E l \in {"todo"} \cup Resolving : At(p, s, l)
    /\ Done(p, s)
    /\ UNCHANGED <<tables, world, start>>

-----------------------------------------------------------------------------
(* The task of a source.                                                   *)

Url(p, s) == task[p][s].row.url

\* The validators the endpoint sends.
Current(u) == <<u, version[u]>>

\* Validators that another endpoint has sent.
Foreign(u, k) == k # NoCursor /\ k \notin {u} \X VersionsOf(u)

\* The endpoint answers 304 to its own validators while nothing has changed, and
\* may take another's for them, If-Modified-Since being but a date.  It may leave
\* out the validators, and what the response has is stored.
NotModified(p, s) ==
    /\ At(p, s, "fetch")
    /\ LET u == Url(p, s)
           asked == task[p][s].row.cursor
       IN  /\ asked = Current(u) \/ Foreign(u, asked)
           /\ mistaken' = mistaken \cup (IF Foreign(u, asked) THEN {<<s, Current(u)>>} ELSE {})
           /\ \E k \in {NoCursor, Current(u)} :
                 Becomes(p, s, Doing("save", task[p][s].row, {}, k))
    /\ UNCHANGED <<tables, version, start>>

\* The feed is fetched and parsed.
Fetch(p, s) ==
    /\ At(p, s, "fetch")
    /\ \E k \in {NoCursor, Current(Url(p, s))} :
          Becomes(p, s, Doing("insert", Request(Url(p, s), NoCursor),
                              Shown[Url(p, s)][version[Url(p, s)]], k))
    /\ UNCHANGED <<tables, world, start>>

\* No answer, an error status, a body that is too long, absent or no feed.
FetchFails(p, s) ==
    /\ At(p, s, "fetch")
    /\ Goto(p, s, "fail")
    /\ UNCHANGED <<tables, world, start>>

\* A uid or a link that is known, or a link that is none, is passed over.
Insert(p, s, e) ==
    /\ At(p, s, "insert") /\ e \in task[p][s].left
    /\ entry' = IF Dealt(s, e) THEN entry ELSE entry \cup {<<s, e>>}
    /\ Becomes(p, s, Doing("insert", task[p][s].row, task[p][s].left \ {e}, task[p][s].cursor))
    /\ UNCHANGED <<database, rule, source, world, start>>

\* Fault of InsertFails: the entry is passed over.
InsertFailsUnnoticed(p, s) ==
    /\ At(p, s, "insert") /\ task[p][s].left # {}
    /\ Goto(p, s, "save")
    /\ UNCHANGED <<tables, world, start>>

\* The first error ends the insertion.
InsertFails(p, s) ==
    /\ At(p, s, "insert") /\ task[p][s].left # {}
    /\ Goto(p, s, "fail")
    /\ UNCHANGED <<tables, world, start>>

AllInserted(p, s) ==
    /\ At(p, s, "insert") /\ task[p][s].left = {}
    /\ Goto(p, s, "save")
    /\ UNCHANGED <<tables, world, start>>

\* update_after_fetch_success
SaveSuccess(p, s) ==
    /\ At(p, s, "save")
    /\ source' = [source EXCEPT ![s] =
                     [status |-> @.status, url |-> @.url, name |-> @.name,
                      cursor |-> task[p][s].cursor]]
    /\ Done(p, s)
    /\ UNCHANGED <<database, rule, entry, world, start>>

\* update_after_fetch_failure: only the record of failures changes.
SaveFailure(p, s) ==
    /\ At(p, s, "fail")
    /\ Done(p, s)
    /\ UNCHANGED <<tables, world, start>>

\* The last update fails, or the task panics on the way.
TaskEnds(p, s) ==
    /\ \E l \in Running : At(p, s, l)
    /\ Done(p, s)
    /\ UNCHANGED <<tables, world, start>>

Finish(p) ==
    /\ pc[p] = "work" /\ \A s \in Sources : task[p][s].at = "done"
    /\ Leave(p)
    /\ UNCHANGED <<tables, world>>

Crash(p) ==
    /\ pc[p] # "off"
    /\ Leave(p)
    /\ UNCHANGED <<tables, world>>

-----------------------------------------------------------------------------
(* The neighbours.                                                         *)

\* A feed changes.
FeedChanges(u) ==
    /\ version[u] < LastVersion[u]
    /\ version' = [version EXCEPT ![u] = @ + 1]
    /\ UNCHANGED <<tables, mistaken, start, task>>

\* reindex --target categories, with configuration c: a source is written anew or
\* archived.
ReindexSource(s, c) ==
    /\ source[s].status # "absent"
    /\ source' = [source EXCEPT ![s] =
                     IF UrlOf[c][s] = NoUrl
                     THEN [status |-> "archived", url |-> @.url, name |-> @.name,
                           cursor |-> @.cursor]
                     ELSE [status |-> "active", url |-> UrlOf[c][s], name |-> NameOf[c],
                           cursor |-> NoCursor]]
    /\ UNCHANGED <<database, rule, entry, world, start, task>>

-----------------------------------------------------------------------------
TaskStep(p, s) ==
    \/ FindSource(p, s) \/ Upsert(p, s) \/ ReadBack(p, s)
    \/ ResolveFails(p, s) \/ NotModified(p, s) \/ Fetch(p, s) \/ FetchFails(p, s)
    \/ \E e \in Entries : Insert(p, s, e)
    \/ InsertFails(p, s) \/ AllInserted(p, s)
    \/ SaveSuccess(p, s) \/ SaveFailure(p, s) \/ TaskEnds(p, s)

ProcStep(p) ==
    \/ NoChange(p) \/ RotateConfig(p) \/ BeginRotation(p) \/ CommitRotation(p)
    \/ RetryRotation(p) \/ StartFails(p) \/ Finish(p)
    \/ \E s \in Sources : TaskStep(p, s)

Next ==
    \/ \E p \in Procs : (\E c \in Configs : Start(p, c)) \/ ProcStep(p) \/ Crash(p)
    \/ \E u \in Urls : FeedChanges(u)
    \/ \E s \in Sources, c \in Configs : ReindexSource(s, c)

Spec == Init /\ [][Next]_vars

-----------------------------------------------------------------------------
(* Invariants.                                                             *)

TypeOK ==
    /\ database \in {"sqlite", "postgres"}
    /\ rule \in [Configs -> {"none", "active", "superseded"}]
    /\ source \in [Sources -> Row]
    /\ entry \subseteq Sources \X Storable
    /\ \A u \in Urls : version[u] \in VersionsOf(u)
    /\ mistaken \subseteq Sources \X Cursors
    /\ pc \in [Procs -> {"off", "rotate", "commit", "work"}]
    /\ cfg \in [Procs -> Configs \cup {NoConfig}]
    /\ seen \in [Procs -> SUBSET Configs]
    /\ retried \in [Procs -> BOOLEAN]
    /\ task \in [Procs -> [Sources -> Task]]

\* ingest.rs process_source, resolve_source: a source never has a cursor its
\* endpoint sent with an entry that is neither stored nor known, whatever fails,
\* dies, overlaps or writes the row back; but for the version of a feed whose
\* endpoint has answered 304 to the validators of another one, which the update
\* of a slower process can leave on the row.
CursorAfterEntries ==
    \A s \in Sources, u \in Urls : \A v \in VersionsOf(u) :
        source[s].cursor = <<u, v>> /\ <<s, source[s].cursor>> \notin mistaken
            => \A e \in Shown[u][v] : Dealt(s, e)

\* No two entries that are stored have the same link.
OneEntryPerLink ==
    \A x, y \in entry : LinkOf[x[2]] = LinkOf[y[2]] => x = y

-----------------------------------------------------------------------------
(* The versions of kind 'config' as readers see them.                      *)

Version == INSTANCE ActiveVersion WITH
              Versions  <- Configs,
              NoVersion <- NoConfig,
              MayReturn <- TRUE,
              active    <- IF Active = {} THEN NoConfig ELSE CHOOSE c \in Active : TRUE,
              retired   <- {c \in Configs : rule[c] = "superseded"}

\* The active configuration is replaced in one step, and there is always one
\* after the first.
ImplementsActiveVersion == Version!Spec
=============================================================================
