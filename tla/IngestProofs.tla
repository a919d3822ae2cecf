---------------------------- MODULE IngestProofs ----------------------------
(***************************************************************************)
(* Proofs about the ingest stage, for any number of processes,             *)
(* configurations, sources, feeds and entries, on either database.         *)
(***************************************************************************)
EXTENDS Ingest, TLAPS

\* Whoever works knows its configuration, a source that is there has an
\* endpoint, and so has every task that is about to fetch.
Grounded ==
    /\ \A p \in Procs : pc[p] # "off" => cfg[p] \in Configs
    /\ \A s \in Sources : source[s].status # "absent" => source[s].url \in Urls
    /\ \A p \in Procs, s \in Sources :
          /\ task[p][s].at # "done" => pc[p] = "work"
          /\ task[p][s].at = "todo" => UrlOf[cfg[p]][s] \in Urls
          /\ task[p][s].at = "upsert" =>
                task[p][s].row.status = "active" /\ task[p][s].row.url \in Urls
          /\ task[p][s].at = "read" => source[s].status # "absent"
          /\ task[p][s].at = "fetch" => task[p][s].row.url \in Urls

\* What a task is made of.
LEMMA DoingTyped ==
    ASSUME NEW at \in {"todo", "upsert", "read", "fetch", "insert", "save", "fail", "done"},
           NEW row \in Row, NEW left \in SUBSET Entries, NEW k \in Cursors
    PROVE  /\ Doing(at, row, left, k) \in Task
           /\ Doing(at, row, left, k).at = at /\ Doing(at, row, left, k).row = row
           /\ Doing(at, row, left, k).left = left /\ Doing(at, row, left, k).cursor = k
BY DEF Doing, Task

\* The constant rows and tasks, and the rows built from others.
LEMMA RowsTyped ==
    /\ AbsentRow \in Row /\ NoCursor \in Cursors
    /\ Waiting \in Task /\ Waiting.at = "todo" /\ Over \in Task /\ Over.at = "done"
    /\ \A u \in Urls \cup {NoUrl}, k \in Cursors :
          Request(u, k) \in Row /\ Request(u, k).url = u /\ Request(u, k).cursor = k
    /\ \A row \in Row, u \in Urls \cup {NoUrl}, c \in Configs :
          /\ Synced(row, u, NameOf[c]) \in Row
          /\ Synced(row, u, NameOf[c]).status = "active" /\ Synced(row, u, NameOf[c]).url = u
          /\ Synced(row, u, NameOf[c]).cursor = IF row.url = u THEN row.cursor ELSE NoCursor
<1>1. NoCursor \in Cursors
  BY DEF Cursors
<1>2. AbsentRow \in Row
  BY <1>1 DEF AbsentRow, Row
<1>3. Waiting \in Task /\ Waiting.at = "todo" /\ Over \in Task /\ Over.at = "done"
  BY <1>1, <1>2, DoingTyped DEF Waiting, Over
<1> QED
  BY <1>1, <1>2, <1>3 DEF Request, Synced, Row

\* A step of one task keeps the tasks typed.
LEMMA BecomesTyped ==
    ASSUME TypeOK, NEW p \in Procs, NEW s \in Sources, NEW t \in Task, Becomes(p, s, t)
    PROVE  /\ task' \in [Procs -> [Sources -> Task]]
           /\ task'[p][s] = t
           /\ \A q \in Procs, z \in Sources : (q # p \/ z # s) => task'[q][z] = task[q][z]
BY DEF TypeOK, Becomes

\* What an endpoint shows is a version of its own.
LEMMA FeedTyped ==
    ASSUME TypeOK, NEW u \in Urls
    PROVE  /\ Current(u) \in Cursors /\ Current(u) = <<u, version[u]>>
           /\ version[u] \in VersionsOf(u) /\ Shown[u][version[u]] \subseteq Entries
BY IngestAssumption DEF TypeOK, Current, Cursors

\* The start of a process, its end, and the world keep the types.
LEMMA TypedAround ==
    ASSUME TypeOK, Grounded,
           \/ \E p \in Procs : \/ \E c \in Configs : Start(p, c)
                               \/ NoChange(p) \/ RotateConfig(p) \/ BeginRotation(p)
                               \/ CommitRotation(p) \/ RetryRotation(p) \/ StartFails(p)
                               \/ Finish(p) \/ Crash(p)
           \/ \E u \in Urls : FeedChanges(u)
           \/ \E s \in Sources, c \in Configs : ReindexSource(s, c)
    PROVE  TypeOK' /\ Grounded'
<1>1. ASSUME NEW p \in Procs, NEW c \in Configs, Start(p, c) PROVE TypeOK' /\ Grounded'
  BY <1>1 DEF Start, tables, world, TypeOK, Grounded
<1>2. ASSUME NEW p \in Procs, cfg[p] \in Configs, Work(p), cfg' = cfg, source' = source,
             pc[p] # "work"
      PROVE  /\ task' \in [Procs -> [Sources -> Task]] /\ seen' \in [Procs -> SUBSET Configs]
             /\ retried' \in [Procs -> BOOLEAN]
             /\ pc' \in [Procs -> {"off", "rotate", "commit", "work"}]
             /\ Grounded'
  BY <1>2, RowsTyped, IngestAssumption DEF Work, TypeOK, Grounded
<1>3. ASSUME NEW p \in Procs, NEW c \in Configs, NEW old \in SUBSET Configs
      PROVE  Rotated(c, old) \in [Configs -> {"none", "active", "superseded"}]
  BY <1>3 DEF Rotated, TypeOK
<1>4. ASSUME NEW p \in Procs, NoChange(p) PROVE TypeOK' /\ Grounded'
  BY <1>4, <1>2 DEF NoChange, tables, world, TypeOK, Grounded
<1>5. ASSUME NEW p \in Procs, RotateConfig(p) PROVE TypeOK' /\ Grounded'
  BY <1>5, <1>2, <1>3 DEF RotateConfig, Active, world, TypeOK, Grounded
<1>6. ASSUME NEW p \in Procs, BeginRotation(p) PROVE TypeOK' /\ Grounded'
  BY <1>6 DEF BeginRotation, Active, tables, world, TypeOK, Grounded
<1>7. ASSUME NEW p \in Procs, CommitRotation(p) PROVE TypeOK' /\ Grounded'
  BY <1>7, <1>2, <1>3 DEF CommitRotation, Active, world, TypeOK, Grounded
<1>8. ASSUME NEW p \in Procs, RetryRotation(p) PROVE TypeOK' /\ Grounded'
  BY <1>8 DEF RetryRotation, tables, world, TypeOK, Grounded
<1>9. ASSUME NEW p \in Procs, StartFails(p) \/ Finish(p) \/ Crash(p) PROVE TypeOK' /\ Grounded'
  <2>1. Leave(p) /\ UNCHANGED <<database, rule, source, entry, version, mistaken>>
    BY <1>9 DEF StartFails, Finish, Crash, tables, world
  <2>2. /\ pc' \in [Procs -> {"off", "rotate", "commit", "work"}] /\ pc'[p] = "off"
        /\ cfg' \in [Procs -> Configs \cup {NoConfig}]
        /\ seen' \in [Procs -> SUBSET Configs] /\ retried' \in [Procs -> BOOLEAN]
        /\ task' \in [Procs -> [Sources -> Task]]
        /\ \A z \in Sources : task'[p][z].at = "done"
    BY <2>1, RowsTyped DEF Leave, TypeOK
  <2>3. \A q \in Procs \ {p} : pc'[q] = pc[q] /\ cfg'[q] = cfg[q] /\ task'[q] = task[q]
    BY <2>1 DEF Leave, TypeOK
  <2>4. TypeOK'
    BY <2>1, <2>2 DEF TypeOK
  <2>5. \A q \in Procs : pc'[q] # "off" => cfg'[q] \in Configs
    BY <2>2, <2>3 DEF Grounded
  <2>6. ASSUME NEW q \in Procs, NEW z \in Sources
        PROVE  /\ task'[q][z].at # "done" => pc'[q] = "work"
               /\ task'[q][z].at = "todo" => UrlOf[cfg'[q]][z] \in Urls
               /\ task'[q][z].at = "upsert" =>
                     task'[q][z].row.status = "active" /\ task'[q][z].row.url \in Urls
               /\ task'[q][z].at = "read" => source[z].status # "absent"
               /\ task'[q][z].at = "fetch" => task'[q][z].row.url \in Urls
    <3>1. CASE q = p
      BY <2>2, <3>1
    <3>2. CASE q # p
      BY <2>3, <3>2 DEF Grounded
    <3> QED
      BY <3>1, <3>2
  <2> QED
    BY <2>1, <2>4, <2>5, <2>6 DEF Grounded
<1>10. ASSUME NEW u \in Urls, FeedChanges(u) PROVE TypeOK' /\ Grounded'
  BY <1>10, IngestAssumption DEF FeedChanges, VersionsOf, tables, start, TypeOK, Grounded
<1>11. ASSUME NEW s \in Sources, NEW c \in Configs, ReindexSource(s, c) PROVE TypeOK' /\ Grounded'
  <2>1. source[s] \in Row /\ source[s].url \in Urls /\ UrlOf[c][s] \in Urls \cup {NoUrl}
    BY <1>11, IngestAssumption DEF ReindexSource, TypeOK, Grounded
  <2>a. source[s].name \in {NameOf[d] : d \in Configs} \cup {NoConfig} /\ source[s].cursor \in Cursors
    BY <2>1 DEF Row
  <2>2. /\ [status |-> "archived", url |-> source[s].url, name |-> source[s].name,
            cursor |-> source[s].cursor] \in Row
        /\ UrlOf[c][s] # NoUrl =>
             [status |-> "active", url |-> UrlOf[c][s], name |-> NameOf[c],
              cursor |-> NoCursor] \in Row
    BY <2>1, <2>a, RowsTyped DEF Row
  <2>3. \E row \in Row : /\ source' = [source EXCEPT ![s] = row]
                         /\ row.status # "absent" /\ row.url \in Urls
    <3>1. CASE UrlOf[c][s] = NoUrl
      BY <1>11, <2>1, <2>2, <3>1 DEF ReindexSource
    <3>2. CASE UrlOf[c][s] # NoUrl
      BY <1>11, <2>1, <2>2, <3>2 DEF ReindexSource
    <3> QED
      BY <3>1, <3>2
  <2>4. PICK row \in Row : /\ source' = [source EXCEPT ![s] = row]
                           /\ row.status # "absent" /\ row.url \in Urls
    BY <2>3
  <2> QED
    BY <1>11, <2>4 DEF ReindexSource, start, world, TypeOK, Grounded
<1> QED
  BY <1>1, <1>4, <1>5, <1>6, <1>7, <1>8, <1>9, <1>10, <1>11

\* A task that moves from one place to another.
LEMMA TypedMove ==
    ASSUME TypeOK, Grounded, NEW p \in Procs, NEW s \in Sources, NEW t \in Task,
           Becomes(p, s, t), pc[p] = "work", UNCHANGED start,
           \A z \in Sources : source[z].status # "absent" => source'[z].status # "absent",
           t.at # "todo",
           t.at = "upsert" => t.row.status = "active" /\ t.row.url \in Urls,
           t.at = "read" => source'[s].status # "absent",
           t.at = "fetch" => t.row.url \in Urls,
           \A z \in Sources : source'[z].status # "absent" => source'[z].url \in Urls
    PROVE  Grounded'
<1>1. /\ task'[p][s] = t
      /\ \A q \in Procs, z \in Sources : (q # p \/ z # s) => task'[q][z] = task[q][z]
  BY BecomesTyped
<1>2. pc' = pc /\ cfg' = cfg
  BY DEF start
<1> QED
  BY <1>1, <1>2 DEF Grounded

\* A step of a task keeps the types.
LEMMA TypedTask ==
    ASSUME TypeOK, Grounded, NEW p \in Procs, NEW s \in Sources, TaskStep(p, s)
    PROVE  TypeOK' /\ Grounded'
<1> USE DEF At
<1>a. /\ task[p][s] \in Task /\ task[p][s].row \in Row /\ task[p][s].left \in SUBSET Entries
      /\ task[p][s].cursor \in Cursors
  BY DEF TypeOK, Task
<1>b. source[s] \in Row
  BY DEF TypeOK
<1>c. source[s].status # "absent" => source[s].url \in Urls
  BY DEF Grounded
<1>d. ASSUME NEW t \in Task, Becomes(p, s, t), UNCHANGED <<tables, version, start>>,
             mistaken' \subseteq Sources \X Cursors, pc[p] = "work", t.at # "todo", t.at # "read",
             t.at = "upsert" => t.row.status = "active" /\ t.row.url \in Urls,
             t.at = "fetch" => t.row.url \in Urls
      PROVE  TypeOK' /\ Grounded'
  <2>1. task' \in [Procs -> [Sources -> Task]]
    BY <1>d, BecomesTyped
  <2>2. Grounded'
    BY <1>d, TypedMove DEF tables, Grounded
  <2> QED
    BY <1>d, <2>1, <2>2 DEF TypeOK, tables, start
<1>1. ASSUME NEW t \in Task, Becomes(p, s, t), UNCHANGED <<tables, world, start>>,
             pc[p] = "work", t.at # "todo", t.at # "read",
             t.at = "upsert" => t.row.status = "active" /\ t.row.url \in Urls,
             t.at = "fetch" => t.row.url \in Urls
      PROVE  TypeOK' /\ Grounded'
  BY <1>1, <1>d DEF TypeOK, world
<1>2. CASE FindSource(p, s)
  <2>1. cfg[p] \in Configs /\ UrlOf[cfg[p]][s] \in Urls
    BY <1>2 DEF FindSource, Grounded
  <2>2. CASE NeedsSync(p, s)
    <3>1. PICK row \in Row : /\ row = Synced(source[s], UrlOf[cfg[p]][s], NameOf[cfg[p]])
                             /\ row.status = "active" /\ row.url \in Urls
      BY <1>b, <2>1, RowsTyped
    <3>2. Becomes(p, s, Doing("upsert", row, {}, NoCursor))
      BY <1>2, <2>2, <3>1 DEF FindSource
    <3> QED
      BY <1>1, <1>2, <3>1, <3>2, DoingTyped, RowsTyped DEF FindSource
  <2>3. CASE ~NeedsSync(p, s)
    <3>1. source[s].url \in Urls /\ source[s].cursor \in Cursors
      BY <1>b, <2>1, <2>3 DEF NeedsSync, Row
    <3>2. PICK row \in Row : row = Request(source[s].url, source[s].cursor) /\ row.url \in Urls
      BY <3>1, RowsTyped
    <3>3. Becomes(p, s, Doing("fetch", row, {}, NoCursor))
      BY <1>2, <2>3, <3>2 DEF FindSource, Requested
    <3> QED
      BY <1>1, <1>2, <3>2, <3>3, DoingTyped, RowsTyped DEF FindSource
  <2> QED
    BY <2>2, <2>3
<1>3. CASE Upsert(p, s)
  <2>1. PICK row \in Row : row = task[p][s].row /\ row.status = "active" /\ row.url \in Urls
    BY <1>3, <1>a DEF Upsert, Grounded
  <2>2. source' = [source EXCEPT ![s] = row]
    BY <1>3, <2>1 DEF Upsert
  <2>3. PICK t \in Task : Becomes(p, s, t) /\ t.at = "read"
    BY <1>3, <1>a, DoingTyped DEF Upsert, Goto
  <2>4. /\ \A z \in Sources : source[z].status # "absent" => source'[z].status # "absent"
        /\ source'[s].status # "absent"
        /\ \A z \in Sources : source'[z].status # "absent" => source'[z].url \in Urls
        /\ source' \in [Sources -> Row]
    BY <2>1, <2>2 DEF TypeOK, Grounded
  <2>5. Grounded'
    BY <1>3, <2>3, <2>4, TypedMove DEF Upsert
  <2>6. task' \in [Procs -> [Sources -> Task]]
    BY <2>3, BecomesTyped
  <2> QED
    BY <1>3, <2>4, <2>5, <2>6 DEF Upsert, start, world, TypeOK
<1>4. CASE ReadBack(p, s)
  <2>1. source[s].url \in Urls /\ source[s].cursor \in Cursors
    BY <1>4, <1>b, <1>c DEF ReadBack, Grounded, Row
  <2>2. PICK row \in Row : row = Request(source[s].url, source[s].cursor) /\ row.url \in Urls
    BY <2>1, RowsTyped
  <2>3. Becomes(p, s, Doing("fetch", row, {}, NoCursor))
    BY <1>4, <2>2 DEF ReadBack, Requested
  <2> QED
    BY <1>1, <1>4, <2>2, <2>3, DoingTyped, RowsTyped DEF ReadBack
<1>5. CASE ResolveFails(p, s) \/ SaveFailure(p, s) \/ TaskEnds(p, s)
  BY <1>1, <1>5, RowsTyped DEF ResolveFails, SaveFailure, TaskEnds, Done
<1>6. CASE NotModified(p, s)
  <2>1. PICK u \in Urls : u = Url(p, s)
    BY <1>6 DEF NotModified, Url, Grounded
  <2>2. PICK k \in Cursors : Becomes(p, s, Doing("save", task[p][s].row, {}, k))
    BY <1>6, <2>1, RowsTyped, FeedTyped DEF NotModified
  <2>3. mistaken' \subseteq Sources \X Cursors
    BY <1>6, <2>1, FeedTyped DEF NotModified, TypeOK
  <2> QED
    BY <1>d, <1>6, <1>a, <2>2, <2>3, DoingTyped DEF NotModified
<1>7. CASE Fetch(p, s)
  <2>1. Url(p, s) \in Urls
    BY <1>7 DEF Fetch, Url, Grounded
  <2>2. PICK k \in Cursors :
           Becomes(p, s, Doing("insert", Request(Url(p, s), NoCursor),
                               Shown[Url(p, s)][version[Url(p, s)]], k))
    BY <1>7, <2>1, RowsTyped, FeedTyped DEF Fetch
  <2>3. Shown[Url(p, s)][version[Url(p, s)]] \in SUBSET Entries
    BY <2>1, FeedTyped
  <2>4. Request(Url(p, s), NoCursor) \in Row
    BY <2>1, RowsTyped
  <2> QED
    BY <1>1, <1>7, <2>2, <2>3, <2>4, DoingTyped DEF Fetch
<1>8. CASE FetchFails(p, s) \/ InsertFails(p, s) \/ AllInserted(p, s)
  <2>1. \E l \in {"fail", "save"} :
           Becomes(p, s, Doing(l, task[p][s].row, task[p][s].left, task[p][s].cursor))
    BY <1>8 DEF FetchFails, InsertFails, AllInserted, Goto
  <2> QED
    BY <1>1, <1>8, <1>a, <2>1, DoingTyped DEF FetchFails, InsertFails, AllInserted
<1>9. ASSUME NEW e \in Entries, Insert(p, s, e) PROVE TypeOK' /\ Grounded'
  <2>1. PICK t \in Task : Becomes(p, s, t) /\ t.at = "insert"
    <3>1. task[p][s].left \ {e} \in SUBSET Entries
      BY <1>a
    <3> QED
      BY <1>9, <1>a, <3>1, DoingTyped DEF Insert
  <2>2. Grounded'
    BY <1>9, <2>1, TypedMove DEF Insert, Grounded
  <2>3. task' \in [Procs -> [Sources -> Task]]
    BY <2>1, BecomesTyped
  <2>4. entry' \subseteq Sources \X Storable
    BY <1>9 DEF Insert, Dealt, Storable, TypeOK
  <2> QED
    BY <1>9, <2>2, <2>3, <2>4 DEF Insert, start, world, TypeOK
<1>10. CASE SaveSuccess(p, s)
  <2>a. /\ source[s].status \in {"absent", "active", "archived"}
        /\ source[s].url \in Urls \cup {NoUrl}
        /\ source[s].name \in {NameOf[d] : d \in Configs} \cup {NoConfig}
    BY <1>b DEF Row
  <2>b. [status |-> source[s].status, url |-> source[s].url, name |-> source[s].name,
         cursor |-> task[p][s].cursor] \in Row
    BY <2>a, <1>a DEF Row
  <2>1. PICK row \in Row : /\ source' = [source EXCEPT ![s] = row]
                           /\ row.status = source[s].status /\ row.url = source[s].url
    BY <1>10, <2>b DEF SaveSuccess
  <2>2. Becomes(p, s, Over)
    BY <1>10 DEF SaveSuccess, Done
  <2>3. /\ \A z \in Sources : source[z].status # "absent" => source'[z].status # "absent"
        /\ \A z \in Sources : source'[z].status # "absent" => source'[z].url \in Urls
        /\ source' \in [Sources -> Row]
    BY <2>1 DEF TypeOK, Grounded
  <2>4. Grounded'
    BY <1>10, <2>2, <2>3, RowsTyped, TypedMove DEF SaveSuccess
  <2>5. task' \in [Procs -> [Sources -> Task]]
    BY <2>2, RowsTyped, BecomesTyped
  <2> QED
    BY <1>10, <2>3, <2>4, <2>5 DEF SaveSuccess, start, world, TypeOK
<1> QED
  BY <1>2, <1>3, <1>4, <1>5, <1>6, <1>7, <1>8, <1>9, <1>10 DEF TaskStep

\* The first states have the types.
LEMMA TypedInit == Init => TypeOK /\ Grounded
<1>1. ASSUME Init PROVE \A u \in Urls : version[u] \in VersionsOf(u)
  BY <1>1, IngestAssumption DEF Init, VersionsOf
<1> QED
  BY <1>1, RowsTyped DEF Init, AbsentRow, Row, TypeOK, Grounded

\* Every step keeps the types.
LEMMA TypedStep == TypeOK /\ Grounded /\ [Next]_vars => TypeOK' /\ Grounded'
<1> SUFFICES ASSUME TypeOK, Grounded, [Next]_vars PROVE TypeOK' /\ Grounded'
  OBVIOUS
<1>1. CASE Next
  BY <1>1, TypedAround, TypedTask DEF Next, ProcStep
<1>2. CASE UNCHANGED vars
  BY <1>2 DEF vars, TypeOK, Grounded
<1> QED
  BY <1>1, <1>2

\* Every variable of the ingest stage keeps its type, on either database.
THEOREM IngestTyped == Spec => []TypeOK
BY TypedInit, TypedStep, PTL DEF Spec

-----------------------------------------------------------------------------
\* Whoever has cursor k of source s in hand, with the entries of left still to
\* insert, has nothing else to catch up on.
Covers(s, k, left) ==
    \A u \in Urls : \A v \in VersionsOf(u) :
        k = <<u, v>> /\ <<s, k>> \notin mistaken
            => \A e \in Shown[u][v] : Dealt(s, e) \/ e \in left

\* Every cursor in the hand of a task is of that kind.
HandsTrue ==
    \A p \in Procs, s \in Sources :
        /\ Covers(s, task[p][s].row.cursor, {})
        /\ Covers(s, task[p][s].cursor, task[p][s].left)
        /\ task[p][s].at = "save" => task[p][s].left = {}

\* No entry is ever taken back, and no mistake forgotten.
Grows == entry \subseteq entry' /\ mistaken \subseteq mistaken'

\* What is covered stays so.
LEMMA CoversStays ==
    ASSUME Grows, NEW s \in Sources, NEW k, NEW left, Covers(s, k, left)
    PROVE  Covers(s, k, left)'
BY DEF Covers, Dealt, Known, Grows

\* There is nothing behind no cursor.
LEMMA NothingToCover ==
    ASSUME NEW s \in Sources, NEW left
    PROVE  Covers(s, NoCursor, left) /\ Covers(s, NoCursor, left)'
BY IngestAssumption DEF Covers

\* A source whose cursor comes from a hand that is true keeps the promise.
LEMMA CursorFromHand ==
    ASSUME TypeOK, CursorAfterEntries, Grows, NEW s \in Sources, NEW row \in Row,
           source' = [source EXCEPT ![s] = row], Covers(s, row.cursor, {})
    PROVE  CursorAfterEntries'
<1>1. ASSUME NEW z \in Sources PROVE Covers(z, source[z].cursor, {})'
  <2>1. PICK r : r = source'[z] /\ Covers(z, r.cursor, {})
    BY DEF TypeOK, CursorAfterEntries, Covers
  <2>2. PICK k : k = r.cursor
    OBVIOUS
  <2>3. Covers(z, k, {})'
    BY <2>1, <2>2, CoversStays
  <2> QED
    BY <2>1, <2>2, <2>3 DEF Covers
<1> QED
  BY <1>1 DEF CursorAfterEntries, Covers

\* A source that is left alone keeps it too.
LEMMA CursorStays ==
    ASSUME CursorAfterEntries, Grows, source' = source
    PROVE  CursorAfterEntries'
BY DEF CursorAfterEntries, Dealt, Known, Grows

\* A hand that is left alone stays true.
LEMMA HandStays ==
    ASSUME HandsTrue, Grows, NEW p \in Procs, NEW s \in Sources,
           task'[p][s] = task[p][s]
    PROVE  /\ Covers(s, task[p][s].row.cursor, {})'
           /\ Covers(s, task[p][s].cursor, task[p][s].left)'
           /\ task'[p][s].at = "save" => task'[p][s].left = {}
<1>1. PICK t : t = task[p][s] /\ t = task'[p][s]
  OBVIOUS
<1>2. Covers(s, t.row.cursor, {}) /\ Covers(s, t.cursor, t.left)
  BY <1>1 DEF HandsTrue
<1>3. Covers(s, t.row.cursor, {})' /\ Covers(s, t.cursor, t.left)'
  BY <1>2, CoversStays
<1> QED
  BY <1>1, <1>3 DEF HandsTrue

\* A task that goes on with a true hand.
LEMMA HandsMove ==
    ASSUME TypeOK, HandsTrue, Grows,
           NEW p \in Procs, NEW s \in Sources, NEW t \in Task, Becomes(p, s, t),
           Covers(s, t.row.cursor, {})', Covers(s, t.cursor, t.left)',
           t.at = "save" => t.left = {}
    PROVE  HandsTrue'
<1>1. /\ task'[p][s] = t
      /\ \A q \in Procs, z \in Sources : (q # p \/ z # s) => task'[q][z] = task[q][z]
  BY BecomesTyped
<1>2. ASSUME NEW q \in Procs, NEW z \in Sources
      PROVE  /\ Covers(z, task[q][z].row.cursor, {})'
             /\ Covers(z, task[q][z].cursor, task[q][z].left)'
             /\ task'[q][z].at = "save" => task'[q][z].left = {}
  <2>1. CASE q = p /\ z = s
    BY <1>1, <2>1 DEF Covers
  <2>2. CASE q # p \/ z # s
    BY <1>1, <2>2, HandStays
  <2> QED
    BY <2>1, <2>2
<1> QED
  BY <1>2 DEF HandsTrue

\* A step of a task keeps the promise of the cursors.
LEMMA CoversTask ==
    ASSUME TypeOK, Grounded, CursorAfterEntries, HandsTrue,
           NEW p \in Procs, NEW s \in Sources, TaskStep(p, s)
    PROVE  CursorAfterEntries' /\ HandsTrue'
<1> USE DEF At
<1>a. /\ task[p][s] \in Task /\ task[p][s].row \in Row /\ task[p][s].left \in SUBSET Entries
      /\ task[p][s].cursor \in Cursors /\ task[p][s].row.cursor \in Cursors
      /\ source[s] \in Row /\ source[s].cursor \in Cursors
  BY DEF TypeOK, Task, Row
<1>b. /\ Covers(s, source[s].cursor, {}) /\ Covers(s, task[p][s].row.cursor, {})
      /\ Covers(s, task[p][s].cursor, task[p][s].left)
      /\ task[p][s].at = "save" => task[p][s].left = {}
  BY DEF CursorAfterEntries, HandsTrue, Covers
<1>c. /\ Over \in Task /\ Over.row.cursor = NoCursor /\ Over.cursor = NoCursor
      /\ Over.at = "done"
  BY RowsTyped DEF Over, Doing, AbsentRow
<1>1. ASSUME NEW at, NEW row \in Row, NEW left \in SUBSET Entries, NEW k \in Cursors,
             at \in {"upsert", "read", "fetch", "insert", "save", "fail"},
             Becomes(p, s, Doing(at, row, left, k)), Grows,
             Covers(s, row.cursor, {}), Covers(s, k, left)', at = "save" => left = {}
      PROVE  HandsTrue'
  <2>1. PICK t \in Task : /\ t = Doing(at, row, left, k)
                          /\ t.at = at /\ t.row = row /\ t.left = left /\ t.cursor = k
    BY <1>1, DoingTyped
  <2>2. PICK j : j = row.cursor
    OBVIOUS
  <2>3. Covers(s, j, {})'
    BY <1>1, <2>2, CoversStays
  <2>4. Covers(s, t.row.cursor, {})'
    BY <2>1, <2>2, <2>3
  <2>5. Covers(s, t.cursor, t.left)'
    BY <1>1, <2>1
  <2> QED
    BY <1>1, <2>1, <2>4, <2>5, HandsMove
<1>2. ASSUME Done(p, s), Grows PROVE HandsTrue'
  <2>1. Covers(s, Over.row.cursor, {})' /\ Covers(s, Over.cursor, Over.left)'
    BY <1>c, NothingToCover
  <2> QED
    BY <1>2, <1>c, <2>1, HandsMove DEF Done
<1>3. CASE \/ FindSource(p, s) \/ ReadBack(p, s)
           \/ ResolveFails(p, s) \/ SaveFailure(p, s) \/ TaskEnds(p, s)
           \/ NotModified(p, s) \/ Fetch(p, s)
           \/ FetchFails(p, s) \/ InsertFails(p, s) \/ AllInserted(p, s)
  <2>1. Grows /\ CursorAfterEntries'
    <3>1. UNCHANGED tables /\ mistaken \subseteq mistaken'
      BY <1>3 DEF FindSource, ReadBack, ResolveFails, SaveFailure, TaskEnds, NotModified, Fetch,
                  FetchFails, InsertFails, AllInserted, world
    <3> QED
      BY <3>1, CursorStays DEF tables, Grows
  <2>2. ASSUME NEW k \in Cursors, NEW left \in SUBSET Entries, Covers(s, k, left)
        PROVE  Covers(s, k, left)'
    BY <2>1, <2>2, CoversStays
  <2>3. CASE FindSource(p, s)
    <3>1. UrlOf[cfg[p]][s] \in Urls /\ cfg[p] \in Configs
      BY <2>3 DEF FindSource, Grounded
    <3>2. PICK row \in Row : /\ row.cursor \in {NoCursor, source[s].cursor}
                             /\ \E at \in {"upsert", "fetch"} :
                                    Becomes(p, s, Doing(at, row, {}, NoCursor))
      <4>1. CASE NeedsSync(p, s)
        BY <2>3, <3>1, <4>1, <1>a, RowsTyped DEF FindSource
      <4>2. CASE ~NeedsSync(p, s)
        BY <2>3, <3>1, <4>2, <1>a, RowsTyped DEF FindSource, Requested, NeedsSync
      <4> QED
        BY <4>1, <4>2
    <3>3. Covers(s, row.cursor, {})
      BY <3>2, <1>b, NothingToCover
    <3> QED
      BY <1>1, <2>1, <3>2, <3>3, RowsTyped, NothingToCover
  <2>4. CASE ReadBack(p, s)
    <3>1. source[s].url \in Urls
      BY <2>4 DEF ReadBack, Grounded
    <3>2. PICK row \in Row : /\ row.cursor = source[s].cursor
                             /\ Becomes(p, s, Doing("fetch", row, {}, NoCursor))
      BY <2>4, <3>1, <1>a, RowsTyped DEF ReadBack, Requested
    <3> QED
      BY <1>1, <1>b, <2>1, <3>2, RowsTyped, NothingToCover
  <2>5. CASE ResolveFails(p, s) \/ SaveFailure(p, s) \/ TaskEnds(p, s)
    BY <1>2, <2>1, <2>5 DEF ResolveFails, SaveFailure, TaskEnds
  <2>6. CASE NotModified(p, s)
    <3>1. PICK u \in Urls, asked \in Cursors :
             u = Url(p, s) /\ asked = task[p][s].row.cursor
      BY <2>6, <1>a DEF NotModified, Url, Grounded
    <3>2. /\ asked = Current(u) \/ Foreign(u, asked)
          /\ mistaken' = mistaken \cup (IF Foreign(u, asked) THEN {<<s, Current(u)>>} ELSE {})
      BY <2>6, <3>1 DEF NotModified
    <3>3. Current(u) \in Cursors /\ Current(u) = <<u, version[u]>>
      BY FeedTyped
    <3>4. PICK k \in Cursors : /\ k \in {NoCursor, Current(u)}
                               /\ Becomes(p, s, Doing("save", task[p][s].row, {}, k))
      BY <2>6, <3>1, <3>3, RowsTyped DEF NotModified
    <3>5. Covers(s, k, {})'
      <4>1. CASE k = NoCursor
        BY <4>1, NothingToCover
      <4>2. CASE k = Current(u) /\ asked = Current(u)
        <5>1. Covers(s, k, {})
          BY <1>b, <3>1, <4>2
        <5> QED
          BY <2>2, <5>1
      <4>3. CASE k = Current(u) /\ Foreign(u, asked)
        <5>1. <<s, k>> \in mistaken'
          BY <3>2, <4>3
        <5> QED
          BY <5>1 DEF Covers
      <4> QED
        BY <3>2, <3>4, <4>1, <4>2, <4>3
    <3> QED
      BY <1>1, <1>a, <1>b, <2>1, <3>4, <3>5
  <2>7. CASE Fetch(p, s)
    <3>1. PICK u \in Urls : u = Url(p, s)
      BY <2>7 DEF Fetch, Url, Grounded
    <3>2. PICK left \in SUBSET Entries, k \in Cursors, row \in Row :
             /\ Becomes(p, s, Doing("insert", row, left, k))
             /\ row.cursor = NoCursor /\ left = Shown[u][version[u]]
             /\ k \in {NoCursor, <<u, version[u]>>}
      <4>1. /\ Request(u, NoCursor) \in Row /\ Request(u, NoCursor).cursor = NoCursor
            /\ Shown[u][version[u]] \in SUBSET Entries
            /\ Current(u) \in Cursors /\ Current(u) = <<u, version[u]>>
        BY FeedTyped, RowsTyped
      <4>2. PICK k \in {NoCursor, Current(u)} :
               Becomes(p, s, Doing("insert", Request(u, NoCursor), Shown[u][version[u]], k))
        BY <2>7, <3>1 DEF Fetch
      <4> QED
        BY <4>1, <4>2, RowsTyped
    <3>3. Covers(s, k, left)
      BY <3>1, <3>2, NothingToCover DEF Covers
    <3>4. Covers(s, k, left)' /\ Covers(s, row.cursor, {})
      BY <2>2, <3>2, <3>3, NothingToCover
    <3> QED
      BY <1>1, <2>1, <3>2, <3>4
  <2>8. CASE FetchFails(p, s) \/ InsertFails(p, s) \/ AllInserted(p, s)
    <3>1. PICK at \in {"fail", "save"}, row \in Row, left \in SUBSET Entries, k \in Cursors :
             /\ row = task[p][s].row /\ left = task[p][s].left /\ k = task[p][s].cursor
             /\ Becomes(p, s, Doing(at, row, left, k))
             /\ at = "save" => left = {}
      BY <2>8, <1>a DEF FetchFails, InsertFails, AllInserted, Goto
    <3>2. Covers(s, row.cursor, {}) /\ Covers(s, k, left)
      BY <3>1, <1>b
    <3>3. Covers(s, k, left)'
      BY <2>2, <3>2
    <3> QED
      BY <1>1, <2>1, <3>1, <3>2, <3>3
  <2> QED
    BY <1>3, <2>3, <2>4, <2>5, <2>6, <2>7, <2>8
<1>4. CASE Upsert(p, s)
  <2>1. PICK row \in Row, left \in SUBSET Entries, k \in Cursors :
           /\ row = task[p][s].row /\ left = task[p][s].left /\ k = task[p][s].cursor
           /\ source' = [source EXCEPT ![s] = row]
           /\ Becomes(p, s, Doing("read", row, left, k))
    BY <1>4, <1>a DEF Upsert, Goto
  <2>2. Covers(s, row.cursor, {}) /\ Covers(s, k, left) /\ Grows
    BY <1>4, <1>b, <2>1 DEF Upsert, Grows, world
  <2>3. Covers(s, k, left)'
    BY <2>2, CoversStays
  <2>4. CursorAfterEntries'
    BY <2>1, <2>2, CursorFromHand
  <2>5. HandsTrue'
    BY <1>1, <2>1, <2>2, <2>3
  <2> QED
    BY <2>4, <2>5
<1>5. ASSUME NEW e \in Entries, Insert(p, s, e) PROVE CursorAfterEntries' /\ HandsTrue'
  <2>1. PICK row \in Row, left \in SUBSET Entries, k \in Cursors :
           /\ row = task[p][s].row /\ left = task[p][s].left /\ k = task[p][s].cursor
           /\ Becomes(p, s, Doing("insert", row, left \ {e}, k))
    BY <1>5, <1>a DEF Insert
  <2>2. Grows /\ Dealt(s, e)'
    BY <1>5 DEF Insert, Dealt, Known, Grows, world
  <2>3. Covers(s, row.cursor, {}) /\ Covers(s, k, left)
    BY <1>b, <2>1
  <2>4. Covers(s, k, left \ {e})'
    <3>1. Covers(s, k, left)'
      BY <2>2, <2>3, CoversStays
    <3> QED
      BY <2>2, <3>1 DEF Covers
  <2>5. CursorAfterEntries'
    BY <1>5, <2>2, CursorStays DEF Insert
  <2>6. left \ {e} \in SUBSET Entries
    OBVIOUS
  <2> QED
    BY <1>1, <2>1, <2>2, <2>3, <2>4, <2>5, <2>6
<1>6. CASE SaveSuccess(p, s)
  <2>a. /\ source[s].status \in {"absent", "active", "archived"}
        /\ source[s].url \in Urls \cup {NoUrl}
        /\ source[s].name \in {NameOf[d] : d \in Configs} \cup {NoConfig}
    BY <1>a DEF Row
  <2>b. [status |-> source[s].status, url |-> source[s].url, name |-> source[s].name,
         cursor |-> task[p][s].cursor] \in Row
    BY <2>a, <1>a DEF Row
  <2>1. PICK row \in Row : /\ source' = [source EXCEPT ![s] = row]
                           /\ row.cursor = task[p][s].cursor
    BY <1>6, <2>b DEF SaveSuccess
  <2>2. Covers(s, row.cursor, {}) /\ Grows /\ Done(p, s)
    BY <1>6, <1>b, <2>1 DEF SaveSuccess, Grows, world
  <2> QED
    BY <1>2, <2>1, <2>2, CursorFromHand
<1> QED
  BY <1>3, <1>4, <1>5, <1>6 DEF TaskStep

\* So does every other step: whoever starts or leaves has no cursor in hand, and
\* reindex takes cursors away.
LEMMA CoversAround ==
    ASSUME TypeOK, Grounded, CursorAfterEntries, HandsTrue,
           \/ \E p \in Procs : \/ \E c \in Configs : Start(p, c)
                               \/ NoChange(p) \/ RotateConfig(p) \/ BeginRotation(p)
                               \/ CommitRotation(p) \/ RetryRotation(p) \/ StartFails(p)
                               \/ Finish(p) \/ Crash(p)
           \/ \E u \in Urls : FeedChanges(u)
           \/ \E s \in Sources, c \in Configs : ReindexSource(s, c)
    PROVE  CursorAfterEntries' /\ HandsTrue'
<1>1. ASSUME NEW p \in Procs, entry' = entry, mistaken' = mistaken,
             \A q \in Procs \ {p} : task'[q] = task[q],
             \A s \in Sources : task'[p][s] = task[p][s] \/ task'[p][s] \in {Over, Waiting}
      PROVE  HandsTrue'
  <2>1. ASSUME NEW q \in Procs, NEW s \in Sources
        PROVE  /\ Covers(s, task[q][s].row.cursor, {})'
               /\ Covers(s, task[q][s].cursor, task[q][s].left)'
               /\ task'[q][s].at = "save" => task'[q][s].left = {}
    <3>1. CASE task'[q][s] = task[q][s]
      BY <1>1, <3>1, HandStays DEF Grows
    <3>2. CASE task'[q][s] \in {Over, Waiting}
      <4>1. PICK t : t = task'[q][s] /\ t.row.cursor = NoCursor /\ t.cursor = NoCursor
                     /\ t.at # "save"
        BY <3>2, RowsTyped DEF Over, Waiting, Doing, AbsentRow
      <4>2. Covers(s, t.row.cursor, {})' /\ Covers(s, t.cursor, t.left)'
        BY <4>1, NothingToCover
      <4> QED
        BY <4>1, <4>2
    <3> QED
      BY <1>1, <3>1, <3>2
  <2> QED
    BY <2>1 DEF HandsTrue
<1>2. ASSUME NEW p \in Procs,
             \/ \E c \in Configs : Start(p, c)
             \/ NoChange(p) \/ RotateConfig(p) \/ BeginRotation(p) \/ CommitRotation(p)
             \/ RetryRotation(p) \/ StartFails(p) \/ Finish(p) \/ Crash(p)
      PROVE  CursorAfterEntries' /\ HandsTrue'
  <2>1. source' = source /\ entry' = entry /\ mistaken' = mistaken
    BY <1>2 DEF Start, NoChange, RotateConfig, BeginRotation, CommitRotation, RetryRotation,
                StartFails, Finish, Crash, tables, world
  <2>2. task' = task \/ Leave(p) \/ Work(p)
    BY <1>2 DEF Start, NoChange, RotateConfig, BeginRotation, CommitRotation, RetryRotation,
                StartFails, Finish, Crash
  <2>3. /\ \A q \in Procs \ {p} : task'[q] = task[q]
        /\ \A s \in Sources : task'[p][s] = task[p][s] \/ task'[p][s] \in {Over, Waiting}
    BY <2>2 DEF Leave, Work, TypeOK
  <2> QED
    BY <1>1, <2>1, <2>3, CursorStays DEF Grows
<1>3. ASSUME NEW u \in Urls, FeedChanges(u) PROVE CursorAfterEntries' /\ HandsTrue'
  BY <1>3, CursorStays DEF FeedChanges, tables, HandsTrue, Covers, Dealt, Known, Grows
<1>4. ASSUME NEW s \in Sources, NEW c \in Configs, ReindexSource(s, c)
      PROVE  CursorAfterEntries' /\ HandsTrue'
  <2>1. source[s] \in Row /\ UrlOf[c][s] \in Urls \cup {NoUrl}
    BY <1>4, IngestAssumption DEF TypeOK
  <2>2. /\ source[s].url \in Urls \cup {NoUrl}
        /\ source[s].name \in {NameOf[d] : d \in Configs} \cup {NoConfig}
        /\ source[s].cursor \in Cursors /\ NoCursor \in Cursors
    BY <2>1, RowsTyped DEF Row
  <2>3. /\ [status |-> "archived", url |-> source[s].url, name |-> source[s].name,
            cursor |-> source[s].cursor] \in Row
        /\ [status |-> "active", url |-> UrlOf[c][s], name |-> NameOf[c],
            cursor |-> NoCursor] \in Row
    BY <2>1, <2>2 DEF Row
  <2>4. \E row \in Row : /\ source' = [source EXCEPT ![s] = row]
                         /\ row.cursor \in {NoCursor, source[s].cursor}
    <3>1. CASE UrlOf[c][s] = NoUrl
      BY <1>4, <2>3, <3>1 DEF ReindexSource
    <3>2. CASE UrlOf[c][s] # NoUrl
      BY <1>4, <2>3, <3>2 DEF ReindexSource
    <3> QED
      BY <3>1, <3>2
  <2>5. PICK row \in Row : /\ source' = [source EXCEPT ![s] = row]
                           /\ row.cursor \in {NoCursor, source[s].cursor}
    BY <2>4
  <2>6. Covers(s, row.cursor, {})
    <3>1. CASE row.cursor = NoCursor
      BY <3>1, NothingToCover
    <3>2. CASE row.cursor = source[s].cursor
      BY <3>2 DEF Covers, CursorAfterEntries
    <3> QED
      BY <2>5, <3>1, <3>2
  <2>7. CursorAfterEntries'
    BY <1>4, <2>5, <2>6, CursorFromHand DEF ReindexSource, Grows, world
  <2> QED
    BY <1>4, <2>7 DEF ReindexSource, HandsTrue, Covers, Dealt, Known, world
<1> QED
  BY <1>2, <1>3, <1>4

LEMMA CoversInit == Init => CursorAfterEntries /\ HandsTrue
<1>1. ASSUME Init, NEW p \in Procs, NEW s \in Sources
      PROVE  /\ source[s].cursor = NoCursor
             /\ task[p][s].row.cursor = NoCursor /\ task[p][s].cursor = NoCursor
             /\ task[p][s].at # "save"
  BY <1>1 DEF Init, Over, Doing, AbsentRow
<1>2. Init => CursorAfterEntries
  BY IngestAssumption DEF Init, AbsentRow, CursorAfterEntries
<1> QED
  BY <1>1, <1>2, NothingToCover DEF HandsTrue

LEMMA CoversStep ==
    ASSUME TypeOK, Grounded, CursorAfterEntries, HandsTrue, [Next]_vars
    PROVE  CursorAfterEntries' /\ HandsTrue'
<1>1. CASE Next
  BY <1>1, CoversAround, CoversTask DEF Next, ProcStep
<1>2. CASE UNCHANGED vars
  BY <1>2 DEF vars, CursorAfterEntries, HandsTrue, Covers, Dealt, Known
<1> QED
  BY <1>1, <1>2

\* A stored cursor never hides an entry that is neither stored nor known,
\* whatever fails, dies, overlaps or writes the row back, the versions of a feed
\* excepted whose endpoint took the validators of another one for its own.
THEOREM IngestCursorAfterEntries == Spec => []CursorAfterEntries
<1>1. TypeOK /\ Grounded /\ CursorAfterEntries /\ HandsTrue /\ [Next]_vars
        => CursorAfterEntries' /\ HandsTrue'
  BY CoversStep
<1> QED
  BY <1>1, TypedInit, TypedStep, CoversInit, PTL DEF Spec

-----------------------------------------------------------------------------
\* Only an entry that is new by its uid and by its link is added.
LEMMA EntriesGrow ==
    ASSUME Next
    PROVE  \/ entry' = entry
           \/ \E s \in Sources, e \in Entries :
                 LinkOf[e] \notin Known /\ entry' = entry \cup {<<s, e>>}
<1>1. ASSUME NEW p \in Procs, NEW s \in Sources, TaskStep(p, s), entry' # entry
      PROVE  \E e \in Entries : LinkOf[e] \notin Known /\ entry' = entry \cup {<<s, e>>}
  <2>1. PICK e \in Entries : Insert(p, s, e)
    BY <1>1 DEF TaskStep, FindSource, Upsert, ReadBack, ResolveFails, NotModified, Fetch,
                FetchFails, InsertFails, AllInserted, SaveSuccess, SaveFailure, TaskEnds, tables
  <2> QED
    BY <1>1, <2>1 DEF Insert, Dealt
<1> QED
  BY <1>1 DEF Next, ProcStep, Start, NoChange, RotateConfig, BeginRotation, CommitRotation,
              RetryRotation, StartFails, Finish, Crash, FeedChanges, ReindexSource, tables

\* Whatever overlaps, the same article is stored once, under one source.
THEOREM IngestOneEntryPerLink == Spec => []OneEntryPerLink
<1>1. Init => OneEntryPerLink
  BY DEF Init, OneEntryPerLink
<1>2. ASSUME OneEntryPerLink, [Next]_vars PROVE OneEntryPerLink'
  <2>1. CASE entry' = entry
    BY <1>2, <2>1 DEF OneEntryPerLink
  <2>2. CASE entry' # entry
    <3>1. PICK s \in Sources, e \in Entries :
             LinkOf[e] \notin Known /\ entry' = entry \cup {<<s, e>>}
      BY <1>2, <2>2, EntriesGrow DEF vars
    <3>2. \A x \in entry : LinkOf[x[2]] # LinkOf[e]
      BY <3>1 DEF Known
    <3>3. \A x \in entry' : x \in entry \/ x = <<s, e>>
      BY <3>1
    <3> QED
      BY <1>2, <3>2, <3>3 DEF OneEntryPerLink
  <2> QED
    BY <2>1, <2>2
<1> QED
  BY <1>1, <1>2, PTL DEF Spec

-----------------------------------------------------------------------------
\* What the unique index on the active rows demands.
OneActive == \A c, d \in Active : c = d

\* As long as no status changes, readers see the same versions.
LEMMA RuleStays == ASSUME rule' = rule PROVE UNCHANGED Version!vars
BY DEF Version!vars, Active

\* A rotation replaces the active configuration, or changes nothing.
LEMMA RotationSwitches ==
    ASSUME TypeOK, OneActive, NEW c \in Configs, rule' = Rotated(c, Active)
    PROVE  OneActive' /\ [Version!Next]_(Version!vars)
<1>1. Active' = {c}
  BY DEF Active, Rotated
<1>2. OneActive'
  BY <1>1 DEF OneActive
<1>3. (CHOOSE d \in Active' : TRUE) = c
  BY <1>1
<1>4. CASE c \in Active
  <2>1. rule' = rule
    BY <1>4 DEF OneActive, Active, Rotated, TypeOK
  <2>2. UNCHANGED Version!vars
    BY <2>1, RuleStays
  <2> QED
    BY <1>2, <2>2
<1>5. CASE c \notin Active
  <2> DEFINE now  == IF Active = {} THEN NoConfig ELSE CHOOSE d \in Active : TRUE
             gone == {d \in Configs : rule[d] = "superseded"}
  <2>1. Active = {now} \ {NoConfig}
    BY IngestAssumption DEF OneActive, Active
  <2>2. now # c
    BY <1>5, <2>1, IngestAssumption
  <2>3. gone' = (gone \cup {now}) \ {c, NoConfig}
    <3>1. gone' = (gone \cup Active) \ {c}
      BY <1>5 DEF Rotated, Active
    <3> QED
      BY <2>1, <3>1, IngestAssumption
  <2>4. now' = c
    BY <1>1, <1>3
  <2>5. Version!Switch(c)
    BY <2>2, <2>3, <2>4 DEF Version!Switch
  <2> QED
    BY <1>2, <2>5 DEF Version!Next
<1> QED
  BY <1>4, <1>5

\* Every step is a switch of the active version or changes none.
LEMMA StepSwitches ==
    ASSUME TypeOK, Grounded, OneActive, [Next]_vars
    PROVE  OneActive' /\ [Version!Next]_(Version!vars)
<1>1. CASE rule' = rule
  BY <1>1, RuleStays DEF OneActive, Active
<1>2. CASE rule' # rule
  <2>1. PICK p \in Procs : RotateConfig(p) \/ CommitRotation(p)
    <3>1. ASSUME NEW p \in Procs, NEW s \in Sources, TaskStep(p, s) PROVE FALSE
      BY <1>2, <3>1 DEF TaskStep, FindSource, Upsert, ReadBack, ResolveFails, NotModified, Fetch,
                        FetchFails, Insert, InsertFails, AllInserted, SaveSuccess, SaveFailure,
                        TaskEnds, tables
    <3>2. Next
      BY <1>2 DEF vars
    <3> QED
      BY <1>2, <3>1, <3>2 DEF Next, ProcStep, Start, NoChange, BeginRotation, RetryRotation,
                              StartFails, Finish, Crash, FeedChanges, ReindexSource, tables
  <2>2. cfg[p] \in Configs /\ rule' = Rotated(cfg[p], Active)
    BY <2>1 DEF RotateConfig, CommitRotation, Grounded
  <2> QED
    BY <2>2, RotationSwitches
<1> QED
  BY <1>1, <1>2

\* Readers of rule_versions see one active configuration that is replaced in one
\* step, although PostgreSQL takes several.
THEOREM IngestImplementsActiveVersion == Spec => ImplementsActiveVersion
<1>1. Init => OneActive /\ Version!Init
  BY DEF Init, OneActive, Active, Version!Init
<1>2. TypeOK /\ Grounded /\ OneActive /\ [Next]_vars
        => OneActive' /\ [Version!Next]_(Version!vars)
  BY StepSwitches
<1> QED
  BY <1>1, <1>2, TypedInit, TypedStep, PTL DEF Spec, ImplementsActiveVersion, Version!Spec

\* What readers of kind 'config' see.
ActiveOne == IF Active = {} THEN NoConfig ELSE CHOOSE c \in Active : TRUE
Retired   == {c \in Configs : rule[c] = "superseded"}

\* ActiveVersion's invariant, for the configurations: where one is active, readers
\* get one, and it is not one that has been superseded; after the first there
\* always is one.
THEOREM IngestReadersGetCurrent == Spec => []Version!ActiveIsCurrent
<1>1. Version!Init => Version!ActiveIsCurrent
  BY DEF Version!Init, Version!ActiveIsCurrent
<1>2. Version!ActiveIsCurrent /\ [Version!Next]_Version!vars => Version!ActiveIsCurrent'
  <2> SUFFICES ASSUME Version!ActiveIsCurrent, [Version!Next]_Version!vars
               PROVE  Version!ActiveIsCurrent'
    OBVIOUS
  <2>1. /\ ActiveOne \in Configs \cup {NoConfig} /\ Retired \subseteq Configs
        /\ ActiveOne \notin Retired /\ (ActiveOne = NoConfig => Retired = {})
    BY DEF Version!ActiveIsCurrent, ActiveOne, Retired
  <2>2. \/ ActiveOne' = ActiveOne /\ Retired' = Retired
        \/ \E v \in Configs :
              ActiveOne' = v /\ Retired' = (Retired \cup {ActiveOne}) \ {v, NoConfig}
    BY DEF Version!Next, Version!Switch, Version!vars, ActiveOne, Retired
  <2>3. NoConfig \notin Configs
    BY IngestAssumption
  <2>4. /\ ActiveOne' \in Configs \cup {NoConfig} /\ Retired' \subseteq Configs
        /\ ActiveOne' \notin Retired' /\ (ActiveOne' = NoConfig => Retired' = {})
    BY <2>1, <2>2, <2>3
  <2> QED  BY <2>4 DEF Version!ActiveIsCurrent, ActiveOne, Retired
<1> QED
  BY <1>1, <1>2, IngestImplementsActiveVersion, PTL
  DEF ImplementsActiveVersion, Version!Spec
=============================================================================
