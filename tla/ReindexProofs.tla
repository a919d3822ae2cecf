---------------------------- MODULE ReindexProofs ----------------------------
(***************************************************************************)
(* Proofs about rule upgrades, for any number of jobs, rows, sources and   *)
(* overlapping processes, any hashes and any batch size, on either         *)
(* database.                                                               *)
(***************************************************************************)
EXTENDS Reindex, FiniteSetTheorems, WellFoundedInduction, TLAPS

-----------------------------------------------------------------------------
(* Numbers and sets.                                                       *)

\* The least-number principle, for sets.
LEMMA LeastId ==
    ASSUME NEW S \in SUBSET Nat, S # {}
    PROVE  \E i \in S : \A k \in S : i <= k
<1>1. IsWellFoundedOn(OpToRel(<, Nat), Nat)
  BY NatLessThanWellFounded
<1>2. PICK i \in S : \A k \in S : <<k, i>> \notin OpToRel(<, Nat)
  BY <1>1, WFMin
<1>3. \A k \in S : ~(k < i)
  BY <1>2 DEF OpToRel
<1> QED
  BY <1>3

\* Lowest is the least element.
LEMMA LowestIs ==
    ASSUME NEW S \in SUBSET Nat, NEW i \in S, \A k \in S : i <= k
    PROVE  Lowest(S) = i
<1>1. Lowest(S) \in S /\ \A k \in S : Lowest(S) <= k
  BY DEF Lowest
<1>2. Lowest(S) \in Nat /\ i \in Nat /\ Lowest(S) <= i /\ i <= Lowest(S)
  BY <1>1
<1> QED
  BY <1>2

\* A page has no holes: every row between the cursor and a row of the page is
\* in it.
LEMMA BatchHasNoHoles ==
    ASSUME ReindexAssumption, NEW f, NEW n \in 0..MaxId, NEW x \in Batch(f, n),
           NEW i \in Ids, n < i, i <= x, f[i] # NoHash
    PROVE  i \in Batch(f, n)
<1> DEFINE Between(y) == {k \in Ids : n < k /\ k < y}
<1>1. IsFiniteSet(Ids)
  <2>1. 1 \in Int /\ MaxId \in Int
    BY DEF ReindexAssumption
  <2> QED  BY <2>1, FS_Interval DEF Ids
<1>2. Between(x) \in SUBSET Ids /\ x \in Ids
  BY DEF Batch
<1>3. IsFiniteSet(Between(x))
  <2> HIDE DEF Between
  <2> QED  BY <1>1, <1>2, FS_Subset
<1>4. Between(i) \in SUBSET Between(x)
  BY <1>2 DEF Ids, ReindexAssumption
<1>5. /\ Cardinality(Between(i)) <= Cardinality(Between(x))
      /\ Cardinality(Between(i)) \in Nat /\ Cardinality(Between(x)) \in Nat
  <2> HIDE DEF Between
  <2>1. IsFiniteSet(Between(i)) /\ Cardinality(Between(i)) <= Cardinality(Between(x))
    BY <1>3, <1>4, FS_Subset
  <2> QED  BY <1>3, <2>1, FS_CardinalityType
<1>6. Cardinality(Between(x)) < BatchSize
  BY DEF Batch
<1> QED
  BY <1>5, <1>6 DEF Batch, ReindexAssumption

\* An empty page is the end of the table, whose rows have increasing ids.
LEMMA EmptyBatchIsTheEnd ==
    ASSUME ReindexAssumption, NEW f, NEW n \in 0..MaxId, Batch(f, n) = {},
           \A i, k \in Ids : f[i] # NoHash /\ k <= i => f[k] # NoHash,
           NEW i \in Ids, n < i
    PROVE  f[i] = NoHash
<1> SUFFICES ASSUME f[i] # NoHash PROVE FALSE
  OBVIOUS
<1>1. n + 1 \in Ids /\ n + 1 <= i
  BY DEF Ids, ReindexAssumption
<1>2. f[n + 1] # NoHash
  BY <1>1
<1>3. {k \in Ids : n < k /\ k < n + 1} = {}
  BY DEF Ids
<1>4. Cardinality({k \in Ids : n < k /\ k < n + 1}) < BatchSize
  BY <1>3, FS_EmptySet DEF ReindexAssumption
<1> QED
  BY <1>1, <1>2, <1>4 DEF Batch

-----------------------------------------------------------------------------
(* The rows of reindex_jobs.                                               *)

Claimed(row, r) == [row EXCEPT !.state = "running", !.owner = r, !.lease = "live"]

Started(t) == [AbsentJob EXCEPT !.target = t, !.state = "pending"]

\* What the constant and the built rows are.
LEMMA AbsentRow ==
    ASSUME ReindexAssumption
    PROVE  /\ AbsentJob \in Job /\ AbsentJob.state = "absent" /\ AbsentJob.last = 0
           /\ AbsentJob.owner = NoRun /\ AbsentJob.lease = "none" /\ AbsentJob.target = "none"
BY DEF AbsentJob, Job, ReindexAssumption

LEMMA StartedRow ==
    ASSUME ReindexAssumption, NEW t \in Targets
    PROVE  /\ Started(t) \in Job /\ Started(t).state = "pending" /\ Started(t).last = 0
           /\ Started(t).owner = NoRun /\ Started(t).lease = "none" /\ Started(t).target = t
BY AbsentRow DEF Started, Job, Unfinished

LEMMA UnleasedRow ==
    ASSUME NEW row \in Job, NEW st \in Unfinished \cup Terminal
    PROVE  /\ Unleased(row, st) \in Job
           /\ Unleased(row, st).state = st /\ Unleased(row, st).owner = NoRun
           /\ Unleased(row, st).lease = "none"
           /\ Unleased(row, st).target = row.target /\ Unleased(row, st).last = row.last
BY DEF Unleased, Job

LEMMA ClaimedRow ==
    ASSUME NEW row \in Job, NEW r \in Runs
    PROVE  /\ Claimed(row, r) \in Job
           /\ Claimed(row, r).state = "running" /\ Claimed(row, r).owner = r
           /\ Claimed(row, r).lease = "live"
           /\ Claimed(row, r).target = row.target /\ Claimed(row, r).last = row.last
BY DEF Claimed, Job, Unfinished

LEMMA CheckpointedRow ==
    ASSUME NEW row \in Job, NEW n \in 0..MaxId
    PROVE  LET new == [row EXCEPT !.last = n]
           IN  /\ new \in Job /\ new.last = n /\ new.target = row.target
               /\ new.state = row.state /\ new.owner = row.owner /\ new.lease = row.lease
BY DEF Job

LEMMA ExpiredRow ==
    ASSUME NEW row \in Job
    PROVE  LET new == [row EXCEPT !.lease = "expired"]
           IN  /\ new \in Job /\ new.last = row.last /\ new.target = row.target
               /\ new.state = row.state /\ new.owner = row.owner /\ new.lease = "expired"
BY DEF Job

-----------------------------------------------------------------------------
(* The inductive invariant.                                                *)

\* A row that is not there is blank, one that is there has a target.
RowsFilled ==
    \A j \in Jobs : IF job[j].state = "absent" THEN job[j] = AbsentJob
                                               ELSE job[j].target \in Targets

\* A job is the business of one run at most.
Apart == \A r, q \in Runs : mine[r] = mine[q] /\ mine[r] # 0 => r = q

Engaged(r) == pc[r] \in {"claim", "list", "work", "write", "finish", "commit", "fail"}
Reading(r) == pc[r] \in {"list", "work", "write"}
Ending(r)  == pc[r] \in {"finish", "commit"}
Paging(r)  == pc[r] \in {"work", "write", "fail"}

\* A run between the start of its job and its end has that job, and its cursor
\* is never behind the job's checkpoint; the row stays its own while its finish
\* transaction is open.
RunFits(r) ==
    /\ (mine[r] # 0) <=> Engaged(r)
    /\ mine[r] # 0 => job[mine[r]].state # "absent"
    /\ pc[r] = "claim" => job[mine[r]].last = 0
    /\ Reading(r) => job[mine[r]].last <= after[r]
    /\ pc[r] = "commit" => Holds(r)
    /\ pc[r] = "write" => Target(r) = "content_hash"

\* Rows with their hashes, each row once, all behind n.
Rows(S, n) ==
    /\ S \subseteq Ids \X Hashes
    /\ \A x \in S : n < x[1]
    /\ \A x, y \in S : x[1] = y[1] => x = y

\* What a run has read and not dealt with lies ahead of its cursor.
PageFits(r) ==
    /\ ~Paging(r) => page[r] = {}
    /\ mine[r] # 0 => IF Target(r) = "categories"
                      THEN page[r] \subseteq Sources \X {"upsert", "archive"}
                      ELSE Rows(page[r], after[r])

\* Row i needs no new hash.
Current(i) == link[i].hash \in {NoHash, Fresh[i]} \/ Fresh[i] = NoHash

\* Up to row x every row needs none, or the run is about to look at it.
Covered(r, x) == \A i \in Ids : i <= x[1] => Current(i) \/ \E y \in page[r] : y[1] = i

\* Row x of a page is there with the hash that was read, or needs none any more.
Ahead(r, x) ==
    /\ link[x[1]].hash # NoHash
    /\ link[x[1]].hash = x[2] \/ Current(x[1])
    /\ Covered(r, x)

\* A run of a link_hash job has left nothing to do behind its cursor, and
\* nothing at all when it gets to the end.
LinksDone(r) ==
    mine[r] # 0 /\ Target(r) = "link_hash" =>
        /\ Reading(r) => \A i \in Ids : i <= after[r] => Current(i)
        /\ Reading(r) => \A x \in page[r] : Ahead(r, x)
        /\ Ending(r) => \A i \in Ids : Current(i)

RunsFit == \A r \in Runs : RunFits(r) /\ PageFits(r) /\ LinksDone(r)

OneActive == \A j, k \in Jobs : rule[j] = "active" /\ rule[k] = "active" => j = k

\* The ids of the entries have no holes.
Numbered == \A i, k \in Ids : link[i].hash # NoHash /\ k <= i => link[k].hash # NoHash

\* An entry is a shadow exactly if an older one has its hash.
Shadowed ==
    \A i \in Ids : link[i].hash # NoHash =>
        (link[i].shadow <=> \E k \in Ids : k < i /\ link[k].hash = link[i].hash)

JobsFit  == JobCoherent /\ RowsFilled /\ OneActive
LinksFit == Numbered /\ Shadowed

Inv == TypeOK /\ JobsFit /\ Apart /\ RunsFit /\ LinksFit

-----------------------------------------------------------------------------
(* What a step leaves as it was.                                           *)

\* Hashes only move to what is fresh, and no row goes away.
Forward ==
    \A i \in Ids : /\ Current(i) => Current(i)'
                   /\ link[i].hash # NoHash => link'[i].hash # NoHash
                   /\ link'[i].hash = link[i].hash \/ Current(i)'

\* Job j stays what a run that is engaged in it relies on.
Steady(j) ==
    /\ job'[j].target = job[j].target /\ job'[j].last = job[j].last
    /\ job'[j].state # "absent"

\* What run q knows stays.
Still(q) ==
    /\ pc'[q] = pc[q] /\ mine'[q] = mine[q] /\ after'[q] = after[q] /\ page'[q] = page[q]

\* A run that does not move stays fit if its job does.
LEMMA Bystander ==
    ASSUME NEW q \in Runs, RunFits(q), PageFits(q), LinksDone(q), Still(q), Forward,
           TypeOK,
           mine[q] # 0 => Steady(mine[q]),
           pc[q] = "commit" => /\ job'[mine[q]].state = job[mine[q]].state
                               /\ job'[mine[q]].owner = job[mine[q]].owner
    PROVE  RunFits(q)' /\ PageFits(q)' /\ LinksDone(q)'
<1>1. mine'[q] = mine[q] /\ pc'[q] = pc[q] /\ after'[q] = after[q] /\ page'[q] = page[q]
  BY DEF Still
<1>2. mine[q] # 0 => Target(q)' = Target(q)
  BY <1>1 DEF Target, Steady
<1>3. RunFits(q)'
  <2>1. mine[q] # 0 <=> Engaged(q)
    BY DEF RunFits
  <2>2. Engaged(q)' = Engaged(q) /\ Reading(q)' = Reading(q)
    BY <1>1 DEF Engaged, Reading
  <2>3. Reading(q) \/ pc[q] \in {"claim", "commit", "write"} => Engaged(q)
    BY DEF Engaged, Reading
  <2> QED  BY <1>1, <1>2, <2>1, <2>2, <2>3 DEF RunFits, Steady, Holds
<1>4. PageFits(q)'
  <2>1. Paging(q)' = Paging(q)
    BY <1>1 DEF Paging
  <2> QED  BY <1>1, <1>2, <2>1 DEF PageFits
<1>5. ASSUME mine[q] # 0, Target(q) = "link_hash"
      PROVE  /\ Reading(q) => \A i \in Ids : i <= after[q] => Current(i)'
             /\ Reading(q) => \A x \in page[q] : Ahead(q, x)'
             /\ Ending(q) => \A i \in Ids : Current(i)'
  <2>1. \A i \in Ids : Current(i) => Current(i)'
    BY DEF Forward
  <2>2. Reading(q) => \A i \in Ids : i <= after[q] => Current(i)'
    BY <1>5, <2>1 DEF LinksDone
  <2>3. ASSUME Reading(q), NEW x \in page[q]
        PROVE  Ahead(q, x)'
    <3>1. x[1] \in Ids /\ Ahead(q, x)
      BY <1>5, <2>3 DEF PageFits, Rows, LinksDone
    <3>2. link'[x[1]].hash # NoHash /\ (link'[x[1]].hash = x[2] \/ Current(x[1])')
      BY <3>1 DEF Ahead, Forward
    <3>3. Covered(q, x)'
      BY <1>1, <2>1, <3>1 DEF Ahead, Covered
    <3> QED  BY <3>2, <3>3 DEF Ahead
  <2>4. Ending(q) => \A i \in Ids : Current(i)'
    BY <1>5, <2>1 DEF LinksDone
  <2> QED  BY <2>2, <2>3, <2>4
<1>6. LinksDone(q)'
  <2>1. Reading(q)' = Reading(q) /\ Ending(q)' = Ending(q)
    BY <1>1 DEF Reading, Ending
  <2> QED  BY <1>1, <1>2, <1>5, <2>1 DEF LinksDone
<1> QED
  BY <1>3, <1>4, <1>6

\* Where no hash changes, none gets worse.
LEMMA LinksStay ==
    ASSUME UNCHANGED link
    PROVE  /\ Forward
           /\ LinksFit => LinksFit'
           /\ \A i \in Ids : Current(i)' = Current(i)
BY DEF Forward, LinksFit, Numbered, Shadowed, Current

\* Where no job and no version changes, they stay coherent.
LEMMA JobsStay ==
    ASSUME UNCHANGED <<job, rule>>, JobsFit
    PROVE  JobsFit'
BY DEF JobsFit, JobCoherent, RowsFilled, OneActive

Labels == {"idle", "reclaim", "start", "claim", "list", "work", "write", "finish", "commit", "fail"}

\* The two halves of the type invariant.
TablesTyped ==
    /\ database \in {"sqlite", "postgres"}
    /\ job \in [Jobs -> Job]
    /\ rule \in [Jobs -> {"none", "pending", "active", "superseded"}]
    /\ link \in [Ids -> [hash : Hashes \cup {NoHash}, shadow : BOOLEAN]]
    /\ content \in [Ids -> Hashes \cup {NoHash}]
    /\ source \in [Sources -> {"absent", "active", "archived"}]

Pages == SUBSET ((Ids \X (Hashes \cup {NoHash})) \cup (Sources \X {"upsert", "archive"}))

LocalsTyped ==
    /\ pc \in [Runs -> Labels]
    /\ mine \in [Runs -> 0..MaxJobs]
    /\ after \in [Runs -> 0..MaxId]
    /\ page \in [Runs -> Pages]
    /\ seen \in [Runs -> 0..MaxJobs]

LEMMA TypeHalves == TypeOK <=> TablesTyped /\ LocalsTyped
BY DEF TypeOK, TablesTyped, LocalsTyped, Labels, Pages

\* The job of an engaged run, and what kind of number it is.
LEMMA MineIsJob ==
    ASSUME ReindexAssumption, TypeOK, NEW r \in Runs
    PROVE  /\ mine[r] \in Nat /\ (mine[r] # 0 <=> mine[r] \in Jobs)
           /\ mine[r] # 0 => job[mine[r]] \in Job
<1>1. mine[r] \in 0..MaxJobs
  BY DEF TypeOK
<1>2. mine[r] \in Nat /\ (mine[r] # 0 <=> mine[r] \in Jobs)
  BY <1>1 DEF Jobs, ReindexAssumption
<1> QED
  BY <1>2 DEF TypeOK

\* The other runs stay fit where their jobs stay.
LEMMA OthersFit ==
    ASSUME TypeOK, RunsFit, Forward, NEW r,
           \A q \in Runs : q # r => Still(q) /\ (mine[q] # 0 => job'[mine[q]] = job[mine[q]])
    PROVE  \A q \in Runs : q # r => RunFits(q)' /\ PageFits(q)' /\ LinksDone(q)'
<1> SUFFICES ASSUME NEW q \in Runs, q # r
             PROVE  RunFits(q)' /\ PageFits(q)' /\ LinksDone(q)'
  OBVIOUS
<1>1. RunFits(q) /\ PageFits(q) /\ LinksDone(q) /\ Still(q)
  BY DEF RunsFit
<1>2. mine[q] # 0 => Steady(mine[q])
  BY <1>1 DEF RunFits, Steady
<1>3. pc[q] = "commit" => mine[q] # 0
  BY <1>1 DEF RunFits, Engaged
<1> QED
  BY <1>1, <1>2, <1>3, Bystander

\* A process that is over knows nothing any more.
LEMMA LeaveFits ==
    ASSUME ReindexAssumption, TypeOK, Apart, NEW r \in Runs, Leave(r)
    PROVE  /\ LocalsTyped' /\ Apart'
           /\ RunFits(r)' /\ PageFits(r)' /\ LinksDone(r)'
           /\ \A q \in Runs : q # r => Still(q)
<1>1. pc'[r] = "idle" /\ mine'[r] = 0 /\ page'[r] = {}
  BY DEF Leave, TypeOK
<1>2. LocalsTyped'
  <2>1. 0 \in 0..MaxJobs /\ 0 \in 0..MaxId
    BY DEF ReindexAssumption
  <2> QED  BY <2>1 DEF Leave, TypeOK, LocalsTyped, Labels, Pages
<1>3. \A q \in Runs : q # r => Still(q)
  BY DEF Leave, TypeOK, Still
<1>4. Apart'
  BY <1>1, <1>3 DEF Apart, Still
<1>5. RunFits(r)' /\ PageFits(r)' /\ LinksDone(r)'
  BY <1>1 DEF RunFits, PageFits, LinksDone, Engaged, Reading
<1> QED
  BY <1>2, <1>3, <1>4, <1>5

\* A process that goes to another place and knows what it knew.
LEMMA GotoFits ==
    ASSUME TypeOK, Apart, NEW r \in Runs, NEW l \in Labels, Goto(r, l), UNCHANGED mine,
           \A q \in Runs : q # r => after'[q] = after[q] /\ page'[q] = page[q]
    PROVE  /\ pc' \in [Runs -> Labels] /\ mine' \in [Runs -> 0..MaxJobs]
           /\ pc'[r] = l /\ Apart'
           /\ \A q \in Runs : q # r => Still(q)
BY DEF Goto, TypeOK, Apart, Still, Labels

\* The invariant from its parts, for a step of one run.
LEMMA RunStepFits ==
    ASSUME TablesTyped', LocalsTyped', JobsFit', Apart', LinksFit', NEW r \in Runs,
           RunFits(r)', PageFits(r)', LinksDone(r)',
           \A q \in Runs : q # r => RunFits(q)' /\ PageFits(q)' /\ LinksDone(q)'
    PROVE  Inv'
<1>1. TypeOK'
  BY TypeHalves, PTL
<1>2. RunsFit'
  BY DEF RunsFit
<1> QED
  BY <1>1, <1>2 DEF Inv

-----------------------------------------------------------------------------
(* Steps that change no row.                                               *)

\* A process ends, by itself or not.
LEMMA LeaveStep ==
    ASSUME ReindexAssumption, Inv, NEW r \in Runs, Leave(r), UNCHANGED tables
    PROVE  Inv'
<1>1. TypeOK /\ JobsFit /\ Apart /\ RunsFit /\ LinksFit
  BY DEF Inv
<1>2. UNCHANGED <<job, rule, link>>
  BY DEF tables
<1>3. JobsFit' /\ LinksFit' /\ Forward
  BY <1>1, <1>2, JobsStay, LinksStay
<1>4. TablesTyped'
  BY <1>1 DEF TablesTyped, TypeOK, tables
<1>5. \A q \in Runs : q # r => Still(q) /\ (mine[q] # 0 => job'[mine[q]] = job[mine[q]])
  BY <1>1, <1>2, LeaveFits
<1> QED
  BY <1>1, <1>3, <1>4, <1>5, LeaveFits, OthersFit, RunStepFits

\* A process goes on to its next step; what it has read and seen fits there.
LEMMA GotoStep ==
    ASSUME ReindexAssumption, Inv, NEW r \in Runs, NEW l \in Labels, Goto(r, l),
           UNCHANGED <<tables, mine, after, page>>, seen' \in [Runs -> 0..MaxJobs],
           RunFits(r)', PageFits(r)', LinksDone(r)'
    PROVE  Inv'
<1>1. TypeOK /\ JobsFit /\ Apart /\ RunsFit /\ LinksFit
  BY DEF Inv
<1>2. UNCHANGED <<job, rule, link>>
  BY DEF tables
<1>3. JobsFit' /\ LinksFit' /\ Forward
  BY <1>1, <1>2, JobsStay, LinksStay
<1>4. TablesTyped'
  BY <1>1 DEF TablesTyped, TypeOK, tables
<1>5. pc' \in [Runs -> Labels] /\ Apart' /\ \A q \in Runs : q # r => Still(q)
  BY <1>1, GotoFits
<1>6. LocalsTyped'
  BY <1>1, <1>5 DEF LocalsTyped, TypeOK, Pages
<1>7. \A q \in Runs : q # r => Still(q) /\ (mine[q] # 0 => job'[mine[q]] = job[mine[q]])
  BY <1>2, <1>5
<1> QED
  BY <1>1, <1>3, <1>4, <1>5, <1>6, <1>7, OthersFit, RunStepFits

\* What an engaged run relies on, in one place.
LEMMA EngagedRun ==
    ASSUME ReindexAssumption, Inv, NEW r \in Runs, Engaged(r)
    PROVE  /\ mine[r] \in Jobs /\ mine[r] # 0 /\ job[mine[r]] \in Job
           /\ job[mine[r]].state # "absent" /\ Target(r) \in Targets
           /\ RunFits(r) /\ PageFits(r) /\ LinksDone(r)
<1>1. TypeOK /\ RunFits(r) /\ PageFits(r) /\ LinksDone(r) /\ JobsFit
  BY DEF Inv, RunsFit
<1>2. mine[r] # 0 /\ mine[r] \in Jobs /\ job[mine[r]] \in Job
  BY <1>1, MineIsJob DEF RunFits
<1>3. job[mine[r]].state # "absent"
  BY <1>1, <1>2 DEF RunFits
<1> QED
  BY <1>1, <1>2, <1>3 DEF JobsFit, RowsFilled, Target

LEMMA StartRunStep ==
    ASSUME ReindexAssumption, Inv, NEW r \in Runs, StartRun(r) \/ MaintenanceFails(r)
    PROVE  Inv'
<1>1. PICK l \in {"reclaim", "start"} :
        Goto(r, l) /\ pc[r] \in {"idle", "reclaim"} /\ UNCHANGED <<tables, mine, after, page, seen>>
  BY DEF StartRun, MaintenanceFails
<1>2. TypeOK /\ RunFits(r) /\ PageFits(r)
  BY DEF Inv, RunsFit
<1>3. pc'[r] = l /\ mine'[r] = mine[r] /\ page'[r] = page[r]
  BY <1>1, <1>2 DEF Goto, TypeOK
<1>4. mine[r] = 0 /\ page[r] = {}
  BY <1>1, <1>2 DEF RunFits, PageFits, Engaged, Paging
<1>5. RunFits(r)' /\ PageFits(r)' /\ LinksDone(r)'
  BY <1>1, <1>3, <1>4 DEF RunFits, PageFits, LinksDone, Engaged, Reading, Paging
<1>6. seen' \in [Runs -> 0..MaxJobs] /\ l \in Labels
  BY <1>1, <1>2 DEF TypeOK, Labels
<1> QED
  BY <1>1, <1>5, <1>6, GotoStep

LEMMA WorkFailsStep ==
    ASSUME ReindexAssumption, Inv, NEW r \in Runs, WorkFails(r)
    PROVE  Inv'
<1>1. Goto(r, "fail") /\ Engaged(r) /\ UNCHANGED <<tables, mine, after, page, seen>>
  BY DEF WorkFails, Engaged
<1>2. TypeOK /\ mine[r] # 0 /\ job[mine[r]].state # "absent" /\ PageFits(r)
  BY <1>1, EngagedRun DEF Inv
<1>3. pc'[r] = "fail" /\ UNCHANGED <<mine, page, after, job>>
  BY <1>1, <1>2 DEF Goto, TypeOK, tables
<1>4. RunFits(r)' /\ LinksDone(r)'
  BY <1>2, <1>3 DEF RunFits, LinksDone, Engaged, Reading, Ending
<1>5. PageFits(r)'
  BY <1>2, <1>3 DEF PageFits, Paging, Target
<1>6. seen' \in [Runs -> 0..MaxJobs] /\ "fail" \in Labels
  BY <1>1, <1>2 DEF TypeOK, Labels
<1> QED
  BY <1>1, <1>4, <1>5, <1>6, GotoStep

LEMMA PeekStep ==
    ASSUME ReindexAssumption, Inv, NEW r \in Runs, NEW x, PeekContent(r, x)
    PROVE  Inv'
<1>1. /\ Goto(r, "write") /\ pc[r] = "work" /\ Engaged(r) /\ Reading(r)
      /\ Target(r) = "content_hash" /\ UNCHANGED <<tables, mine, after, page, seen>>
  BY DEF PeekContent, Head, Engaged, Reading
<1>2. /\ TypeOK /\ mine[r] # 0 /\ job[mine[r]].state # "absent"
      /\ RunFits(r) /\ PageFits(r) /\ LinksDone(r)
  BY <1>1, EngagedRun DEF Inv
<1>3. pc'[r] = "write" /\ UNCHANGED <<mine, page, after, job, link>>
  BY <1>1, <1>2 DEF Goto, TypeOK, tables
<1>4. Target(r)' = Target(r) /\ Engaged(r)' /\ Reading(r)' /\ Paging(r)' /\ Paging(r)
  BY <1>1, <1>3 DEF Target, Engaged, Reading, Paging
<1>5. RunFits(r)' /\ PageFits(r)'
  BY <1>1, <1>2, <1>3, <1>4 DEF RunFits, PageFits
<1>6. LinksDone(r)'
  BY <1>1, <1>4 DEF LinksDone
<1>7. seen' \in [Runs -> 0..MaxJobs] /\ "write" \in Labels
  BY <1>1, <1>2 DEF TypeOK, Labels
<1> QED
  BY <1>1, <1>5, <1>6, <1>7, GotoStep

LEMMA SourcesDoneStep ==
    ASSUME ReindexAssumption, Inv, NEW r \in Runs, SourcesDone(r)
    PROVE  Inv'
<1>1. /\ Goto(r, "finish") /\ page[r] = {} /\ Engaged(r) /\ Target(r) = "categories"
      /\ UNCHANGED <<tables, mine, after, page, seen>>
  BY DEF SourcesDone, Engaged
<1>2. TypeOK /\ mine[r] # 0 /\ job[mine[r]].state # "absent"
  BY <1>1, EngagedRun DEF Inv
<1>3. pc'[r] = "finish" /\ page'[r] = {} /\ UNCHANGED <<mine, job>>
  BY <1>1, <1>2 DEF Goto, TypeOK, tables
<1>4. RunFits(r)'
  BY <1>2, <1>3 DEF RunFits, Engaged, Reading
<1>5. PageFits(r)' /\ LinksDone(r)'
  BY <1>1, <1>2, <1>3 DEF PageFits, LinksDone, Target
<1>6. seen' \in [Runs -> 0..MaxJobs] /\ "finish" \in Labels
  BY <1>1, <1>2 DEF TypeOK, Labels
<1> QED
  BY <1>1, <1>4, <1>5, <1>6, GotoStep

\* The active version is one of the jobs.
LEMMA ActiveIsJob ==
    ASSUME ReindexAssumption
    PROVE  (IF Active = {} THEN 0 ELSE Lowest(Active)) \in 0..MaxJobs
<1>1. ASSUME Active # {}
      PROVE  Lowest(Active) \in Jobs
  <2>1. Active \in SUBSET Nat /\ Active \subseteq Jobs
    BY DEF Active, Jobs, ReindexAssumption
  <2>2. PICK j \in Active : \A k \in Active : j <= k
    <3> HIDE DEF Active
    <3> QED  BY <1>1, <2>1, LeastId
  <2> QED  BY <2>1, <2>2, LowestIs
<1> QED
  BY <1>1 DEF Jobs, ReindexAssumption

LEMMA BeginFinishStep ==
    ASSUME ReindexAssumption, Inv, NEW r \in Runs, BeginFinish(r)
    PROVE  Inv'
<1>1. /\ Goto(r, "commit") /\ pc[r] = "finish" /\ Engaged(r) /\ Ending(r) /\ Holds(r)
      /\ UNCHANGED <<tables, mine, after, page>>
  BY DEF BeginFinish, Engaged, Ending
<1>2. /\ TypeOK /\ mine[r] # 0 /\ job[mine[r]].state # "absent"
      /\ PageFits(r) /\ LinksDone(r)
  BY <1>1, EngagedRun DEF Inv
<1>3. pc'[r] = "commit" /\ page[r] = {} /\ UNCHANGED <<mine, after, job, page, link>>
  BY <1>1, <1>2 DEF Goto, TypeOK, tables, PageFits, Paging
<1>4. Target(r)' = Target(r) /\ Engaged(r)' /\ ~Reading(r)' /\ Ending(r)'
  BY <1>3 DEF Target, Engaged, Reading, Ending
<1>5. RunFits(r)' /\ PageFits(r)'
  BY <1>1, <1>2, <1>3, <1>4 DEF RunFits, PageFits, Holds
<1>6. LinksDone(r)'
  BY <1>1, <1>2, <1>3, <1>4 DEF LinksDone, Current
<1>7. seen' \in [Runs -> 0..MaxJobs] /\ "commit" \in Labels
  BY <1>2, ActiveIsJob DEF TypeOK, Labels, BeginFinish
<1> QED
  BY <1>1, <1>5, <1>6, <1>7, GotoStep

-----------------------------------------------------------------------------
(* Steps that change jobs and versions.                                    *)

\* A row is replaced: the others stay.
LEMMA RowReplaced ==
    ASSUME TypeOK, NEW j \in Jobs, NEW row \in Job, job' = [job EXCEPT ![j] = row]
    PROVE  /\ job' \in [Jobs -> Job] /\ job'[j] = row
           /\ \A k \in Jobs : k # j => job'[k] = job[k]
BY DEF TypeOK

\* A job that is there and does not end well may change its state if it does
\* not take up again what it has ended, and holds a lease only to run.
LEMMA RowStays ==
    ASSUME ReindexAssumption, TypeOK, JobsFit, NEW j \in Jobs, NEW row \in Job,
           job' = [job EXCEPT ![j] = row], UNCHANGED rule,
           job[j].state # "absent", row.state # "absent", row.target = job[j].target,
           (row.owner # NoRun) <=> (row.state = "running"),
           (row.lease # "none") <=> (row.state = "running"),
           job[j].state # "completed", row.state # "completed",
           row.state \in Unfinished => job[j].state \in Unfinished
    PROVE  JobsFit'
<1>1. job'[j] = row /\ \A k \in Jobs : k # j => job'[k] = job[k]
  BY RowReplaced
<1>2. RowsFilled'
  BY <1>1 DEF RowsFilled, JobsFit
<1>3. OneActive'
  BY DEF OneActive, JobsFit
<1>4. ASSUME NEW k \in Jobs
      PROVE  /\ (job'[k].owner # NoRun) <=> (job'[k].state = "running")
             /\ (job'[k].lease # "none") <=> (job'[k].state = "running")
             /\ (rule'[k] \in {"active", "superseded"}) <=> (job'[k].state = "completed")
             /\ (rule'[k] = "none") <=> (job'[k].state = "absent")
  BY <1>1 DEF JobsFit, JobCoherent
<1>5. ASSUME NEW k \in Jobs, NEW i \in Jobs,
             {job'[k].state, job'[i].state} \subseteq Unfinished, job'[k].target = job'[i].target
      PROVE  k = i
  <2>1. job[k].state \in Unfinished /\ job[i].state \in Unfinished
    BY <1>1, <1>5
  <2>2. job[k].target = job[i].target
    BY <1>1, <1>5
  <2> QED  BY <2>1, <2>2 DEF JobsFit, JobCoherent
<1>6. JobCoherent'
  BY <1>4, <1>5 DEF JobCoherent
<1> QED
  BY <1>2, <1>3, <1>6 DEF JobsFit

\* Where one row of reindex_jobs alone changes, the tables stay typed.
LEMMA JobTyped ==
    ASSUME TypeOK, job' \in [Jobs -> Job], UNCHANGED <<database, rule, link, content, source>>
    PROVE  TablesTyped'
BY DEF TypeOK, TablesTyped

\* The jobs of the others are other jobs.
LEMMA OtherJobs ==
    ASSUME ReindexAssumption, TypeOK, Apart, NEW r \in Runs, mine[r] # 0,
           \A k \in Jobs : k # mine[r] => job'[k] = job[k]
    PROVE  \A q \in Runs : q # r => (mine[q] # 0 => job'[mine[q]] = job[mine[q]])
BY MineIsJob DEF Apart

LEMMA ClaimStep ==
    ASSUME ReindexAssumption, Inv, NEW r \in Runs, ClaimById(r)
    PROVE  Inv'
<1> DEFINE j   == mine[r]
           row == Claimed(job[j], r)
<1>1. /\ pc[r] = "claim" /\ Engaged(r) /\ job[j].state = "pending" /\ Goto(r, "list")
      /\ after' = [after EXCEPT ![r] = job[j].last]
      /\ UNCHANGED <<database, rule, link, content, source, mine, page, seen>>
  BY DEF ClaimById, Engaged
<1>2. /\ TypeOK /\ JobsFit /\ Apart /\ RunsFit /\ LinksFit
      /\ j \in Jobs /\ j # 0 /\ job[j] \in Job
      /\ RunFits(r) /\ PageFits(r) /\ LinksDone(r)
  BY <1>1, EngagedRun DEF Inv
<1>3. job' = [job EXCEPT ![j] = row]
  BY <1>2 DEF ClaimById, Claimed, TypeOK
<1>4. /\ row \in Job /\ row.state = "running" /\ row.owner = r /\ row.lease = "live"
      /\ row.target = job[j].target /\ row.last = job[j].last
  BY <1>2, ClaimedRow
<1>5. /\ job' \in [Jobs -> Job] /\ job'[j] = row
      /\ \A k \in Jobs : k # j => job'[k] = job[k]
  BY <1>2, <1>3, <1>4, RowReplaced
<1>6. JobsFit'
  BY <1>1, <1>2, <1>3, <1>4, RowStays DEF Unfinished, ReindexAssumption
<1>7. job[j].last = 0 /\ page[r] = {}
  BY <1>1, <1>2 DEF RunFits, PageFits, Paging
<1>8. pc'[r] = "list" /\ mine'[r] = j /\ page'[r] = {} /\ after'[r] = 0 /\ 0 \in 0..MaxId
  BY <1>1, <1>2, <1>7 DEF TypeOK, Goto, ReindexAssumption
<1>9. RunFits(r)' /\ PageFits(r)'
  BY <1>2, <1>4, <1>5, <1>7, <1>8 DEF RunFits, PageFits, Rows, Engaged, Reading, Paging
<1>10. LinksDone(r)'
  <2>1. ~Ending(r)' /\ \A i \in Ids : ~(i <= after'[r])
    BY <1>8 DEF Ending, Ids
  <2> QED  BY <1>8, <2>1 DEF LinksDone
<1>11. "list" \in Labels /\ \A q \in Runs : q # r => after'[q] = after[q] /\ page'[q] = page[q]
  BY <1>1, <1>2 DEF Labels, TypeOK
<1>12. pc' \in [Runs -> Labels] /\ Apart' /\ \A q \in Runs : q # r => Still(q)
  BY <1>1, <1>2, <1>11, GotoFits
<1>13. LocalsTyped'
  BY <1>1, <1>2, <1>7, <1>8, <1>12 DEF LocalsTyped, TypeOK, Pages
<1>14. \A q \in Runs : q # r => (mine[q] # 0 => job'[mine[q]] = job[mine[q]])
  BY <1>2, <1>5, OtherJobs
<1>15. TablesTyped' /\ LinksFit' /\ Forward
  BY <1>1, <1>2, <1>5, JobTyped, LinksStay
<1> QED
  BY <1>2, <1>6, <1>9, <1>10, <1>12, <1>13, <1>14, <1>15, OthersFit, RunStepFits

LEMMA CheckpointStep ==
    ASSUME ReindexAssumption, Inv, NEW r \in Runs, Checkpoint(r)
    PROVE  Inv'
<1> DEFINE j   == mine[r]
           row == [job[j] EXCEPT !.last = after[r]]
<1>1. /\ pc[r] = "work" /\ Engaged(r) /\ Reading(r) /\ page[r] = {}
      /\ UNCHANGED <<database, rule, link, content, source, mine, after, page, seen>>
  BY DEF Checkpoint, Engaged, Reading
<1>2. /\ TypeOK /\ JobsFit /\ Apart /\ RunsFit /\ LinksFit
      /\ j \in Jobs /\ j # 0 /\ job[j] \in Job /\ job[j].state # "absent" /\ after[r] \in 0..MaxId
      /\ RunFits(r) /\ PageFits(r) /\ LinksDone(r)
  BY <1>1, EngagedRun DEF Inv, TypeOK
<1>3. LinksFit' /\ Forward /\ \A i \in Ids : Current(i)' = Current(i)
  BY <1>1, <1>2, LinksStay
<1>4. CASE ~Holds(r)
  <2>1. Goto(r, "fail") /\ UNCHANGED job
    BY <1>4 DEF Checkpoint
  <2>2. pc'[r] = "fail"
    BY <1>2, <2>1 DEF Goto, TypeOK
  <2>3. RunFits(r)' /\ PageFits(r)' /\ LinksDone(r)'
    BY <1>1, <1>2, <2>1, <2>2
    DEF RunFits, PageFits, Rows, LinksDone, Engaged, Reading, Paging, Ending
  <2>4. "fail" \in Labels /\ UNCHANGED tables /\ seen' \in [Runs -> 0..MaxJobs]
    BY <1>1, <1>2, <2>1 DEF Labels, tables, TypeOK
  <2> QED  BY <1>1, <2>1, <2>3, <2>4, GotoStep
<1>5. CASE Holds(r)
  <2>1. Goto(r, "list") /\ job' = [job EXCEPT ![j] = row]
    BY <1>2, <1>5 DEF Checkpoint, TypeOK
  <2>2. /\ row \in Job /\ row.last = after[r] /\ row.target = job[j].target
        /\ row.state = job[j].state /\ row.owner = job[j].owner /\ row.lease = job[j].lease
    BY <1>2, CheckpointedRow
  <2>3. /\ job' \in [Jobs -> Job] /\ job'[j] = row
        /\ \A k \in Jobs : k # j => job'[k] = job[k]
    BY <1>2, <2>1, <2>2, RowReplaced
  <2>4. job[j].state = "running"
    BY <1>5 DEF Holds
  <2>5. JobsFit'
    <3>1. (job[j].owner # NoRun) /\ (job[j].lease # "none")
      BY <1>2, <2>4 DEF JobsFit, JobCoherent
    <3>2. /\ row.state # "absent" /\ row.state # "completed" /\ row.state = "running"
          /\ row.owner # NoRun /\ row.lease # "none"
          /\ job[j].state \in Unfinished /\ job[j].state # "completed"
      BY <2>2, <2>4, <3>1 DEF Unfinished
    <3> HIDE DEF row, j
    <3> QED  BY <1>1, <1>2, <2>1, <2>2, <3>2, RowStays
  <2>6. pc'[r] = "list" /\ mine'[r] = j /\ page'[r] = {} /\ after'[r] = after[r]
    BY <1>1, <1>2, <2>1 DEF TypeOK, Goto
  <2>7. RunFits(r)' /\ PageFits(r)'
    <3>1. Engaged(r)' /\ ~Paging(r)' /\ job'[j].last <= after'[r] /\ job'[j].state # "absent"
      BY <1>2, <2>2, <2>3, <2>6 DEF Engaged, Paging, ReindexAssumption
    <3> QED  BY <1>2, <2>6, <3>1 DEF RunFits, PageFits, Rows
  <2>8. LinksDone(r)'
    <3>1. ~Ending(r)' /\ (Target(r)' = Target(r))
      BY <2>2, <2>3, <2>6 DEF Ending, Target
    <3> QED  BY <1>1, <1>2, <1>3, <2>6, <3>1 DEF LinksDone
  <2>9. "list" \in Labels /\ \A q \in Runs : q # r => after'[q] = after[q] /\ page'[q] = page[q]
    BY <1>1, <1>2 DEF Labels, TypeOK
  <2>10. pc' \in [Runs -> Labels] /\ Apart' /\ \A q \in Runs : q # r => Still(q)
    BY <1>1, <1>2, <2>1, <2>9, GotoFits
  <2>11. LocalsTyped'
    BY <1>1, <1>2, <2>10 DEF LocalsTyped, TypeOK, Pages
  <2>12. \A q \in Runs : q # r => (mine[q] # 0 => job'[mine[q]] = job[mine[q]])
    BY <1>2, <2>3, OtherJobs
  <2>13. TablesTyped'
    BY <1>1, <1>2, <2>3, JobTyped
  <2> QED
    BY <1>2, <1>3, <2>5, <2>7, <2>8, <2>10, <2>11, <2>12, <2>13, OthersFit, RunStepFits
<1> QED
  BY <1>4, <1>5

LEMMA MarkFailedStep ==
    ASSUME ReindexAssumption, Inv, NEW r \in Runs, MarkFailed(r)
    PROVE  Inv'
<1> DEFINE j   == mine[r]
           row == Unleased(job[j], "failed")
<1>1. /\ pc[r] = "fail" /\ Engaged(r) /\ Leave(r)
      /\ UNCHANGED <<database, rule, link, content, source>>
  BY DEF MarkFailed, Engaged
<1>2. CASE ~Holds(r)
  BY <1>1, <1>2, LeaveStep DEF MarkFailed, tables
<1>3. CASE Holds(r)
  <2>1. /\ TypeOK /\ JobsFit /\ Apart /\ RunsFit /\ LinksFit
        /\ j \in Jobs /\ j # 0 /\ job[j] \in Job
    BY <1>1, EngagedRun DEF Inv
  <2>2. job' = [job EXCEPT ![j] = row] /\ job[j].state = "running"
    BY <1>3, <2>1 DEF MarkFailed, TypeOK, Holds
  <2>3. /\ row \in Job /\ row.state = "failed" /\ row.owner = NoRun /\ row.lease = "none"
        /\ row.target = job[j].target
    BY <2>1, UnleasedRow DEF Terminal
  <2>4. job' \in [Jobs -> Job] /\ \A k \in Jobs : k # j => job'[k] = job[k]
    BY <2>1, <2>2, <2>3, RowReplaced
  <2>5. JobsFit'
    BY <1>1, <2>1, <2>2, <2>3, RowStays DEF Unfinished
  <2>6. \A q \in Runs : q # r => (mine[q] # 0 => job'[mine[q]] = job[mine[q]])
    BY <2>1, <2>4, OtherJobs
  <2>7. TablesTyped' /\ LinksFit' /\ Forward
    BY <1>1, <2>1, <2>4, JobTyped, LinksStay
  <2> QED
    BY <1>1, <2>1, <2>5, <2>6, <2>7, LeaveFits, OthersFit, RunStepFits
<1> QED
  BY <1>2, <1>3

\* A reclaimed job is as unfinished as it was; one that is locked is not reclaimed.
LEMMA ReclaimStep ==
    ASSUME ReindexAssumption, Inv, NEW r \in Runs, ReclaimLeases(r)
    PROVE  Inv'
<1>1. /\ pc[r] = "reclaim" /\ ~Engaged(r) /\ Goto(r, "start")
      /\ UNCHANGED <<database, rule, link, content, source, mine, after, page, seen>>
  BY DEF ReclaimLeases, Engaged
<1>2. TypeOK /\ JobsFit /\ Apart /\ RunsFit /\ LinksFit /\ RunFits(r) /\ PageFits(r)
  BY DEF Inv, RunsFit
<1>3. ASSUME NEW j \in Jobs
      PROVE  /\ job'[j] \in Job /\ job'[j].target = job[j].target /\ job'[j].last = job[j].last
             /\ \/ job'[j] = job[j]
                \/ /\ job[j].state = "running" /\ job'[j].state = "pending"
                   /\ job'[j].owner = NoRun /\ job'[j].lease = "none"
  <2>1. job[j] \in Job
    BY <1>2 DEF TypeOK
  <2>2. CASE Expired(j)
    <3>1. job'[j] = Unleased(job[j], "pending") /\ job[j].state = "running"
      BY <2>2 DEF ReclaimLeases, Reclaimed, Expired
    <3> QED  BY <2>1, <3>1, UnleasedRow DEF Unfinished
  <2>3. CASE ~Expired(j)
    BY <2>1, <2>3 DEF ReclaimLeases
  <2> QED  BY <2>2, <2>3
<1>4. JobsFit'
  <2>1. RowsFilled'
    BY <1>2, <1>3 DEF JobsFit, RowsFilled
  <2>2. OneActive'
    BY <1>1, <1>2 DEF JobsFit, OneActive
  <2>3. ASSUME NEW k \in Jobs
        PROVE  /\ (job'[k].owner # NoRun) <=> (job'[k].state = "running")
               /\ (job'[k].lease # "none") <=> (job'[k].state = "running")
               /\ (rule'[k] \in {"active", "superseded"}) <=> (job'[k].state = "completed")
               /\ (rule'[k] = "none") <=> (job'[k].state = "absent")
    BY <1>1, <1>2, <1>3 DEF JobsFit, JobCoherent
  <2>4. \A k \in Jobs : job'[k].state \in Unfinished => job[k].state \in Unfinished
    BY <1>3 DEF Unfinished
  <2>5. ASSUME NEW k \in Jobs, NEW i \in Jobs,
               {job'[k].state, job'[i].state} \subseteq Unfinished, job'[k].target = job'[i].target
        PROVE  k = i
    <3>1. job[k].state \in Unfinished /\ job[i].state \in Unfinished
      BY <2>4, <2>5
    <3> QED  BY <1>2, <1>3, <2>5, <3>1 DEF JobsFit, JobCoherent
  <2>6. JobCoherent'
    BY <2>3, <2>5 DEF JobCoherent
  <2> QED  BY <2>1, <2>2, <2>6 DEF JobsFit
<1>5. LinksFit' /\ Forward
  BY <1>1, <1>2, LinksStay
<1>6. pc' \in [Runs -> Labels] /\ Apart' /\ pc'[r] = "start" /\ \A q \in Runs : q # r => Still(q)
  BY <1>1, <1>2, GotoFits DEF Labels
<1>7. ASSUME NEW q \in Runs, q # r
      PROVE  RunFits(q)' /\ PageFits(q)' /\ LinksDone(q)'
  <2>1. RunFits(q) /\ PageFits(q) /\ LinksDone(q)
    BY <1>2 DEF RunsFit
  <2>2. mine[q] # 0 => Steady(mine[q])
    <3>1. mine[q] # 0 => mine[q] \in Jobs
      BY <1>2, MineIsJob
    <3> QED  BY <1>3, <2>1, <3>1 DEF RunFits, Steady
  <2>3. pc[q] = "commit" => job'[mine[q]] = job[mine[q]]
    <3>1. pc[q] = "commit" => mine[q] \in Jobs
      BY <1>2, <2>1, MineIsJob DEF RunFits, Engaged
    <3>2. pc[q] = "commit" => Locked(mine[q])
      BY DEF Locked
    <3> QED  BY <3>1, <3>2 DEF ReclaimLeases
  <2> QED  BY <1>2, <1>5, <1>6, <1>7, <2>1, <2>2, <2>3, Bystander
<1>8. mine[r] = 0 /\ mine'[r] = 0 /\ page'[r] = {}
  BY <1>1, <1>2 DEF RunFits, PageFits, Paging
<1>9. RunFits(r)' /\ PageFits(r)' /\ LinksDone(r)'
  BY <1>6, <1>8 DEF RunFits, PageFits, LinksDone, Engaged, Reading
<1>10. TablesTyped'
  <2>1. job' \in [Jobs -> Job]
    BY <1>3 DEF ReclaimLeases
  <2> QED  BY <1>1, <1>2, <2>1, JobTyped
<1>11. LocalsTyped'
  BY <1>1, <1>2, <1>6 DEF LocalsTyped, TypeOK, Pages
<1> QED
  BY <1>4, <1>5, <1>6, <1>7, <1>9, <1>10, <1>11, RunStepFits

\* The new job is nobody's and its target is free.
LEMMA StartReindexStep ==
    ASSUME ReindexAssumption, Inv, NEW r \in Runs, NEW t \in Targets, NEW j \in Jobs,
           StartReindex(r, t, j)
    PROVE  Inv'
<1> DEFINE row == Started(t)
<1>1. /\ pc[r] = "start" /\ ~Engaged(r) /\ Goto(r, "claim")
      /\ job[j].state = "absent" /\ TargetFree(t)
      /\ job' = [job EXCEPT ![j] = row]
      /\ rule' = [rule EXCEPT ![j] = "pending"] /\ mine' = [mine EXCEPT ![r] = j]
      /\ UNCHANGED <<database, link, content, source, after, page, seen>>
  BY DEF StartReindex, Engaged, Started
<1>2. TypeOK /\ JobsFit /\ Apart /\ RunsFit /\ LinksFit /\ RunFits(r) /\ PageFits(r)
  BY DEF Inv, RunsFit
<1>3. /\ row \in Job /\ row.state = "pending" /\ row.last = 0
      /\ row.owner = NoRun /\ row.lease = "none" /\ row.target = t
  BY StartedRow
<1> HIDE DEF row
<1>4. /\ job' \in [Jobs -> Job] /\ job'[j] = row
      /\ \A k \in Jobs : k # j => job'[k] = job[k]
  BY <1>1, <1>2, <1>3, RowReplaced
<1>5. rule' \in [Jobs -> {"none", "pending", "active", "superseded"}] /\ rule'[j] = "pending"
      /\ \A k \in Jobs : k # j => rule'[k] = rule[k]
  BY <1>1, <1>2 DEF TypeOK
<1>6. JobsFit'
  <2>1. RowsFilled'
    BY <1>2, <1>3, <1>4 DEF JobsFit, RowsFilled
  <2>2. OneActive'
    BY <1>2, <1>5 DEF JobsFit, OneActive
  <2>3. ASSUME NEW k \in Jobs
        PROVE  /\ (job'[k].owner # NoRun) <=> (job'[k].state = "running")
               /\ (job'[k].lease # "none") <=> (job'[k].state = "running")
               /\ (rule'[k] \in {"active", "superseded"}) <=> (job'[k].state = "completed")
               /\ (rule'[k] = "none") <=> (job'[k].state = "absent")
    BY <1>2, <1>3, <1>4, <1>5 DEF JobsFit, JobCoherent
  <2>4. ASSUME NEW k \in Jobs, NEW i \in Jobs,
               {job'[k].state, job'[i].state} \subseteq Unfinished, job'[k].target = job'[i].target
        PROVE  k = i
    <3>1. \A m \in Jobs : job[m].target = t => job[m].state \notin Unfinished
      BY <1>1 DEF TargetFree
    <3>2. CASE k # j /\ i # j
      <4>1. {job[k].state, job[i].state} \subseteq Unfinished /\ job[k].target = job[i].target
        BY <1>4, <2>4, <3>2
      <4> QED  BY <1>2, <4>1 DEF JobsFit, JobCoherent
    <3>3. CASE k = j /\ i # j
      BY <1>3, <1>4, <2>4, <3>1, <3>3
    <3>4. CASE k # j /\ i = j
      BY <1>3, <1>4, <2>4, <3>1, <3>4
    <3> QED  BY <3>2, <3>3, <3>4
  <2>5. JobCoherent'
    BY <2>3, <2>4 DEF JobCoherent
  <2> QED  BY <2>1, <2>2, <2>5 DEF JobsFit
<1>7. LinksFit' /\ Forward
  BY <1>1, <1>2, LinksStay
<1>8. pc'[r] = "claim" /\ mine'[r] = j /\ page'[r] = {} /\ j # 0
  BY <1>1, <1>2 DEF TypeOK, Goto, PageFits, Paging, Jobs, ReindexAssumption
<1>9. \A q \in Runs : q # r => Still(q)
  BY <1>1, <1>2 DEF TypeOK, Goto, Still
<1>10. \A q \in Runs : mine[q] # j
  BY <1>1, <1>2, <1>8 DEF RunsFit, RunFits
<1>11. Apart'
  <2>1. mine'[r] = j /\ \A q \in Runs : q # r => mine'[q] = mine[q]
    BY <1>8, <1>9 DEF Still
  <2> QED  BY <1>2, <1>10, <2>1 DEF Apart
<1>12. \A q \in Runs : q # r => Still(q) /\ (mine[q] # 0 => job'[mine[q]] = job[mine[q]])
  BY <1>2, <1>4, <1>9, <1>10, MineIsJob
<1>13. RunFits(r)' /\ PageFits(r)' /\ LinksDone(r)'
  <2>1. Engaged(r)' /\ ~Reading(r)' /\ ~Ending(r)'
    BY <1>8 DEF Engaged, Reading, Ending
  <2> QED  BY <1>3, <1>4, <1>8, <2>1 DEF RunFits, PageFits, Rows, LinksDone
<1>14. TablesTyped'
  BY <1>1, <1>2, <1>4, <1>5 DEF TypeOK, TablesTyped
<1>15. LocalsTyped'
  <2>1. j \in 0..MaxJobs
    BY DEF Jobs, ReindexAssumption
  <2> QED  BY <1>1, <1>2, <2>1 DEF LocalsTyped, TypeOK, Pages, Labels, Goto
<1> QED
  BY <1>2, <1>6, <1>7, <1>11, <1>12, <1>13, <1>14, <1>15, OthersFit, RunStepFits

\* Abort and the passing of time: no run needs to know.
LEMMA OutsideStep ==
    ASSUME ReindexAssumption, Inv, NEW j \in Jobs, Abort(j) \/ LeaseExpires(j)
    PROVE  Inv'
<1> DEFINE row == IF Abort(j) THEN Unleased(job[j], "aborted")
                              ELSE [job[j] EXCEPT !.lease = "expired"]
<1>1. UNCHANGED <<database, rule, link, content, source, pc, mine, after, page, seen>>
  BY DEF Abort, LeaseExpires, local
<1>2. TypeOK /\ JobsFit /\ Apart /\ RunsFit /\ LinksFit /\ job[j] \in Job
  BY DEF Inv, TypeOK
<1>3. job' = [job EXCEPT ![j] = row]
  BY <1>2 DEF Abort, LeaseExpires, TypeOK
<1>4. /\ row \in Job /\ row.last = job[j].last /\ row.target = job[j].target
      /\ \/ /\ job[j].state \in Unfinished /\ ~Locked(j)
            /\ row.state = "aborted" /\ row.owner = NoRun /\ row.lease = "none"
         \/ /\ job[j].lease = "live" /\ row.state = job[j].state
            /\ row.owner = job[j].owner /\ row.lease = "expired"
  <2>1. CASE Abort(j)
    <3>1. row = Unleased(job[j], "aborted")
      BY <2>1
    <3> HIDE DEF row
    <3> QED  BY <1>2, <2>1, <3>1, UnleasedRow DEF Abort, Terminal
  <2>2. CASE ~Abort(j)
    <3>1. row = [job[j] EXCEPT !.lease = "expired"] /\ job[j].lease = "live"
      BY <2>2 DEF LeaseExpires
    <3> HIDE DEF row
    <3> QED  BY <1>2, <3>1, ExpiredRow
  <2> QED  BY <2>1, <2>2
<1> HIDE DEF row
<1>5. /\ job' \in [Jobs -> Job] /\ job'[j] = row
      /\ \A k \in Jobs : k # j => job'[k] = job[k]
  BY <1>2, <1>3, <1>4, RowReplaced
<1>6. JobsFit'
  <2>1. job[j].lease = "live" => job[j].state = "running" /\ job[j].owner # NoRun
    BY <1>2 DEF JobsFit, JobCoherent
  <2>2. /\ job[j].state # "absent" /\ row.state # "absent" /\ row.target = job[j].target
        /\ (row.owner # NoRun) <=> (row.state = "running")
        /\ (row.lease # "none") <=> (row.state = "running")
        /\ job[j].state # "completed" /\ row.state # "completed"
        /\ row.state \in Unfinished => job[j].state \in Unfinished
    BY <1>4, <2>1 DEF Unfinished
  <2> QED  BY <1>1, <1>2, <1>3, <1>4, <2>2, RowStays
<1>7. LinksFit' /\ Forward
  BY <1>1, <1>2, LinksStay
<1>8. ASSUME NEW q \in Runs
      PROVE  RunFits(q)' /\ PageFits(q)' /\ LinksDone(q)'
  <2>1. RunFits(q) /\ PageFits(q) /\ LinksDone(q) /\ Still(q)
    BY <1>1, <1>2 DEF RunsFit, Still
  <2>2. mine[q] # 0 => mine[q] \in Jobs
    BY <1>2, MineIsJob
  <2>3. mine[q] # 0 => Steady(mine[q])
    BY <1>4, <1>5, <2>1, <2>2 DEF RunFits, Steady, Unfinished
  <2>4. pc[q] = "commit" => /\ job'[mine[q]].state = job[mine[q]].state
                            /\ job'[mine[q]].owner = job[mine[q]].owner
    <3>1. pc[q] = "commit" => mine[q] \in Jobs /\ Locked(mine[q])
      BY <2>1, <2>2 DEF RunFits, Engaged, Locked
    <3> QED  BY <1>4, <1>5, <3>1
  <2> QED  BY <1>2, <1>7, <2>1, <2>3, <2>4, Bystander
<1>9. TablesTyped' /\ LocalsTyped'
  BY <1>1, <1>2, <1>5, JobTyped DEF TypeOK, LocalsTyped, Labels, Pages
<1>10. Apart' /\ RunsFit'
  BY <1>1, <1>2, <1>8 DEF Apart, RunsFit
<1> QED
  BY <1>6, <1>7, <1>9, <1>10, TypeHalves, PTL DEF Inv

-----------------------------------------------------------------------------
(* The work.                                                               *)

HashOf == [i \in Ids |-> link[i].hash]

\* A page of entries: what is behind it or in a gap of it needs nothing.
LEMMA ListedLinks ==
    ASSUME ReindexAssumption, Inv, NEW r \in Runs, pc[r] = "list", Target(r) = "link_hash"
    PROVE  /\ Rows(Listing(r), after[r])
           /\ \A x \in Listing(r) :
                 /\ after[r] < x[1] /\ x[2] = link[x[1]].hash /\ x[2] # NoHash
                 /\ \A i \in Ids : i <= x[1] => Current(i) \/ \E y \in Listing(r) : y[1] = i
           /\ Listing(r) = {} => \A i \in Ids : Current(i)
<1>1. Engaged(r) /\ Reading(r)
  BY DEF Engaged, Reading
<1>2. mine[r] # 0 /\ LinksDone(r) /\ TypeOK /\ Numbered /\ after[r] \in 0..MaxId
  BY <1>1, EngagedRun DEF Inv, LinksFit, TypeOK
<1>3. \A i \in Ids : i <= after[r] => Current(i)
  BY <1>1, <1>2 DEF LinksDone
<1>4. Listing(r) = {<<i, HashOf[i]>> : i \in Batch(HashOf, after[r])}
  BY DEF Listing, HashOf
<1>5. \A i \in Ids : HashOf[i] = link[i].hash /\ HashOf[i] \in Hashes \cup {NoHash}
  BY <1>2 DEF HashOf, TypeOK
<1>6. \A i \in Batch(HashOf, after[r]) :
         i \in Ids /\ after[r] < i /\ HashOf[i] # NoHash /\ HashOf[i] \in Hashes
  BY <1>5 DEF Batch
<1>7. Rows(Listing(r), after[r])
  BY <1>4, <1>6 DEF Rows
<1>8. ASSUME NEW x \in Listing(r)
      PROVE  /\ after[r] < x[1] /\ x[2] = link[x[1]].hash /\ x[2] # NoHash
             /\ \A i \in Ids : i <= x[1] => Current(i) \/ \E y \in Listing(r) : y[1] = i
  <2>1. PICK a \in Batch(HashOf, after[r]) : x = <<a, HashOf[a]>>
    BY <1>4
  <2>2. x[1] = a /\ x[2] = HashOf[a]
    BY <2>1
  <2>3. ASSUME NEW i \in Ids, i <= a, ~Current(i)
        PROVE  \E y \in Listing(r) : y[1] = i
    <3>1. after[r] < i
      BY <1>2, <1>3, <2>3 DEF Ids
    <3>2. HashOf[i] # NoHash
      BY <1>5, <2>3 DEF Current
    <3>3. i \in Batch(HashOf, after[r])
      BY <1>2, <2>1, <2>3, <3>1, <3>2, BatchHasNoHoles
    <3>4. <<i, HashOf[i]>> \in Listing(r) /\ <<i, HashOf[i]>>[1] = i
      BY <1>4, <3>3
    <3> QED  BY <3>4
  <2> QED  BY <1>5, <1>6, <2>1, <2>2, <2>3
<1>9. ASSUME Listing(r) = {}, NEW i \in Ids
      PROVE  Current(i)
  <2>1. Batch(HashOf, after[r]) = {}
    <3>1. \A k \in Batch(HashOf, after[r]) : <<k, HashOf[k]>> \in Listing(r)
      BY <1>4
    <3> QED  BY <1>9, <3>1
  <2>2. \A m, k \in Ids : HashOf[m] # NoHash /\ k <= m => HashOf[k] # NoHash
    BY <1>2, <1>5 DEF Numbered
  <2>3. after[r] < i => HashOf[i] = NoHash
    BY <1>2, <2>1, <2>2, EmptyBatchIsTheEnd
  <2>4. after[r] < i \/ i <= after[r]
    BY <1>2 DEF Ids
  <2> QED  BY <1>3, <1>5, <2>3, <2>4 DEF Current
<1> QED
  BY <1>7, <1>8, <1>9

LEMMA ListedContents ==
    ASSUME Inv, NEW r \in Runs, Target(r) = "content_hash"
    PROVE  Rows(Listing(r), after[r])
<1>1. Listing(r) = {<<i, content[i]>> : i \in Batch(content, after[r])}
  BY DEF Listing
<1>2. \A i \in Batch(content, after[r]) : i \in Ids /\ after[r] < i /\ content[i] \in Hashes
  BY DEF Batch, Inv, TypeOK
<1> QED
  BY <1>1, <1>2 DEF Rows

LEMMA ListedSources ==
    ASSUME ReindexAssumption, NEW r \in Runs, Target(r) = "categories"
    PROVE  Listing(r) \subseteq Sources \X {"upsert", "archive"}
BY DEF Listing, ReindexAssumption

LEMMA ListStep ==
    ASSUME ReindexAssumption, Inv, NEW r \in Runs, List(r)
    PROVE  Inv'
<1> DEFINE l == IF Listing(r) = {} THEN "finish" ELSE "work"
<1>1. /\ pc[r] = "list" /\ Engaged(r) /\ Reading(r) /\ Goto(r, l)
      /\ page' = [page EXCEPT ![r] = Listing(r)]
      /\ UNCHANGED <<tables, mine, after, seen>> /\ UNCHANGED <<job, rule, link>>
  BY DEF List, Engaged, Reading, tables
<1>2. /\ TypeOK /\ JobsFit /\ Apart /\ RunsFit /\ LinksFit
      /\ mine[r] # 0 /\ job[mine[r]].state # "absent" /\ Target(r) \in Targets
      /\ RunFits(r) /\ PageFits(r) /\ LinksDone(r)
  BY <1>1, EngagedRun DEF Inv
<1>3. /\ IF Target(r) = "categories" THEN Listing(r) \subseteq Sources \X {"upsert", "archive"}
         ELSE Rows(Listing(r), after[r])
  BY <1>1, <1>2, ListedLinks, ListedContents, ListedSources DEF ReindexAssumption
<1>4. Listing(r) \in Pages
  BY <1>3 DEF Pages, Rows
<1>5. /\ JobsFit' /\ LinksFit' /\ Forward
      /\ \A i \in Ids : Current(i)' = Current(i)
  BY <1>1, <1>2, JobsStay, LinksStay
<1>6. l \in Labels /\ \A q \in Runs : q # r => after'[q] = after[q] /\ page'[q] = page[q]
  BY <1>1, <1>2 DEF Labels, TypeOK
<1>7. /\ pc' \in [Runs -> Labels] /\ Apart' /\ pc'[r] = l
      /\ \A q \in Runs : q # r => Still(q)
  BY <1>1, <1>2, <1>6, GotoFits
<1>8. page'[r] = Listing(r) /\ page' \in [Runs -> Pages]
  BY <1>1, <1>2, <1>4 DEF TypeOK, Pages
<1>9. Target(r)' = Target(r) /\ mine'[r] = mine[r] /\ after'[r] = after[r]
  BY <1>1 DEF Target
<1>10. RunFits(r)'
  <2>1. Engaged(r)' /\ l # "claim" /\ l # "commit" /\ l # "write"
    BY <1>7 DEF Engaged
  <2> QED  BY <1>1, <1>2, <1>7, <1>9, <2>1 DEF RunFits
<1>11. PageFits(r)'
  <2>1. ~Paging(r)' => Listing(r) = {}
    BY <1>7 DEF Paging
  <2> QED  BY <1>3, <1>8, <1>9, <2>1 DEF PageFits
<1>12. LinksDone(r)'
  <2>1. Ending(r)' => Listing(r) = {}
    BY <1>7 DEF Ending
  <2>2. SUFFICES ASSUME Target(r) = "link_hash"
                 PROVE  /\ \A i \in Ids : i <= after[r] => Current(i)'
                        /\ \A x \in Listing(r) : Ahead(r, x)'
                        /\ Listing(r) = {} => \A i \in Ids : Current(i)'
    BY <1>8, <1>9, <2>1 DEF LinksDone
  <2>3. /\ \A x \in Listing(r) :
                 /\ after[r] < x[1] /\ x[2] = link[x[1]].hash /\ x[2] # NoHash
                 /\ \A i \in Ids : i <= x[1] => Current(i) \/ \E y \in Listing(r) : y[1] = i
        /\ Listing(r) = {} => \A i \in Ids : Current(i)
    BY <1>1, <2>2, ListedLinks
  <2>4. \A i \in Ids : i <= after[r] => Current(i)'
    BY <1>1, <1>2, <1>5, <2>2 DEF LinksDone
  <2>5. \A x \in Listing(r) : Covered(r, x)'
    BY <1>5, <1>8, <2>3 DEF Covered
  <2>6. \A x \in Listing(r) : link'[x[1]].hash # NoHash /\ link'[x[1]].hash = x[2]
    BY <1>1, <2>3
  <2>7. \A x \in Listing(r) : Ahead(r, x)'
    BY <2>5, <2>6 DEF Ahead
  <2> QED  BY <1>5, <2>3, <2>4, <2>7
<1>13. LocalsTyped' /\ TablesTyped'
  BY <1>1, <1>2, <1>7, <1>8 DEF LocalsTyped, TablesTyped, TypeOK, tables
<1>14. \A q \in Runs : q # r => Still(q) /\ (mine[q] # 0 => job'[mine[q]] = job[mine[q]])
  BY <1>1, <1>7
<1> QED
  BY <1>2, <1>5, <1>7, <1>10, <1>11, <1>12, <1>13, <1>14, OthersFit, RunStepFits

\* The row with the lowest id has been dealt with: the rest of the page lies
\* behind it.
LEMMA AdvanceFits ==
    ASSUME ReindexAssumption, Inv, NEW r \in Runs, NEW x \in page[r], Engaged(r),
           Target(r) # "categories", \A y \in page[r] : x[1] <= y[1],
           Advance(r, x), UNCHANGED <<job, mine, seen>>, pc' \in [Runs -> Labels],
           Reading(r), Reading(r)', pc'[r] = "work"
    PROVE  /\ LocalsTyped' /\ RunFits(r)' /\ PageFits(r)' /\ Apart'
           /\ after'[r] = x[1] /\ page'[r] = page[r] \ {x} /\ x \in Ids \X Hashes
           /\ \A q \in Runs : q # r => after'[q] = after[q] /\ page'[q] = page[q]
<1>1. /\ TypeOK /\ Apart /\ mine[r] # 0 /\ RunFits(r) /\ PageFits(r)
      /\ job[mine[r]].state # "absent" /\ job[mine[r]].last \in 0..MaxId
  BY EngagedRun DEF Inv, Job
<1>2. Rows(page[r], after[r])
  BY <1>1 DEF PageFits
<1>3. x \in Ids \X Hashes /\ x[1] \in Ids /\ after[r] < x[1]
  BY <1>2 DEF Rows
<1>4. /\ after' = [after EXCEPT ![r] = x[1]]
      /\ page' = [page EXCEPT ![r] = page[r] \ {x}]
  BY DEF Advance
<1>5. /\ after'[r] = x[1] /\ page'[r] = page[r] \ {x}
      /\ \A q \in Runs : q # r => after'[q] = after[q] /\ page'[q] = page[q]
  BY <1>1, <1>4 DEF TypeOK
<1>6. LocalsTyped'
  <2>1. x[1] \in 0..MaxId
    BY <1>3 DEF Ids
  <2>2. page[r] \ {x} \in Pages /\ page \in [Runs -> Pages]
    BY <1>1 DEF TypeOK, Pages
  <2> QED  BY <1>1, <1>4, <2>1, <2>2 DEF TypeOK, LocalsTyped
<1>7. Apart'
  BY <1>1 DEF Apart
<1>8. RunFits(r)'
  <2>1. job[mine[r]].last <= x[1]
    <3>1. job[mine[r]].last <= after[r] /\ after[r] \in 0..MaxId
      BY <1>1 DEF RunFits, TypeOK
    <3> QED  BY <1>1, <1>3, <3>1 DEF Ids, ReindexAssumption
  <2>2. Engaged(r)'
    BY DEF Engaged
  <2> QED  BY <1>1, <1>5, <2>1, <2>2 DEF RunFits
<1>9. PageFits(r)'
  <2>1. Rows(page[r] \ {x}, x[1])
    <3>1. ASSUME NEW y \in page[r] \ {x}
          PROVE  x[1] < y[1]
      <4>1. x[1] # y[1] /\ x[1] <= y[1] /\ y[1] \in Ids
        BY <1>2, <3>1 DEF Rows
      <4> QED  BY <1>3, <4>1 DEF Ids
    <3> QED  BY <1>2, <3>1 DEF Rows
  <2>2. Paging(r)' /\ Target(r)' = Target(r) /\ mine'[r] = mine[r]
    BY DEF Paging, Target
  <2> QED  BY <1>5, <2>1, <2>2 DEF PageFits
<1> QED
  BY <1>3, <1>5, <1>6, <1>7, <1>8, <1>9

\* Row x needs nothing any more, and so nothing behind the cursor does.
LEMMA AdvanceLinks ==
    ASSUME ReindexAssumption, Inv, NEW r \in Runs, NEW x \in page[r], Engaged(r),
           Target(r) = "link_hash", \A y \in page[r] : x[1] <= y[1], Reading(r),
           Forward, Current(x[1])', after'[r] = x[1], page'[r] = page[r] \ {x}, pc'[r] = "work"
    PROVE  LinksDone(r)'
<1>1. mine[r] # 0 /\ LinksDone(r) /\ Rows(page[r], after[r])
  BY EngagedRun DEF PageFits
<1>2. \A y \in page[r] : Ahead(r, y) /\ y[1] \in Ids
  BY <1>1 DEF LinksDone, Rows
<1>3. \A i \in Ids : Current(i) => Current(i)'
  BY DEF Forward
<1>4. ASSUME NEW i \in Ids, i <= x[1]
      PROVE  Current(i)'
  <2>1. Current(i) \/ \E y \in page[r] : y[1] = i
    BY <1>2, <1>4 DEF Ahead, Covered
  <2>2. ASSUME NEW y \in page[r], y[1] = i
        PROVE  i = x[1]
    <3>1. x[1] \in Ids /\ x[1] <= i
      BY <1>2, <2>2
    <3> QED  BY <1>4, <3>1 DEF Ids
  <2> QED  BY <1>3, <2>1, <2>2
<1>5. ASSUME NEW y \in page[r] \ {x}
      PROVE  Ahead(r, y)'
  <2>1. link'[y[1]].hash # NoHash /\ (link'[y[1]].hash = y[2] \/ Current(y[1])')
    BY <1>2 DEF Ahead, Forward
  <2>2. ASSUME NEW i \in Ids, i <= y[1]
        PROVE  Current(i)' \/ \E z \in page[r] \ {x} : z[1] = i
    <3>1. Current(i) \/ \E z \in page[r] : z[1] = i
      BY <1>2, <2>2 DEF Ahead, Covered
    <3> QED  BY <1>3, <3>1
  <2>3. Covered(r, y)'
    BY <2>2 DEF Covered
  <2> QED  BY <2>1, <2>3 DEF Ahead
<1>6. ~Ending(r)'
  BY DEF Ending
<1> QED
  BY <1>4, <1>5, <1>6 DEF LinksDone

LEMMA SkipLinkStep ==
    ASSUME ReindexAssumption, Inv, NEW r \in Runs, NEW x \in page[r], SkipLink(r, x)
    PROVE  Inv'
<1>1. /\ pc[r] = "work" /\ Engaged(r) /\ Reading(r) /\ Target(r) = "link_hash"
      /\ Target(r) # "categories" /\ \A y \in page[r] : x[1] <= y[1]
      /\ Fresh[x[1]] \in {NoHash, x[2]}
      /\ Advance(r, x) /\ UNCHANGED <<tables, pc, mine, seen>> /\ UNCHANGED <<job, rule, link>>
  BY DEF SkipLink, Head, Engaged, Reading, tables
<1>2. /\ TypeOK /\ JobsFit /\ Apart /\ RunsFit /\ LinksFit /\ mine[r] # 0
      /\ PageFits(r) /\ LinksDone(r)
  BY <1>1, EngagedRun DEF Inv
<1>3. pc' \in [Runs -> Labels] /\ pc'[r] = "work" /\ Reading(r)'
  BY <1>1, <1>2 DEF TypeOK, Labels, Reading
<1>4. /\ LocalsTyped' /\ RunFits(r)' /\ PageFits(r)' /\ Apart'
      /\ after'[r] = x[1] /\ page'[r] = page[r] \ {x}
      /\ \A q \in Runs : q # r => after'[q] = after[q] /\ page'[q] = page[q]
  BY <1>1, <1>3, AdvanceFits
<1>5. JobsFit' /\ LinksFit' /\ Forward /\ \A i \in Ids : Current(i)' = Current(i)
  BY <1>1, <1>2, JobsStay, LinksStay
<1>6. Current(x[1])'
  <2>1. Ahead(r, x) /\ x[1] \in Ids
    BY <1>1, <1>2 DEF LinksDone, PageFits, Rows
  <2>2. Current(x[1])
    BY <1>1, <2>1 DEF Ahead, Current
  <2> QED  BY <1>5, <2>1, <2>2
<1>7. LinksDone(r)'
  BY <1>1, <1>3, <1>4, <1>5, <1>6, AdvanceLinks
<1>8. TablesTyped'
  BY <1>1, <1>2 DEF TablesTyped, TypeOK, tables
<1>9. \A q \in Runs : q # r => Still(q) /\ (mine[q] # 0 => job'[mine[q]] = job[mine[q]])
  BY <1>1, <1>4 DEF Still
<1> QED
  BY <1>2, <1>4, <1>5, <1>7, <1>8, <1>9, OthersFit, RunStepFits

\* What a move makes of the table.
LEMMA MovedRows ==
    ASSUME TypeOK, NEW i \in Ids, NEW h \in Hashes, NEW k \in Ids
    PROVE  /\ MovedIn(link, i, h)[k] \in [hash : Hashes \cup {NoHash}, shadow : BOOLEAN]
           /\ MovedIn(link, i, h)[k].hash = IF k = i THEN h ELSE link[k].hash
           /\ MovedIn(link, i, h)[k].hash \in {h, link[i].hash} =>
                 (MovedIn(link, i, h)[k].shadow <=>
                     \E m \in Ids : m < k /\ MovedIn(link, i, h)[m].hash
                                               = MovedIn(link, i, h)[k].hash)
           /\ MovedIn(link, i, h)[k].hash \notin {h, link[i].hash} =>
                 MovedIn(link, i, h)[k] = link[k]
<1> DEFINE joined == [link EXCEPT ![i].hash = h]
           table  == MovedIn(link, i, h)
<1>1. \A m \in Ids : /\ joined[m] \in [hash : Hashes \cup {NoHash}, shadow : BOOLEAN]
                     /\ joined[m].hash = IF m = i THEN h ELSE link[m].hash
                     /\ m # i => joined[m] = link[m]
  BY DEF TypeOK
<1>2. table = [m \in Ids |->
                 IF joined[m].hash \in {h, link[i].hash}
                 THEN [joined[m] EXCEPT !.shadow =
                          \E n \in Ids : n < m /\ joined[n].hash = joined[m].hash]
                 ELSE joined[m]]
  BY DEF MovedIn
<1> HIDE DEF joined, table
<1>3. ASSUME NEW m \in Ids
      PROVE  /\ table[m] \in [hash : Hashes \cup {NoHash}, shadow : BOOLEAN]
             /\ table[m].hash = joined[m].hash
             /\ joined[m].hash \in {h, link[i].hash} =>
                   (table[m].shadow <=>
                       \E n \in Ids : n < m /\ joined[n].hash = joined[m].hash)
             /\ joined[m].hash \notin {h, link[i].hash} => table[m] = joined[m]
  <2> DEFINE older == \E n \in Ids : n < m /\ joined[n].hash = joined[m].hash
  <2>1. older \in BOOLEAN
    OBVIOUS
  <2>2. joined[m].hash \in {h, link[i].hash} =>
           table[m] = [joined[m] EXCEPT !.shadow = older]
    BY <1>2
  <2>3. joined[m].hash \notin {h, link[i].hash} => table[m] = joined[m]
    BY <1>2
  <2> HIDE DEF older
  <2>4. joined[m].hash \in {h, link[i].hash} =>
           /\ table[m] \in [hash : Hashes \cup {NoHash}, shadow : BOOLEAN]
           /\ table[m].hash = joined[m].hash /\ table[m].shadow = older
    BY <1>1, <2>1, <2>2
  <2> QED  BY <1>1, <2>3, <2>4 DEF older
<1>4. \A m \in Ids : table[m].hash = joined[m].hash
  BY <1>3
<1>5. /\ table[k] \in [hash : Hashes \cup {NoHash}, shadow : BOOLEAN]
      /\ table[k].hash = IF k = i THEN h ELSE link[k].hash
      /\ table[k].hash \in {h, link[i].hash} =>
            (table[k].shadow <=> \E m \in Ids : m < k /\ table[m].hash = table[k].hash)
      /\ table[k].hash \notin {h, link[i].hash} => table[k] = link[k]
  BY <1>1, <1>3, <1>4
<1> QED
  BY <1>5 DEF table

\* A move keeps the ids without holes and the shadows where they belong.
LEMMA MovedFits ==
    ASSUME TypeOK, LinksFit, NEW i \in Ids, link[i].hash # NoHash,
           Fresh[i] \in Hashes, NoHash \notin Hashes, link' = MovedIn(link, i, Fresh[i])
    PROVE  LinksFit' /\ Forward /\ Current(i)'
<1>1. \A k \in Ids : link'[k].hash = IF k = i THEN Fresh[i] ELSE link[k].hash
  BY MovedRows
<1>2. Current(i)' /\ Forward
  BY <1>1 DEF Current, Forward
<1>3. Numbered'
  BY <1>1 DEF Numbered, LinksFit
<1>4. ASSUME NEW k \in Ids, link'[k].hash # NoHash
      PROVE  link'[k].shadow <=> \E m \in Ids : m < k /\ link'[m].hash = link'[k].hash
  <2>1. CASE link'[k].hash \in {Fresh[i], link[i].hash}
    BY <2>1, MovedRows
  <2>2. CASE link'[k].hash \notin {Fresh[i], link[i].hash}
    <3>1. link'[k] = link[k] /\ k # i /\ link[k].hash # NoHash
      BY <1>1, <1>4, <2>2, MovedRows
    <3>2. \A m \in Ids : link'[m].hash = link'[k].hash <=> link[m].hash = link[k].hash
      BY <1>1, <2>2, <3>1
    <3> QED  BY <3>1, <3>2 DEF LinksFit, Shadowed
  <2> QED  BY <2>1, <2>2
<1>5. Shadowed'
  BY <1>4 DEF Shadowed
<1> QED
  BY <1>2, <1>3, <1>5 DEF LinksFit

LEMMA UpdateLinkStep ==
    ASSUME ReindexAssumption, Inv, NEW r \in Runs, NEW x \in page[r], UpdateLinkHash(r, x)
    PROVE  Inv'
<1>1. /\ pc[r] = "work" /\ Engaged(r) /\ Reading(r) /\ Target(r) = "link_hash"
      /\ Target(r) # "categories" /\ \A y \in page[r] : x[1] <= y[1]
      /\ Fresh[x[1]] \notin {NoHash, x[2]} /\ link' = MovedIn(link, x[1], Fresh[x[1]])
      /\ Advance(r, x) /\ UNCHANGED <<database, job, rule, content, source, pc, mine, seen>>
  BY DEF UpdateLinkHash, Head, Engaged, Reading
<1>2. /\ TypeOK /\ JobsFit /\ Apart /\ RunsFit /\ LinksFit /\ mine[r] # 0
      /\ PageFits(r) /\ LinksDone(r)
  BY <1>1, EngagedRun DEF Inv
<1>3. pc' \in [Runs -> Labels] /\ pc'[r] = "work" /\ Reading(r)'
  BY <1>1, <1>2 DEF TypeOK, Labels, Reading
<1>4. /\ LocalsTyped' /\ RunFits(r)' /\ PageFits(r)' /\ Apart'
      /\ after'[r] = x[1] /\ page'[r] = page[r] \ {x}
      /\ \A q \in Runs : q # r => after'[q] = after[q] /\ page'[q] = page[q]
  BY <1>1, <1>3, AdvanceFits
<1>5. x[1] \in Ids /\ link[x[1]].hash # NoHash /\ Fresh[x[1]] \in Hashes /\ NoHash \notin Hashes
  BY <1>1, <1>2 DEF LinksDone, PageFits, Rows, Ahead, ReindexAssumption
<1>6. LinksFit' /\ Forward /\ Current(x[1])'
  BY <1>1, <1>2, <1>5, MovedFits
<1>7. JobsFit'
  BY <1>1, <1>2, JobsStay
<1>8. LinksDone(r)'
  BY <1>1, <1>3, <1>4, <1>6, AdvanceLinks
<1>9. TablesTyped'
  <2>1. \A k \in Ids : link'[k] \in [hash : Hashes \cup {NoHash}, shadow : BOOLEAN]
    BY <1>1, <1>2, <1>5, MovedRows
  <2>2. link' \in [Ids -> [hash : Hashes \cup {NoHash}, shadow : BOOLEAN]]
    BY <1>1, <2>1 DEF MovedIn
  <2> QED  BY <1>1, <1>2, <2>2 DEF TablesTyped, TypeOK
<1>10. \A q \in Runs : q # r => Still(q) /\ (mine[q] # 0 => job'[mine[q]] = job[mine[q]])
  BY <1>1, <1>4 DEF Still
<1> QED
  BY <1>2, <1>4, <1>6, <1>7, <1>8, <1>9, <1>10, OthersFit, RunStepFits

LEMMA SkipContentStep ==
    ASSUME ReindexAssumption, Inv, NEW r \in Runs, NEW x \in page[r], SkipContent(r, x)
    PROVE  Inv'
<1>1. /\ pc[r] = "work" /\ Engaged(r) /\ Reading(r) /\ Target(r) = "content_hash"
      /\ Target(r) # "categories" /\ \A y \in page[r] : x[1] <= y[1]
      /\ Advance(r, x) /\ UNCHANGED <<tables, pc, mine, seen>> /\ UNCHANGED <<job, rule, link>>
  BY DEF SkipContent, Head, Engaged, Reading, tables
<1>2. TypeOK /\ JobsFit /\ Apart /\ RunsFit /\ LinksFit
  BY DEF Inv
<1>3. pc' \in [Runs -> Labels] /\ pc'[r] = "work" /\ Reading(r)'
  BY <1>1, <1>2 DEF TypeOK, Labels, Reading
<1>4. /\ LocalsTyped' /\ RunFits(r)' /\ PageFits(r)' /\ Apart'
      /\ \A q \in Runs : q # r => after'[q] = after[q] /\ page'[q] = page[q]
  BY <1>1, <1>3, AdvanceFits
<1>5. JobsFit' /\ LinksFit' /\ Forward
  BY <1>1, <1>2, JobsStay, LinksStay
<1>6. LinksDone(r)'
  BY <1>1 DEF LinksDone, Target
<1>7. TablesTyped'
  BY <1>1, <1>2 DEF TablesTyped, TypeOK, tables
<1>8. \A q \in Runs : q # r => Still(q) /\ (mine[q] # 0 => job'[mine[q]] = job[mine[q]])
  BY <1>1, <1>4 DEF Still
<1> QED
  BY <1>2, <1>4, <1>5, <1>6, <1>7, <1>8, OthersFit, RunStepFits

LEMMA UpdateContentStep ==
    ASSUME ReindexAssumption, Inv, NEW r \in Runs, NEW x \in page[r], UpdateContentHash(r, x)
    PROVE  Inv'
<1>1. /\ pc[r] = "write" /\ Engaged(r) /\ Reading(r) /\ \A y \in page[r] : x[1] <= y[1]
      /\ UNCHANGED <<database, job, rule, link, source, mine, seen>>
  BY DEF UpdateContentHash, Engaged, Reading
<1>2. /\ TypeOK /\ JobsFit /\ Apart /\ RunsFit /\ LinksFit /\ mine[r] # 0
      /\ job[mine[r]].state # "absent" /\ RunFits(r) /\ PageFits(r)
  BY <1>1, EngagedRun DEF Inv
<1>3. Target(r) = "content_hash" /\ x[1] \in Ids
  BY <1>1, <1>2 DEF RunFits, PageFits, Rows
<1>4. JobsFit' /\ LinksFit' /\ Forward
  BY <1>1, <1>2, JobsStay, LinksStay
<1>5. LinksDone(r)'
  BY <1>1, <1>3 DEF LinksDone, Target
<1>6. CASE Collides(x[1])
  <2>1. Goto(r, "fail") /\ UNCHANGED <<tables, mine, after, page>> /\ pc'[r] = "fail"
    BY <1>1, <1>2, <1>6 DEF UpdateContentHash, tables, Goto, TypeOK
  <2>2. RunFits(r)' /\ PageFits(r)'
    <3>1. Engaged(r)' /\ ~Reading(r)' /\ Paging(r)' /\ (Target(r)' = Target(r))
      BY <1>1, <2>1 DEF Engaged, Reading, Paging, Target
    <3> QED  BY <1>1, <1>2, <2>1, <3>1 DEF RunFits, PageFits
  <2>3. "fail" \in Labels /\ seen' \in [Runs -> 0..MaxJobs]
    BY <1>1, <1>2 DEF Labels, TypeOK
  <2> QED  BY <1>5, <2>1, <2>2, <2>3, GotoStep
<1>7. CASE ~Collides(x[1])
  <2>1. /\ content' = [content EXCEPT ![x[1]] = Fresh[x[1]]]
        /\ Advance(r, x) /\ Goto(r, "work")
    BY <1>7 DEF UpdateContentHash
  <2>2. pc' \in [Runs -> Labels] /\ pc'[r] = "work" /\ Reading(r)'
    BY <1>2, <2>1 DEF TypeOK, Labels, Reading, Goto
  <2>3. /\ LocalsTyped' /\ RunFits(r)' /\ PageFits(r)' /\ Apart'
        /\ \A q \in Runs : q # r => after'[q] = after[q] /\ page'[q] = page[q]
    BY <1>1, <1>3, <2>1, <2>2, AdvanceFits
  <2>4. TablesTyped'
    <3>1. Fresh[x[1]] \in Hashes \cup {NoHash}
      BY <1>3 DEF ReindexAssumption
    <3> QED  BY <1>1, <1>2, <2>1, <3>1 DEF TablesTyped, TypeOK
  <2>5. \A q \in Runs : q # r => Still(q) /\ (mine[q] # 0 => job'[mine[q]] = job[mine[q]])
    BY <1>1, <1>2, <2>1, <2>3 DEF Still, Goto, TypeOK
  <2> QED  BY <1>2, <1>4, <1>5, <2>3, <2>4, <2>5, OthersFit, RunStepFits
<1> QED
  BY <1>6, <1>7

LEMMA WriteSourceStep ==
    ASSUME ReindexAssumption, Inv, NEW r \in Runs, NEW x \in page[r], WriteSource(r, x)
    PROVE  Inv'
<1>1. /\ pc[r] = "work" /\ Engaged(r) /\ Reading(r) /\ Target(r) = "categories"
      /\ UNCHANGED <<database, job, rule, link, content, mine, after, seen>>
  BY DEF WriteSource, Head, Engaged, Reading
<1>2. /\ TypeOK /\ JobsFit /\ Apart /\ RunsFit /\ LinksFit /\ mine[r] # 0
      /\ job[mine[r]].state # "absent" /\ RunFits(r) /\ PageFits(r)
  BY <1>1, EngagedRun DEF Inv
<1>3. JobsFit' /\ LinksFit' /\ Forward
  BY <1>1, <1>2, JobsStay, LinksStay
<1>4. Target(r)' = Target(r) /\ LinksDone(r)'
  BY <1>1 DEF LinksDone, Target
<1>5. CASE ~Holds(r)
  <2>1. Goto(r, "fail") /\ UNCHANGED <<tables, mine, after, page>> /\ pc'[r] = "fail"
    BY <1>1, <1>2, <1>5 DEF WriteSource, tables, Goto, TypeOK
  <2>2. RunFits(r)' /\ PageFits(r)'
    <3>1. Engaged(r)' /\ ~Reading(r)' /\ Paging(r)'
      BY <2>1 DEF Engaged, Reading, Paging
    <3> QED  BY <1>1, <1>2, <1>4, <2>1, <3>1 DEF RunFits, PageFits
  <2>3. "fail" \in Labels /\ seen' \in [Runs -> 0..MaxJobs]
    BY <1>1, <1>2 DEF Labels, TypeOK
  <2> QED  BY <1>4, <2>1, <2>2, <2>3, GotoStep
<1>6. CASE Holds(r)
  <2>1. /\ source' = [source EXCEPT ![x[1]] = IF x[2] = "upsert" THEN "active" ELSE "archived"]
        /\ page' = [page EXCEPT ![r] = page[r] \ {x}] /\ UNCHANGED pc
    BY <1>6 DEF WriteSource
  <2>2. page'[r] = page[r] \ {x} /\ \A q \in Runs : q # r => page'[q] = page[q]
    BY <1>2, <2>1 DEF TypeOK
  <2>3. RunFits(r)' /\ PageFits(r)'
    <3>1. Engaged(r)' /\ Reading(r)' /\ Paging(r)'
      BY <1>1, <2>1 DEF Engaged, Reading, Paging
    <3> QED  BY <1>1, <1>2, <1>4, <2>1, <2>2, <3>1 DEF RunFits, PageFits
  <2>4. LocalsTyped'
    <3>1. page[r] \ {x} \in Pages /\ page \in [Runs -> Pages]
      BY <1>2 DEF TypeOK, Pages
    <3> QED  BY <1>1, <1>2, <2>1, <3>1 DEF LocalsTyped, TypeOK, Labels
  <2>5. TablesTyped' /\ Apart'
    BY <1>1, <1>2, <2>1 DEF TablesTyped, TypeOK, Apart
  <2>6. \A q \in Runs : q # r => Still(q) /\ (mine[q] # 0 => job'[mine[q]] = job[mine[q]])
    BY <1>1, <2>1, <2>2 DEF Still
  <2> QED  BY <1>2, <1>3, <1>4, <2>3, <2>4, <2>5, <2>6, OthersFit, RunStepFits
<1> QED
  BY <1>5, <1>6

-----------------------------------------------------------------------------
(* The end of a run, and the neighbours.                                   *)

\* The version of a job that is finished becomes the active one.
LEMMA CompleteFits ==
    ASSUME ReindexAssumption, Inv, NEW r \in Runs, Engaged(r), Holds(r), Complete(r, Active)
    PROVE  /\ JobsFit' /\ job' \in [Jobs -> Job]
           /\ rule' \in [Jobs -> {"none", "pending", "active", "superseded"}]
           /\ \A k \in Jobs : k # mine[r] => job'[k] = job[k]
           /\ \A k \in Jobs : rule'[k] = IF k = mine[r] THEN "active"
                                         ELSE IF rule[k] = "active" THEN "superseded" ELSE rule[k]
           /\ job'[mine[r]].last = job[mine[r]].last
           /\ job[mine[r]].state = "running" /\ mine[r] \in Jobs
<1> DEFINE j   == mine[r]
           row == Unleased(job[j], "completed")
<1>1. TypeOK /\ JobsFit /\ j \in Jobs /\ job[j] \in Job /\ Target(r) \in Targets
  BY EngagedRun DEF Inv
<1>2. job' = [job EXCEPT ![j] = row] /\ rule' = Switched(j, Active) /\ job[j].state = "running"
  BY <1>1 DEF Complete, Holds, TypeOK
<1>3. /\ row \in Job /\ row.state = "completed" /\ row.owner = NoRun /\ row.lease = "none"
      /\ row.target = job[j].target /\ row.last = job[j].last
  BY <1>1, UnleasedRow DEF Terminal
<1> HIDE DEF row
<1>4. /\ job' \in [Jobs -> Job] /\ job'[j] = row
      /\ \A k \in Jobs : k # j => job'[k] = job[k]
  BY <1>1, <1>2, <1>3, RowReplaced
<1>5. \A k \in Jobs : rule'[k] = IF k = j THEN "active"
                                 ELSE IF rule[k] = "active" THEN "superseded" ELSE rule[k]
  BY <1>2 DEF Switched, Active
<1>6. rule' \in [Jobs -> {"none", "pending", "active", "superseded"}]
  <2>1. \A k \in Jobs : rule'[k] \in {"none", "pending", "active", "superseded"}
    BY <1>1, <1>5 DEF TypeOK
  <2> QED  BY <1>2, <2>1 DEF Switched
<1>7. RowsFilled'
  BY <1>1, <1>3, <1>4 DEF JobsFit, RowsFilled, Target
<1>8. OneActive'
  BY <1>5 DEF OneActive
<1>9. ASSUME NEW k \in Jobs
      PROVE  /\ (job'[k].owner # NoRun) <=> (job'[k].state = "running")
             /\ (job'[k].lease # "none") <=> (job'[k].state = "running")
             /\ (rule'[k] \in {"active", "superseded"}) <=> (job'[k].state = "completed")
             /\ (rule'[k] = "none") <=> (job'[k].state = "absent")
  BY <1>1, <1>3, <1>4, <1>5 DEF JobsFit, JobCoherent
<1>10. ASSUME NEW k \in Jobs, NEW i \in Jobs,
              {job'[k].state, job'[i].state} \subseteq Unfinished, job'[k].target = job'[i].target
       PROVE  k = i
  <2>1. k # j /\ i # j
    BY <1>3, <1>4, <1>10 DEF Unfinished
  <2>2. {job[k].state, job[i].state} \subseteq Unfinished /\ job[k].target = job[i].target
    BY <1>4, <1>10, <2>1
  <2> QED  BY <1>1, <2>2 DEF JobsFit, JobCoherent
<1>11. JobsFit'
  BY <1>7, <1>8, <1>9, <1>10 DEF JobsFit, JobCoherent
<1> QED
  BY <1>1, <1>2, <1>3, <1>4, <1>5, <1>6, <1>11

LEMMA CompleteStep ==
    ASSUME ReindexAssumption, Inv, NEW r \in Runs, Engaged(r), Holds(r), Complete(r, Active),
           Leave(r), UNCHANGED <<database, link, content, source>>
    PROVE  Inv'
<1>1. TypeOK /\ Apart /\ RunsFit /\ LinksFit /\ mine[r] # 0
  BY EngagedRun DEF Inv
<1>2. /\ JobsFit' /\ job' \in [Jobs -> Job]
      /\ rule' \in [Jobs -> {"none", "pending", "active", "superseded"}]
      /\ \A k \in Jobs : k # mine[r] => job'[k] = job[k]
  BY CompleteFits
<1>3. \A q \in Runs : q # r => (mine[q] # 0 => job'[mine[q]] = job[mine[q]])
  BY <1>1, <1>2, OtherJobs
<1>4. TablesTyped' /\ LinksFit' /\ Forward
  BY <1>1, <1>2, LinksStay DEF TablesTyped, TypeOK
<1> QED
  BY <1>1, <1>2, <1>3, <1>4, LeaveFits, OthersFit, RunStepFits

LEMMA FinishStep ==
    ASSUME ReindexAssumption, Inv, NEW r \in Runs, FinishReindex(r)
    PROVE  Inv'
BY CompleteStep DEF FinishReindex, Engaged

LEMMA CommitStep ==
    ASSUME ReindexAssumption, Inv, NEW r \in Runs, CommitFinish(r)
    PROVE  Inv'
<1>1. Engaged(r) /\ Leave(r) /\ UNCHANGED <<database, link, content, source>>
  BY DEF CommitFinish, Engaged
<1>2. Holds(r)
  BY DEF Inv, RunsFit, RunFits, CommitFinish
<1>3. CASE Active \subseteq {seen[r]}
  BY <1>1, <1>2, <1>3, CompleteStep DEF CommitFinish
<1>4. CASE ~(Active \subseteq {seen[r]})
  BY <1>1, <1>4, LeaveStep DEF CommitFinish, tables
<1> QED
  BY <1>3, <1>4

\* Where neither jobs nor runs change.
LEMMA NeighbourFits ==
    ASSUME ReindexAssumption, Inv, TablesTyped', LinksFit', Forward,
           UNCHANGED <<database, job, rule, local>>
    PROVE  Inv'
<1>1. TypeOK /\ JobsFit /\ Apart /\ RunsFit
  BY DEF Inv
<1>2. UNCHANGED <<pc, mine, after, page, seen>>
  BY DEF local
<1>3. ASSUME NEW q \in Runs
      PROVE  RunFits(q)' /\ PageFits(q)' /\ LinksDone(q)'
  <2>1. RunFits(q) /\ PageFits(q) /\ LinksDone(q) /\ Still(q)
    BY <1>1, <1>2 DEF RunsFit, Still
  <2>2. mine[q] # 0 => Steady(mine[q])
    BY <2>1 DEF RunFits, Steady
  <2> QED  BY <1>1, <2>1, <2>2, Bystander
<1>4. JobsFit'
  BY <1>1, JobsStay
<1>5. LocalsTyped' /\ Apart' /\ RunsFit'
  BY <1>1, <1>2, <1>3 DEF LocalsTyped, TypeOK, Labels, Pages, Apart, RunsFit
<1> QED
  BY <1>4, <1>5, TypeHalves, PTL DEF Inv

\* The first row of a group counts.
LEMMA FirstCounts ==
    ASSUME ReindexAssumption, Shadowed, NEW h \in Hashes, Group(h) # {}
    PROVE  /\ Lowest(Group(h)) \in Group(h)
           /\ Canonical(h) = {Lowest(Group(h))}
<1>1. Group(h) \in SUBSET Nat /\ Group(h) \subseteq Ids
  BY DEF Group, Ids
<1>2. PICK i \in Group(h) : \A k \in Group(h) : i <= k
  <2> HIDE DEF Group
  <2> QED  BY <1>1, LeastId
<1>3. Lowest(Group(h)) = i
  BY <1>1, <1>2, LowestIs
<1>4. ASSUME NEW k \in Group(h)
      PROVE  ~link[k].shadow <=> k = i
  <2>1. k \in Ids /\ link[k].hash = h /\ h # NoHash /\ i \in Ids /\ link[i].hash = h
    BY <1>2 DEF Group, ReindexAssumption
  <2>2. link[k].shadow <=> \E m \in Ids : m < k /\ link[m].hash = h
    BY <2>1 DEF Shadowed
  <2>3. (\E m \in Ids : m < k /\ link[m].hash = h) <=> i # k
    <3>1. ASSUME NEW m \in Ids, m < k, link[m].hash = h
          PROVE  i # k
      BY <1>2, <2>1, <3>1 DEF Group, Ids
    <3>2. ASSUME i # k
          PROVE  i < k
      BY <1>2, <2>1, <3>2 DEF Ids
    <3> QED  BY <2>1, <3>1, <3>2
  <2> QED  BY <2>2, <2>3
<1>5. Canonical(h) = {i}
  BY <1>2, <1>4 DEF Canonical
<1> QED
  BY <1>2, <1>3, <1>5

LEMMA InsertEntryStep ==
    ASSUME ReindexAssumption, Inv, NEW i \in Ids, InsertEntry(i)
    PROVE  Inv'
<1>1. TypeOK /\ LinksFit
  BY DEF Inv
<1>2. /\ link[i].hash = NoHash /\ Fresh[i] # NoHash /\ Canonical(Fresh[i]) = {}
      /\ \A k \in 1..(i - 1) : k \in Ids => link[k].hash # NoHash
      /\ link' = [link EXCEPT ![i] = [hash |-> Fresh[i], shadow |-> FALSE]]
      /\ UNCHANGED <<database, job, rule, content, source, local>>
  BY DEF InsertEntry, NextId
<1>3. Fresh[i] \in Hashes /\ NoHash \notin Hashes
  BY <1>2 DEF ReindexAssumption
<1>4. \A k \in Ids : link[k].hash # Fresh[i]
  BY <1>1, <1>2, <1>3, FirstCounts DEF LinksFit, Group
<1>5. /\ link' \in [Ids -> [hash : Hashes \cup {NoHash}, shadow : BOOLEAN]]
      /\ link'[i].hash = Fresh[i] /\ link'[i].shadow = FALSE
      /\ \A k \in Ids : k # i => link'[k] = link[k]
  BY <1>1, <1>2, <1>3 DEF TypeOK
<1>6. Forward
  BY <1>2, <1>5 DEF Forward, Current
<1>7. Numbered'
  <2> SUFFICES ASSUME NEW m \in Ids, NEW k \in Ids, link'[m].hash # NoHash, k <= m
               PROVE  link'[k].hash # NoHash
    BY DEF Numbered
  <2>1. CASE m = i /\ k # i
    <3>1. k \in 1..(i - 1)
      BY <2>1 DEF Ids
    <3> QED  BY <1>2, <1>5, <2>1, <3>1
  <2>2. CASE k = i
    BY <1>2, <1>5, <2>2
  <2>3. CASE m # i /\ k # i
    BY <1>1, <1>5, <2>3 DEF LinksFit, Numbered
  <2> QED  BY <2>1, <2>2, <2>3
<1>8. Shadowed'
  <2> SUFFICES ASSUME NEW m \in Ids, link'[m].hash # NoHash
               PROVE  link'[m].shadow <=> \E k \in Ids : k < m /\ link'[k].hash = link'[m].hash
    BY DEF Shadowed
  <2>1. CASE m = i
    <3>1. \A k \in Ids : k < m => k # i
      BY <2>1 DEF Ids
    <3> QED  BY <1>4, <1>5, <2>1, <3>1
  <2>2. CASE m # i
    BY <1>1, <1>2, <1>4, <1>5, <2>2 DEF LinksFit, Shadowed
  <2> QED  BY <2>1, <2>2
<1>9. TablesTyped'
  BY <1>1, <1>2, <1>5 DEF TablesTyped, TypeOK
<1> QED
  BY <1>2, <1>6, <1>7, <1>8, <1>9, NeighbourFits DEF LinksFit

LEMMA NeighboursStep ==
    ASSUME ReindexAssumption, Inv, Neighbours
    PROVE  Inv'
<1>1. ASSUME NEW i \in Ids, InsertEntry(i) PROVE Inv'
  BY <1>1, InsertEntryStep
<1>2. ASSUME NEW i \in Ids, InsertArticle(i) PROVE Inv'
  <2>1. TypeOK /\ LinksFit /\ UNCHANGED link /\ UNCHANGED <<database, job, rule, local>>
    BY <1>2 DEF Inv, InsertArticle
  <2>2. TablesTyped'
    BY <1>2, <2>1 DEF InsertArticle, TablesTyped, TypeOK, ReindexAssumption
  <2> QED  BY <2>1, <2>2, LinksStay, NeighbourFits
<1>3. ASSUME NEW s \in Sources, RegisterSource(s) \/ FormerSource(s) PROVE Inv'
  <2>1. TypeOK /\ LinksFit /\ UNCHANGED link /\ UNCHANGED <<database, job, rule, local>>
    BY <1>3 DEF Inv, RegisterSource, FormerSource
  <2>2. TablesTyped'
    BY <1>3, <2>1 DEF RegisterSource, FormerSource, TablesTyped, TypeOK
  <2> QED  BY <2>1, <2>2, LinksStay, NeighbourFits
<1> QED
  BY <1>1, <1>2, <1>3 DEF Neighbours

-----------------------------------------------------------------------------
(* The invariant, and what follows from it.                                *)

LEMMA InvInit ==
    ASSUME ReindexAssumption, Init
    PROVE  Inv
<1>1. PICK h \in [Ids -> Hashes \cup {NoHash}] :
        /\ Prefix(h)
        /\ link = [i \in Ids |-> [hash |-> h[i],
                                  shadow |-> h[i] # NoHash /\ \E k \in 1..(i-1) : h[k] = h[i]]]
  BY DEF Init
<1>2. \A i \in Ids : /\ link[i].hash = h[i]
                     /\ link[i].shadow <=> (h[i] # NoHash /\ \E k \in 1..(i-1) : h[k] = h[i])
  BY <1>1
<1>3. link \in [Ids -> [hash : Hashes \cup {NoHash}, shadow : BOOLEAN]]
  BY <1>1
<1>4. 0 \in 0..MaxJobs /\ 0 \in 0..MaxId
  BY DEF ReindexAssumption
<1>5. AbsentJob \in Job /\ AbsentJob.state = "absent" /\ AbsentJob.owner = NoRun /\ AbsentJob.lease = "none"
  BY AbsentRow
<1>6. TypeOK
  BY <1>3, <1>4, <1>5 DEF Init, TypeOK
<1>7. JobsFit
  BY <1>5 DEF Init, JobsFit, JobCoherent, RowsFilled, OneActive, Unfinished
<1>8. Apart /\ RunsFit
  BY DEF Init, Apart, RunsFit, RunFits, PageFits, LinksDone, Engaged, Reading
<1>9. Numbered
  <2>1. \A i, k \in Ids : k <= i => k \in 1..i
    BY DEF Ids
  <2> QED  BY <1>1, <1>2, <2>1 DEF Numbered, Prefix
<1>10. Shadowed
  <2> SUFFICES ASSUME NEW i \in Ids, link[i].hash # NoHash
               PROVE  link[i].shadow <=> \E k \in Ids : k < i /\ link[k].hash = link[i].hash
    BY DEF Shadowed
  <2>1. \A k : k \in 1..(i-1) <=> k \in Ids /\ k < i
    BY DEF Ids, ReindexAssumption
  <2> QED  BY <1>2, <2>1
<1> QED
  BY <1>6, <1>7, <1>8, <1>9, <1>10 DEF Inv, LinksFit

LEMMA InvStep ==
    ASSUME ReindexAssumption, Inv, [Next]_vars
    PROVE  Inv'
<1>1. CASE Neighbours
  BY <1>1, NeighboursStep
<1>2. ASSUME NEW r \in Runs, StartRun(r)
      PROVE  Inv'
  BY <1>2, StartRunStep
<1>3. ASSUME NEW r \in Runs, RunStep(r)
      PROVE  Inv'
  <2>1. CASE ReclaimLeases(r) \/ MaintenanceFails(r)
    BY <2>1, ReclaimStep, StartRunStep
  <2>2. ASSUME NEW t \in Targets, NEW j \in Jobs, StartReindex(r, t, j)
        PROVE  Inv'
    BY <2>2, StartReindexStep
  <2>3. CASE StartFails(r) \/ ClaimFails(r) \/ FinishFails(r) \/ MarkFailedLost(r)
    BY <2>3, LeaveStep DEF StartFails, ClaimFails, FinishFails, MarkFailedLost
  <2>4. CASE ClaimById(r) \/ List(r) \/ Checkpoint(r) \/ SourcesDone(r) \/ WorkFails(r)
    BY <2>4, ClaimStep, ListStep, CheckpointStep, SourcesDoneStep, WorkFailsStep
  <2>5. ASSUME NEW x \in page[r],
               \/ SkipLink(r, x) \/ UpdateLinkHash(r, x) \/ SkipContent(r, x)
               \/ PeekContent(r, x) \/ UpdateContentHash(r, x) \/ WriteSource(r, x)
        PROVE  Inv'
    BY <2>5, SkipLinkStep, UpdateLinkStep, SkipContentStep, PeekStep, UpdateContentStep,
       WriteSourceStep
  <2>6. CASE FinishReindex(r) \/ BeginFinish(r) \/ CommitFinish(r) \/ MarkFailed(r)
    BY <2>6, FinishStep, BeginFinishStep, CommitStep, MarkFailedStep
  <2> QED
    BY <1>3, <2>1, <2>2, <2>3, <2>4, <2>5, <2>6 DEF RunStep
<1>4. ASSUME NEW r \in Runs, Crash(r)
      PROVE  Inv'
  BY <1>4, LeaveStep DEF Crash
<1>5. ASSUME NEW j \in Jobs, Abort(j) \/ LeaseExpires(j)
      PROVE  Inv'
  BY <1>5, OutsideStep
<1>6. CASE UNCHANGED vars
  <2>1. UNCHANGED <<database, job, rule, link, content, source>> /\ UNCHANGED local
    BY <1>6 DEF vars, local
  <2>2. TablesTyped' /\ LinksFit' /\ Forward
    BY <2>1, LinksStay DEF Inv, TablesTyped, TypeOK
  <2> QED  BY <2>1, <2>2, NeighbourFits
<1> QED
  BY <1>1, <1>2, <1>3, <1>4, <1>5, <1>6 DEF Next

LEMMA InvHolds ==
    ASSUME ReindexAssumption
    PROVE  Spec => []Inv
<1>1. Init => Inv
  BY InvInit
<1>2. Inv /\ [Next]_vars => Inv'
  BY InvStep
<1> QED
  BY <1>1, <1>2, PTL DEF Spec

\* Whatever overlaps, dies and is aborted, the tables and what the runs know of
\* them stay well formed; no checkpoint or cursor leaves the ids.
THEOREM ReindexTyped ==
    ASSUME ReindexAssumption
    PROVE  Spec => []TypeOK
<1>1. Inv => TypeOK
  BY DEF Inv
<1> QED
  BY <1>1, InvHolds, PTL

\* A job has an owner and a lease exactly while it runs, a target one unfinished
\* job at most, and a version is activated exactly with the end of its job.
THEOREM ReindexJobCoherent ==
    ASSUME ReindexAssumption
    PROVE  Spec => []JobCoherent
<1>1. Inv => JobCoherent
  BY DEF Inv, JobsFit
<1> QED
  BY <1>1, InvHolds, PTL

\* However rows are moved next to ingest, the oldest row of a link is the one
\* that counts.
THEOREM ReindexOneCanonicalPerLink ==
    ASSUME ReindexAssumption
    PROVE  Spec => []OneCanonicalPerLink
<1>1. Inv => OneCanonicalPerLink
  BY FirstCounts DEF Inv, LinksFit, OneCanonicalPerLink
<1> QED
  BY <1>1, InvHolds, PTL

\* Versions are switched by the end of a job and nothing else.
LEMMA RuleMoves ==
    ASSUME ReindexAssumption, Inv, [Next]_vars
    PROVE  \/ UNCHANGED rule
           \/ \E j \in Jobs : rule[j] = "none" /\ rule' = [rule EXCEPT ![j] = "pending"]
           \/ \E r \in Runs : Engaged(r) /\ Ending(r) /\ Holds(r) /\ Complete(r, Active)
                              /\ UNCHANGED link
<1>1. CASE \/ Neighbours \/ UNCHANGED vars \/ \E r \in Runs : StartRun(r) \/ Crash(r)
           \/ \E j \in Jobs : Abort(j) \/ LeaseExpires(j)
  BY <1>1 DEF Neighbours, InsertEntry, InsertArticle, RegisterSource, FormerSource, vars,
              StartRun, Crash, Abort, LeaseExpires, tables
<1>2. ASSUME NEW r \in Runs, NEW t \in Targets, NEW j \in Jobs, StartReindex(r, t, j)
      PROVE  rule[j] = "none" /\ rule' = [rule EXCEPT ![j] = "pending"]
  BY <1>2 DEF StartReindex, Inv, JobsFit, JobCoherent
<1>3. ASSUME NEW r \in Runs, FinishReindex(r)
      PROVE  Engaged(r) /\ Ending(r) /\ Holds(r) /\ Complete(r, Active) /\ UNCHANGED link
  BY <1>3 DEF FinishReindex, Engaged, Ending
<1>4. ASSUME NEW r \in Runs, CommitFinish(r)
      PROVE  \/ UNCHANGED rule
             \/ Engaged(r) /\ Ending(r) /\ Holds(r) /\ Complete(r, Active) /\ UNCHANGED link
  BY <1>4 DEF CommitFinish, Engaged, Ending, Inv, RunsFit, RunFits
<1>5. ASSUME NEW r \in Runs, NEW x,
             \/ SkipLink(r, x) \/ UpdateLinkHash(r, x) \/ SkipContent(r, x)
             \/ PeekContent(r, x) \/ UpdateContentHash(r, x) \/ WriteSource(r, x)
      PROVE  UNCHANGED rule
  BY <1>5 DEF SkipLink, UpdateLinkHash, SkipContent, PeekContent, UpdateContentHash,
              WriteSource, tables
<1>6. ASSUME NEW r \in Runs,
             \/ ReclaimLeases(r) \/ MaintenanceFails(r) \/ StartFails(r) \/ ClaimById(r)
             \/ ClaimFails(r) \/ List(r) \/ Checkpoint(r) \/ SourcesDone(r) \/ WorkFails(r)
             \/ BeginFinish(r) \/ FinishFails(r) \/ MarkFailed(r) \/ MarkFailedLost(r)
      PROVE  UNCHANGED rule
  BY <1>6 DEF ReclaimLeases, MaintenanceFails, StartFails, ClaimById, ClaimFails, List,
              Checkpoint, SourcesDone, WorkFails, BeginFinish, FinishFails, MarkFailed,
              MarkFailedLost, tables
<1>7. ASSUME NEW r \in Runs, RunStep(r)
      PROVE  \/ UNCHANGED rule
             \/ \E j \in Jobs : rule[j] = "none" /\ rule' = [rule EXCEPT ![j] = "pending"]
             \/ Engaged(r) /\ Ending(r) /\ Holds(r) /\ Complete(r, Active) /\ UNCHANGED link
  BY <1>2, <1>3, <1>4, <1>5, <1>6, <1>7 DEF RunStep
<1> QED
  BY <1>1, <1>7 DEF Next

\* When a link_hash job activates its version, no entry is left behind: not one
\* that came in meanwhile, nor one that an aborted run has touched.
THEOREM ReindexSwitchedWhenDone ==
    ASSUME ReindexAssumption
    PROVE  Spec => SwitchedWhenDone
<1> DEFINE A == \A j \in Jobs :
                  rule[j] # "active" /\ rule'[j] = "active" /\ job[j].target = "link_hash"
                  => \A i \in Ids : link[i].hash \in {NoHash, Fresh[i]} \/ Fresh[i] = NoHash
<1>1. Inv /\ [Next]_vars => [A]_vars
  <2> SUFFICES ASSUME Inv, [Next]_vars, NEW j \in Jobs,
                      rule[j] # "active", rule'[j] = "active", job[j].target = "link_hash",
                      NEW i \in Ids
               PROVE  Current(i)
    BY DEF Current
  <2>1. ~UNCHANGED rule
    OBVIOUS
  <2>2. ~ \E k \in Jobs : rule' = [rule EXCEPT ![k] = "pending"]
    BY DEF Inv, TypeOK
  <2>3. PICK r \in Runs : Engaged(r) /\ Ending(r) /\ Holds(r) /\ Complete(r, Active)
    BY <2>1, <2>2, RuleMoves
  <2>4. j = mine[r] /\ mine[r] # 0 /\ LinksDone(r)
    BY <2>3, CompleteFits, EngagedRun
  <2> QED  BY <2>3, <2>4 DEF LinksDone, Target
<1>2. Spec => [][A]_vars
  BY <1>1, InvHolds, PTL DEF Spec
<1> QED
  BY <1>2 DEF SwitchedWhenDone

\* Job j keeps what it has, or it has not ended and its checkpoint goes forward.
Forth(j) == job'[j] = job[j] \/ (job[j].state \notin Terminal /\ job'[j].last >= job[j].last)

\* A row that is replaced, the others staying.
LEMMA ForthByRow ==
    ASSUME TypeOK, NEW m \in Jobs, NEW row, job' = [job EXCEPT ![m] = row],
           job[m].state \notin Terminal, row.last >= job[m].last
    PROVE  \A j \in Jobs : Forth(j)
BY DEF TypeOK, Forth

LEMMA JobMoves ==
    ASSUME ReindexAssumption, Inv, [Next]_vars
    PROVE  \A j \in Jobs : Forth(j)
<1>1. TypeOK /\ JobsFit /\ \A j \in Jobs : job[j] \in Job /\ job[j].last \in 0..MaxId
  BY DEF Inv, TypeOK, Job
<1>2. \A j \in Jobs : job[j].last >= job[j].last
  BY <1>1 DEF ReindexAssumption
<1>3. CASE UNCHANGED job
  BY <1>3 DEF Forth
<1>4. ASSUME NEW r \in Runs, ReclaimLeases(r)
      PROVE  \A j \in Jobs : Forth(j)
  <2> SUFFICES ASSUME NEW j \in Jobs, Expired(j)
               PROVE  Forth(j)
    BY <1>4 DEF ReclaimLeases, Forth
  <2>1. job'[j] = Unleased(job[j], "pending") /\ job[j].state = "running"
    BY <1>4 DEF ReclaimLeases, Reclaimed, Expired
  <2>2. job'[j].last = job[j].last
    BY <1>1, <2>1, UnleasedRow DEF Unfinished
  <2> QED  BY <1>2, <2>1, <2>2 DEF Forth, Terminal
<1>5. ASSUME NEW r \in Runs, NEW t \in Targets, NEW j \in Jobs, StartReindex(r, t, j)
      PROVE  \A k \in Jobs : Forth(k)
  <2>1. job' = [job EXCEPT ![j] = Started(t)] /\ job[j].state = "absent"
    BY <1>5 DEF StartReindex, Started
  <2>2. job[j].last = 0 /\ Started(t).last = 0
    BY <1>1, <2>1, StartedRow, AbsentRow DEF JobsFit, RowsFilled
  <2>3. Started(t).last >= job[j].last
    BY <2>2
  <2> QED  BY <1>1, <2>1, <2>3, ForthByRow DEF Terminal
<1>6. ASSUME NEW r \in Runs, ClaimById(r)
      PROVE  \A j \in Jobs : Forth(j)
  <2>1. mine[r] \in Jobs /\ job[mine[r]].state = "pending"
    BY <1>6, EngagedRun DEF ClaimById, Engaged
  <2>2. job' = [job EXCEPT ![mine[r]] = Claimed(job[mine[r]], r)]
    BY <1>1, <1>6, <2>1 DEF ClaimById, Claimed, TypeOK
  <2>3. Claimed(job[mine[r]], r).last >= job[mine[r]].last
    BY <1>1, <1>2, <2>1, ClaimedRow
  <2> QED  BY <1>1, <2>1, <2>2, <2>3, ForthByRow DEF Terminal
<1>7. ASSUME NEW r \in Runs, Checkpoint(r), Holds(r)
      PROVE  \A j \in Jobs : Forth(j)
  <2>1. Engaged(r) /\ Reading(r)
    BY <1>7 DEF Checkpoint, Engaged, Reading
  <2>2. mine[r] \in Jobs /\ job[mine[r]].state = "running" /\ RunFits(r) /\ after[r] \in 0..MaxId
    BY <1>1, <1>7, <2>1, EngagedRun DEF Holds, TypeOK
  <2>3. job' = [job EXCEPT ![mine[r]] = [job[mine[r]] EXCEPT !.last = after[r]]]
    BY <1>1, <1>7, <2>2 DEF Checkpoint, TypeOK
  <2>4. [job[mine[r]] EXCEPT !.last = after[r]].last = after[r]
    BY <1>1, <2>2, CheckpointedRow
  <2>5. job[mine[r]].last <= after[r]
    BY <2>1, <2>2 DEF RunFits
  <2>6. [job[mine[r]] EXCEPT !.last = after[r]].last >= job[mine[r]].last
    BY <1>1, <2>2, <2>4, <2>5
  <2> QED  BY <1>1, <2>2, <2>3, <2>6, ForthByRow DEF Terminal
<1>8. ASSUME NEW r \in Runs, MarkFailed(r), Holds(r)
      PROVE  \A j \in Jobs : Forth(j)
  <2>1. mine[r] \in Jobs /\ job[mine[r]].state = "running"
    BY <1>8, EngagedRun DEF MarkFailed, Engaged, Holds
  <2>2. job' = [job EXCEPT ![mine[r]] = Unleased(job[mine[r]], "failed")]
    BY <1>1, <1>8, <2>1 DEF MarkFailed, TypeOK
  <2>3. Unleased(job[mine[r]], "failed").last >= job[mine[r]].last
    BY <1>1, <1>2, <2>1, UnleasedRow DEF Terminal
  <2> QED  BY <1>1, <2>1, <2>2, <2>3, ForthByRow DEF Terminal
<1>9. ASSUME NEW r \in Runs, Engaged(r), Holds(r), Complete(r, Active)
      PROVE  \A j \in Jobs : Forth(j)
  <2>1. mine[r] \in Jobs /\ job[mine[r]].state = "running"
    BY <1>9, EngagedRun DEF Holds
  <2>2. job' = [job EXCEPT ![mine[r]] = Unleased(job[mine[r]], "completed")]
    BY <1>1, <1>9, <2>1 DEF Complete, TypeOK
  <2>3. Unleased(job[mine[r]], "completed").last >= job[mine[r]].last
    BY <1>1, <1>2, <2>1, UnleasedRow DEF Terminal
  <2> QED  BY <1>1, <2>1, <2>2, <2>3, ForthByRow DEF Terminal
<1>10. ASSUME NEW j \in Jobs, Abort(j)
       PROVE  \A k \in Jobs : Forth(k)
  <2>1. job' = [job EXCEPT ![j] = Unleased(job[j], "aborted")] /\ job[j].state \in Unfinished
    BY <1>1, <1>10 DEF Abort, TypeOK
  <2>2. Unleased(job[j], "aborted").last >= job[j].last
    BY <1>1, <1>2, UnleasedRow DEF Terminal
  <2> QED  BY <1>1, <2>1, <2>2, ForthByRow DEF Terminal, Unfinished
<1>11. ASSUME NEW j \in Jobs, LeaseExpires(j)
       PROVE  \A k \in Jobs : Forth(k)
  <2>1. job' = [job EXCEPT ![j] = [job[j] EXCEPT !.lease = "expired"]] /\ job[j].lease = "live"
    BY <1>1, <1>11 DEF LeaseExpires, TypeOK
  <2>2. job[j].state = "running"
    BY <1>1, <2>1 DEF JobsFit, JobCoherent
  <2>3. [job[j] EXCEPT !.lease = "expired"].last >= job[j].last
    BY <1>1, <1>2, ExpiredRow
  <2> QED  BY <1>1, <2>1, <2>2, <2>3, ForthByRow DEF Terminal
<1>12. ASSUME NEW r \in Runs, NEW x,
             \/ SkipLink(r, x) \/ UpdateLinkHash(r, x) \/ SkipContent(r, x)
             \/ PeekContent(r, x) \/ UpdateContentHash(r, x) \/ WriteSource(r, x)
       PROVE  UNCHANGED job
  BY <1>12 DEF SkipLink, UpdateLinkHash, SkipContent, PeekContent, UpdateContentHash,
               WriteSource, tables
<1>13. ASSUME NEW r \in Runs,
             \/ MaintenanceFails(r) \/ StartFails(r) \/ ClaimFails(r) \/ List(r)
             \/ (Checkpoint(r) /\ ~Holds(r)) \/ SourcesDone(r) \/ WorkFails(r) \/ BeginFinish(r)
             \/ FinishFails(r) \/ (MarkFailed(r) /\ ~Holds(r)) \/ MarkFailedLost(r)
       PROVE  UNCHANGED job
  BY <1>13 DEF MaintenanceFails, StartFails, ClaimFails, List, Checkpoint, SourcesDone,
               WorkFails, BeginFinish, FinishFails, MarkFailed, MarkFailedLost, tables
<1>14. ASSUME NEW r \in Runs, FinishReindex(r) \/ CommitFinish(r)
       PROVE  UNCHANGED job \/ (Engaged(r) /\ Holds(r) /\ Complete(r, Active))
  BY <1>14 DEF FinishReindex, CommitFinish, Engaged, Inv, RunsFit, RunFits
<1>15. ASSUME NEW r \in Runs, RunStep(r)
       PROVE  \A j \in Jobs : Forth(j)
  <2>1. CASE \/ ReclaimLeases(r) \/ ClaimById(r) \/ Checkpoint(r) \/ MarkFailed(r)
             \/ FinishReindex(r) \/ CommitFinish(r)
    BY <1>3, <1>4, <1>6, <1>7, <1>8, <1>9, <1>13, <1>14, <2>1
  <2>2. CASE \/ MaintenanceFails(r) \/ StartFails(r) \/ ClaimFails(r) \/ List(r)
             \/ SourcesDone(r) \/ WorkFails(r) \/ BeginFinish(r) \/ FinishFails(r)
             \/ MarkFailedLost(r)
    <3>1. UNCHANGED job
      BY <2>2 DEF MaintenanceFails, StartFails, ClaimFails, List, SourcesDone, WorkFails,
                  BeginFinish, FinishFails, MarkFailedLost, tables
    <3> QED  BY <1>3, <3>1
  <2>3. ASSUME NEW x,
               \/ SkipLink(r, x) \/ UpdateLinkHash(r, x) \/ SkipContent(r, x)
               \/ PeekContent(r, x) \/ UpdateContentHash(r, x) \/ WriteSource(r, x)
        PROVE  \A j \in Jobs : Forth(j)
    BY <1>3, <1>12, <2>3
  <2> QED
    BY <1>5, <1>15, <2>1, <2>2, <2>3 DEF RunStep
<1>16. CASE Neighbours \/ UNCHANGED vars \/ \E r \in Runs : StartRun(r) \/ Crash(r)
  <2>1. UNCHANGED job
    BY <1>16 DEF Neighbours, InsertEntry, InsertArticle, RegisterSource, FormerSource, vars,
                 StartRun, Crash, tables
  <2> QED  BY <1>3, <2>1
<1> QED
  BY <1>10, <1>11, <1>15, <1>16 DEF Next

\* An ended job never changes again, and no checkpoint ever goes back, whatever
\* a run that has lost its job still attempts.
THEOREM ReindexEndedForGood ==
    ASSUME ReindexAssumption
    PROVE  Spec => EndedForGood
<1> DEFINE A == \A j \in Jobs : /\ job[j].state \in Terminal => job'[j] = job[j]
                                /\ job'[j].last >= job[j].last
<1>1. Inv /\ [Next]_vars => [A]_vars
  <2> SUFFICES ASSUME Inv, [Next]_vars, NEW j \in Jobs
               PROVE  /\ job[j].state \in Terminal => job'[j] = job[j]
                      /\ job'[j].last >= job[j].last
    OBVIOUS
  <2>1. Forth(j)
    BY JobMoves
  <2>2. job[j].last \in Nat
    BY DEF Inv, TypeOK, Job, ReindexAssumption
  <2> QED  BY <2>1, <2>2 DEF Forth
<1>2. Spec => [][A]_vars
  BY <1>1, InvHolds, PTL DEF Spec
<1> QED
  BY <1>2 DEF EndedForGood

-----------------------------------------------------------------------------
(* The promise of rule_versions.                                           *)

ActiveOne == IF Active = {} THEN 0 ELSE Lowest(Active)
Retired   == {j \in Jobs : rule[j] = "superseded"}

\* Readers get version j exactly if it is active.
LEMMA ActiveOneIs ==
    ASSUME ReindexAssumption, OneActive
    PROVE  /\ \A j \in Jobs : rule[j] = "active" => ActiveOne = j
           /\ (\A j \in Jobs : rule[j] # "active") => ActiveOne = 0
           /\ ActiveOne # 0 => ActiveOne \in Jobs /\ rule[ActiveOne] = "active"
<1>1. Active \in SUBSET Nat /\ 0 \notin Jobs
  BY DEF Active, Jobs
<1>2. ASSUME NEW j \in Jobs, rule[j] = "active"
      PROVE  ActiveOne = j
  <2>1. j \in Active /\ \A k \in Active : k = j
    BY <1>2 DEF Active, OneActive
  <2>2. j \in Nat /\ \A k \in Active : j <= k
    BY <1>1, <2>1
  <2>3. Lowest(Active) = j
    BY <1>1, <2>1, <2>2, LowestIs
  <2> QED  BY <2>1, <2>3 DEF ActiveOne
<1>3. (\A j \in Jobs : rule[j] # "active") => ActiveOne = 0
  BY DEF Active, ActiveOne
<1> QED
  BY <1>2, <1>3

\* The reindex flow switches the active version in one step or not at all:
\* every behaviour of it is one of rule_versions without return.
THEOREM ReindexImplementsActiveVersion ==
    ASSUME ReindexAssumption
    PROVE  Spec => ImplementsActiveVersion
<1>1. Init => Version!Init
  BY DEF Init, Version!Init, Active
<1>2. Inv /\ Inv' /\ [Next]_vars => [Version!Next]_Version!vars
  <2> SUFFICES ASSUME Inv, Inv', [Next]_vars
               PROVE  [Version!Next]_Version!vars
    OBVIOUS
  <2>1. OneActive /\ OneActive' /\ TypeOK
    BY DEF Inv, JobsFit
  <2>2. ASSUME UNCHANGED <<ActiveOne, Retired>>
        PROVE  [Version!Next]_Version!vars
    BY <2>2 DEF Version!vars, ActiveOne, Retired
  <2>3. CASE UNCHANGED rule
    BY <2>2, <2>3 DEF ActiveOne, Active, Retired
  <2>4. ASSUME NEW j \in Jobs, rule[j] = "none", rule' = [rule EXCEPT ![j] = "pending"]
        PROVE  [Version!Next]_Version!vars
    <3>1. \A k \in Jobs : /\ rule'[k] = "active" <=> rule[k] = "active"
                          /\ rule'[k] = "superseded" <=> rule[k] = "superseded"
      BY <2>1, <2>4 DEF TypeOK
    <3>2. Active' = Active /\ Retired' = Retired
      BY <3>1 DEF Active, Retired
    <3> QED  BY <2>2, <3>2 DEF ActiveOne
  <2>5. ASSUME NEW r \in Runs, Engaged(r), Holds(r), Complete(r, Active)
        PROVE  [Version!Next]_Version!vars
    <3>0. PICK v : v = mine[r]
      OBVIOUS
    <3>1. /\ v \in Jobs /\ job[v].state = "running"
          /\ \A k \in Jobs : rule'[k] = IF k = v THEN "active"
                                        ELSE IF rule[k] = "active" THEN "superseded" ELSE rule[k]
      BY <2>5, <3>0, CompleteFits
    <3>2. rule[v] # "active" /\ rule[v] # "superseded"
      BY <3>1 DEF Inv, JobsFit, JobCoherent
    <3>3. ActiveOne' = v
      <4>1. rule'[v] = "active" /\ \A k \in Jobs : rule'[k] = "active" => k = v
        BY <2>1, <3>1 DEF OneActive
      <4>2. Active' = {v}
        BY <3>1, <4>1 DEF Active
      <4>3. v \in Nat
        BY <3>1 DEF Jobs
      <4>4. Lowest({v}) = v
        BY <4>3, LowestIs
      <4> QED  BY <4>2, <4>4 DEF ActiveOne
    <3>4. v # ActiveOne /\ v \notin Retired
      BY <2>1, <3>1, <3>2, ActiveOneIs DEF Retired, Jobs
    <3>5. Retired' = (Retired \cup {ActiveOne}) \ {v, 0}
      <4>1. \A k \in Jobs : rule'[k] = "superseded" <=>
                              k # v /\ (rule[k] = "active" \/ rule[k] = "superseded")
        BY <3>1
      <4>2. \A k \in Jobs : rule[k] = "active" <=> (k = ActiveOne)
        BY <2>1, ActiveOneIs DEF Jobs
      <4>3. 0 \notin Jobs
        BY DEF Jobs
      <4>4. ActiveOne = 0 \/ ActiveOne \in Jobs
        BY <2>1, ActiveOneIs
      <4> QED  BY <4>1, <4>2, <4>3, <4>4 DEF Retired
    <3>6. Version!Switch(v)
      BY <3>3, <3>4, <3>5 DEF Version!Switch, ActiveOne, Retired
    <3>7. Version!Next
      BY <3>1, <3>6 DEF Version!Next
    <3> QED  BY <3>7
  <2> QED  BY <2>3, <2>4, <2>5, RuleMoves
<1>3. Spec => Version!Spec
  BY <1>1, <1>2, InvHolds, PTL DEF Spec, Version!Spec
<1> QED
  BY <1>3 DEF ImplementsActiveVersion

\* ActiveVersion's invariant, for the versions of kind 'reindex': where there is
\* an active version, readers get it, and it is not one that has been superseded.
THEOREM ReindexReadersGetCurrent ==
    ASSUME ReindexAssumption
    PROVE  Spec => []Version!ActiveIsCurrent
<1>1. Version!Init => Version!ActiveIsCurrent
  BY DEF Version!Init, Version!ActiveIsCurrent
<1>2. Version!ActiveIsCurrent /\ [Version!Next]_Version!vars => Version!ActiveIsCurrent'
  <2> SUFFICES ASSUME Version!ActiveIsCurrent, [Version!Next]_Version!vars
               PROVE  Version!ActiveIsCurrent'
    OBVIOUS
  <2>1. /\ ActiveOne \in Jobs \cup {0} /\ Retired \subseteq Jobs
        /\ ActiveOne \notin Retired /\ (ActiveOne = 0 => Retired = {})
    BY DEF Version!ActiveIsCurrent, ActiveOne, Retired
  <2>2. \/ ActiveOne' = ActiveOne /\ Retired' = Retired
        \/ \E v \in Jobs : ActiveOne' = v /\ Retired' = (Retired \cup {ActiveOne}) \ {v, 0}
    BY DEF Version!Next, Version!Switch, Version!vars, ActiveOne, Retired
  <2>3. 0 \notin Jobs
    BY DEF Jobs
  <2>4. /\ ActiveOne' \in Jobs \cup {0} /\ Retired' \subseteq Jobs
        /\ ActiveOne' \notin Retired' /\ (ActiveOne' = 0 => Retired' = {})
    BY <2>1, <2>2, <2>3
  <2> QED  BY <2>4 DEF Version!ActiveIsCurrent, ActiveOne, Retired
<1> QED
  BY <1>1, <1>2, ReindexImplementsActiveVersion, PTL
  DEF ImplementsActiveVersion, Version!Spec

\* ActiveVersion's action property: a superseded version of kind 'reindex' is so
\* for good; nothing makes it active again.
THEOREM ReindexRetiredForGood ==
    ASSUME ReindexAssumption
    PROVE  Spec => Version!RetiredForGood
<1> DEFINE A == ~FALSE => Retired \subseteq Retired'
<1>1. Version!ActiveIsCurrent /\ [Version!Next]_Version!vars => [A]_Version!vars
  <2> SUFFICES ASSUME Version!ActiveIsCurrent, Version!Next
               PROVE  A
    OBVIOUS
  <2>1. Retired \subseteq Jobs /\ 0 \notin Jobs
    BY DEF Version!ActiveIsCurrent, Retired, Jobs
  <2>2. \E v \in Jobs : v \notin Retired /\ Retired' = (Retired \cup {ActiveOne}) \ {v, 0}
    BY DEF Version!Next, Version!Switch, ActiveOne, Retired
  <2> QED  BY <2>1, <2>2
<1>2. Spec => [][A]_Version!vars
  BY <1>1, ReindexReadersGetCurrent, ReindexImplementsActiveVersion, PTL
  DEF ImplementsActiveVersion, Version!Spec
<1> QED
  BY <1>2, PTL DEF Version!RetiredForGood, Retired
-----------------------------------------------------------------------------
(* What the dry run foretells.                                             *)

\* f begins with z and goes on by the steps.
Recurs(f, N, A, z, step) ==
    f \in [0..N -> A] /\ f[0] = z /\ \A n \in 1..N : f[n] = step[n][f[n - 1]]

\* A function is defined by its first value and a step from each to the next.
LEMMA Recursion ==
    ASSUME NEW N \in Nat, NEW A, NEW z \in A, NEW step \in [1..N -> [A -> A]]
    PROVE  \E f : Recurs(f, N, A, z, step)
<1> DEFINE Good(k) == {f \in [0..k -> A] : f[0] = z /\ \A n \in 1..k : f[n] = step[n][f[n - 1]]}
           Missing == {k \in 0..N : Good(k) = {}}
<1> HIDE DEF Good
<1>1. Missing = {}
  <2> SUFFICES ASSUME Missing # {} PROVE FALSE
    OBVIOUS
  <2>0. Missing \in SUBSET Nat
    OBVIOUS
  <2> HIDE DEF Missing
  <2>1. PICK m \in Missing : \A k \in Missing : m <= k
    BY <2>0, LeastId
  <2>2. m \in 0..N /\ Good(m) = {}
    BY <2>1 DEF Missing
  <2>3. CASE m = 0
    <3> DEFINE g == [n \in 0..0 |-> z]
    <3>1. g \in [0..0 -> A] /\ g[0] = z /\ \A n \in 1..0 : g[n] = step[n][g[n - 1]]
      OBVIOUS
    <3> HIDE DEF g
    <3>2. g \in Good(0)
      BY <3>1 DEF Good
    <3> QED  BY <3>2, <2>2, <2>3
  <2>4. CASE m # 0
    <3>1. m - 1 \in 0..N /\ ~(m <= m - 1) /\ m \in 1..N
      BY <2>2, <2>4
    <3>2. m - 1 \notin Missing
      BY <3>1, <2>1
    <3>3. PICK f : f \in Good(m - 1)
      BY <3>1, <3>2 DEF Missing
    <3>4. /\ f \in [0..(m - 1) -> A] /\ f[0] = z
          /\ \A n \in 1..(m - 1) : f[n] = step[n][f[n - 1]]
      BY <3>3 DEF Good
    <3> DEFINE g == [n \in 0..m |-> IF n = m THEN step[m][f[m - 1]] ELSE f[n]]
    <3>5. step[m][f[m - 1]] \in A
      <4>1. f[m - 1] \in A /\ step[m] \in [A -> A]
        BY <3>1, <3>4
      <4> QED  BY <4>1
    <3>6. g \in [0..m -> A]
      BY <3>1, <3>4, <3>5
    <3>7. g[0] = z
      BY <3>1, <3>4, <2>4
    <3>8. ASSUME NEW n \in 1..m
          PROVE  g[n] = step[n][g[n - 1]]
      <4>1. n - 1 \in 0..m /\ n - 1 # m /\ g[n - 1] = f[n - 1] /\ n \in 0..m
        BY <3>1
      <4>2. CASE n = m
        BY <4>1, <4>2
      <4>3. CASE n # m
        <5>1. n \in 1..(m - 1)
          BY <3>1, <4>3
        <5>2. g[n] = f[n]
          BY <4>1, <4>3
        <5> QED  BY <5>1, <5>2, <3>4, <4>1
      <4> QED  BY <4>2, <4>3
    <3> HIDE DEF g
    <3>9. g \in Good(m)
      BY <3>6, <3>7, <3>8 DEF Good
    <3> QED  BY <3>9, <2>2
  <2> QED  BY <2>3, <2>4
<1>2. PICK f : f \in Good(N)
  <2>1. N \in 0..N
    OBVIOUS
  <2> QED  BY <2>1, <1>1
<1> QED
  BY <1>2 DEF Good, Recurs

\* What holds at first and is kept from each number to the next holds for all.
LEMMA Induction ==
    ASSUME NEW N \in Nat, NEW S \in SUBSET Nat, 0 \in S,
           \A n \in 1..N : n - 1 \in S => n \in S
    PROVE  N \in S
<1> DEFINE Bad == (0..N) \ S
<1> SUFFICES ASSUME N \notin S PROVE FALSE
  OBVIOUS
<1>1. N \in Bad /\ Bad \in SUBSET Nat
  OBVIOUS
<1>2. PICK m \in Bad : \A k \in Bad : m <= k
  <2> HIDE DEF Bad
  <2> QED  BY <1>1, LeastId
<1>3. m \in 1..N /\ m \notin S
  BY <1>2
<1>4. m - 1 \in 0..N /\ ~(m <= m - 1)
  BY <1>3
<1>5. m - 1 \in S
  BY <1>2, <1>4
<1> QED
  BY <1>3, <1>5

Tally == [updated : Nat, skipped : Nat]

LEMMA CountedIs ==
    ASSUME NEW t \in Tally, NEW b
    PROVE  Nothing \in Tally /\ Counted(t, b) \in Tally
BY DEF Tally, Nothing, Counted

\* A step of the dry run over the entries, and one of the run itself.
DryLink(n, s) ==
    IF Stale(n, link[n].hash)
    THEN [groups |-> [s.groups EXCEPT ![link[n].hash] = @ \ {n},
                                      ![Fresh[n]] = s.groups[Fresh[n]] \cup {n}],
          tally  |-> Counted(s.tally, Lowest(s.groups[Fresh[n]] \cup {n}) = n)]
    ELSE s

RunLink(n, s) ==
    IF Stale(n, s.table[n].hash)
    THEN [table |-> MovedIn(s.table, n, Fresh[n]),
          tally |-> Counted(s.tally, ~MovedIn(s.table, n, Fresh[n])[n].shadow)]
    ELSE s

DryBody(n, s) ==
    IF Stale(n, content[n])
    THEN [used  |-> IF Fresh[n] \notin s.used THEN (s.used \ {content[n]}) \cup {Fresh[n]}
                                              ELSE s.used,
          tally |-> Counted(s.tally, Fresh[n] \notin s.used)]
    ELSE s

RunBody(n, s) ==
    IF Stale(n, s.table[n])
    THEN [table |-> IF \A k \in Ids \ {n} : s.table[k] # Fresh[n]
                    THEN [s.table EXCEPT ![n] = Fresh[n]] ELSE s.table,
          tally |-> Counted(s.tally, \A k \in Ids \ {n} : s.table[k] # Fresh[n])]
    ELSE s

LinkRow == [hash : Hashes \cup {NoHash}, shadow : BOOLEAN]

\* A move changes the hash of one row, and leaves the shadows a flag.
LEMMA MovedTyped ==
    ASSUME NEW table \in [Ids -> LinkRow], NEW n \in Ids, NEW h \in Hashes
    PROVE  /\ MovedIn(table, n, h) \in [Ids -> LinkRow]
           /\ \A k \in Ids : MovedIn(table, n, h)[k].hash = IF k = n THEN h ELSE table[k].hash
           /\ MovedIn(table, n, h)[n].shadow <=> \E m \in Ids : m < n /\ table[m].hash = h
<1> DEFINE joined == [table EXCEPT ![n].hash = h]
           moved == MovedIn(table, n, h)
<1>1. joined \in [Ids -> LinkRow]
  BY DEF LinkRow
<1>2. \A k \in Ids : joined[k].hash = IF k = n THEN h ELSE table[k].hash
  BY DEF LinkRow
<1>3. ASSUME NEW k \in Ids
      PROVE  /\ moved[k] \in LinkRow /\ moved[k].hash = joined[k].hash
             /\ joined[k].hash = h =>
                   (moved[k].shadow <=> \E m \in Ids : m < k /\ joined[m].hash = joined[k].hash)
  <2> DEFINE old == \E m \in Ids : m < k /\ joined[m].hash = joined[k].hash
  <2>1. old \in BOOLEAN
    OBVIOUS
  <2>2. moved[k] = IF joined[k].hash \in {h, table[n].hash}
                   THEN [joined[k] EXCEPT !.shadow = old] ELSE joined[k]
    BY DEF MovedIn
  <2> HIDE DEF old, joined, moved
  <2>3. joined[k] \in LinkRow
    BY <1>1
  <2>4. /\ moved[k] \in LinkRow /\ moved[k].hash = joined[k].hash
        /\ joined[k].hash = h => moved[k].shadow = old
    BY <2>1, <2>2, <2>3 DEF LinkRow
  <2> QED  BY <2>4 DEF old
<1>4. moved = [k \in Ids |-> moved[k]]
  BY DEF MovedIn
<1> HIDE DEF joined, moved
<1>5. moved \in [Ids -> LinkRow]
  BY <1>3, <1>4
<1>6. moved[n].shadow <=> \E m \in Ids : m < n /\ joined[m].hash = h
  BY <1>2, <1>3
<1>7. \A m \in Ids : m < n => joined[m].hash = table[m].hash
  BY <1>2 DEF Ids
<1> QED
  BY <1>2, <1>3, <1>5, <1>6, <1>7 DEF moved

LEMMA DryLinksIs ==
    ASSUME ReindexAssumption, TypeOK
    PROVE  \E f : /\ DryLinks = f[MaxId].tally
                  /\ f[0] = [groups |-> [h \in Hashes |-> Group(h)], tally |-> Nothing]
                  /\ \A n \in 1..MaxId : f[n] = DryLink(n, f[n - 1])
<1> DEFINE A == [groups : [Hashes -> SUBSET Ids], tally : Tally]
           z == [groups |-> [h \in Hashes |-> Group(h)], tally |-> Nothing]
           step == [n \in 1..MaxId |-> [s \in A |-> DryLink(n, s)]]
           Meets(g) == g = [n \in 0..MaxId |-> IF n = 0 THEN z ELSE DryLink(n, g[n - 1])]
           sim == CHOOSE g : Meets(g)
<1>1. MaxId \in Nat
  BY DEF ReindexAssumption
<1>2. z \in A
  BY CountedIs DEF Group, Tally, Nothing
<1>3. ASSUME NEW n \in 1..MaxId, NEW s \in A
      PROVE  DryLink(n, s) \in A
  <2>1. CASE ~Stale(n, link[n].hash)
    BY <2>1 DEF DryLink
  <2>2. CASE Stale(n, link[n].hash)
    <3>1. Fresh[n] \in Hashes /\ n \in Ids
      BY <2>2 DEF Stale, ReindexAssumption, Ids
    <3> DEFINE g == [s.groups EXCEPT ![link[n].hash] = @ \ {n},
                                     ![Fresh[n]] = s.groups[Fresh[n]] \cup {n}]
               t == Counted(s.tally, Lowest(s.groups[Fresh[n]] \cup {n}) = n)
    <3>2. g \in [Hashes -> SUBSET Ids]
      BY <3>1
    <3>3. t \in Tally
      BY CountedIs
    <3>4. DryLink(n, s) = [groups |-> g, tally |-> t]
      BY <2>2 DEF DryLink
    <3> HIDE DEF g, t
    <3> QED  BY <3>2, <3>3, <3>4
  <2> QED  BY <2>1, <2>2
<1> HIDE DEF A, z
<1>4. step \in [1..MaxId -> [A -> A]]
  BY <1>3
<1>5. PICK f : Recurs(f, MaxId, A, z, step)
  <2> HIDE DEF step
  <2> QED  BY <1>1, <1>2, <1>4, Recursion
<1>6. /\ f \in [0..MaxId -> A] /\ f[0] = z
      /\ \A n \in 1..MaxId : f[n] = step[n][f[n - 1]]
  <2> HIDE DEF step
  <2> QED  BY <1>5 DEF Recurs
<1>7. Meets(f)
  <2>1. ASSUME NEW n \in 0..MaxId
        PROVE  f[n] = IF n = 0 THEN z ELSE DryLink(n, f[n - 1])
    <3>1. CASE n # 0
      <4>1. n \in 1..MaxId /\ n - 1 \in 0..MaxId
        BY <1>1, <3>1
      <4>2. f[n - 1] \in A
        BY <4>1, <1>6
      <4> QED  BY <1>6, <3>1, <4>1, <4>2
    <3> QED  BY <1>6, <3>1
  <2>2. f = [n \in 0..MaxId |-> f[n]]
    BY <1>6
  <2> QED  BY <2>1, <2>2
<1>8. Meets(sim)
  <2> HIDE DEF Meets
  <2> QED  BY <1>7
<1>9. DryLinks = sim[MaxId].tally
  BY DEF DryLinks, DryLink, z
<1>10. sim[0] = z /\ \A n \in 1..MaxId : sim[n] = DryLink(n, sim[n - 1])
  <2> HIDE DEF sim
  <2>1. \A n \in 0..MaxId : sim[n] = IF n = 0 THEN z ELSE DryLink(n, sim[n - 1])
    BY <1>8
  <2>2. 0 \in 0..MaxId /\ \A n \in 1..MaxId : n \in 0..MaxId /\ n # 0
    BY <1>1
  <2> QED  BY <2>1, <2>2
<1> QED
  <2> HIDE DEF sim
  <2> QED  BY <1>9, <1>10 DEF z

LEMMA RunLinksIs ==
    ASSUME ReindexAssumption, TypeOK
    PROVE  \E f : /\ RunLinks = f[MaxId].tally
                  /\ f[0] = [table |-> link, tally |-> Nothing]
                  /\ \A n \in 1..MaxId : f[n] = RunLink(n, f[n - 1])
<1> DEFINE A == [table : [Ids -> LinkRow], tally : Tally]
           z == [table |-> link, tally |-> Nothing]
           step == [n \in 1..MaxId |-> [s \in A |-> RunLink(n, s)]]
           Meets(g) == g = [n \in 0..MaxId |-> IF n = 0 THEN z ELSE RunLink(n, g[n - 1])]
           sim == CHOOSE g : Meets(g)
<1>1. MaxId \in Nat
  BY DEF ReindexAssumption
<1>2. z \in A
  BY CountedIs DEF Tally, Nothing, TypeOK, LinkRow
<1>3. ASSUME NEW n \in 1..MaxId, NEW s \in A
      PROVE  RunLink(n, s) \in A
  <2>1. CASE ~Stale(n, s.table[n].hash)
    BY <2>1 DEF RunLink
  <2>2. CASE Stale(n, s.table[n].hash)
    <3>1. Fresh[n] \in Hashes /\ n \in Ids
      BY <2>2 DEF Stale, ReindexAssumption, Ids
    <3> DEFINE g == MovedIn(s.table, n, Fresh[n])
               t == Counted(s.tally, ~MovedIn(s.table, n, Fresh[n])[n].shadow)
    <3>2. g \in [Ids -> LinkRow]
      BY <3>1, MovedTyped
    <3>3. t \in Tally
      BY CountedIs
    <3>4. RunLink(n, s) = [table |-> g, tally |-> t]
      BY <2>2 DEF RunLink
    <3> HIDE DEF g, t
    <3> QED  BY <3>2, <3>3, <3>4
  <2> QED  BY <2>1, <2>2
<1> HIDE DEF A, z
<1>4. step \in [1..MaxId -> [A -> A]]
  BY <1>3
<1>5. PICK f : Recurs(f, MaxId, A, z, step)
  <2> HIDE DEF step
  <2> QED  BY <1>1, <1>2, <1>4, Recursion
<1>6. /\ f \in [0..MaxId -> A] /\ f[0] = z
      /\ \A n \in 1..MaxId : f[n] = step[n][f[n - 1]]
  <2> HIDE DEF step
  <2> QED  BY <1>5 DEF Recurs
<1>7. Meets(f)
  <2>1. ASSUME NEW n \in 0..MaxId
        PROVE  f[n] = IF n = 0 THEN z ELSE RunLink(n, f[n - 1])
    <3>1. CASE n # 0
      <4>1. n \in 1..MaxId /\ n - 1 \in 0..MaxId
        BY <1>1, <3>1
      <4>2. f[n - 1] \in A
        BY <4>1, <1>6
      <4> QED  BY <1>6, <3>1, <4>1, <4>2
    <3> QED  BY <1>6, <3>1
  <2>2. f = [n \in 0..MaxId |-> f[n]]
    BY <1>6
  <2> QED  BY <2>1, <2>2
<1>8. Meets(sim)
  <2> HIDE DEF Meets
  <2> QED  BY <1>7
<1>9. RunLinks = sim[MaxId].tally
  BY DEF RunLinks, RunLink, z
<1>10. sim[0] = z /\ \A n \in 1..MaxId : sim[n] = RunLink(n, sim[n - 1])
  <2> HIDE DEF sim
  <2>1. \A n \in 0..MaxId : sim[n] = IF n = 0 THEN z ELSE RunLink(n, sim[n - 1])
    BY <1>8
  <2>2. 0 \in 0..MaxId /\ \A n \in 1..MaxId : n \in 0..MaxId /\ n # 0
    BY <1>1
  <2> QED  BY <2>1, <2>2
<1> QED
  <2> HIDE DEF sim
  <2> QED  BY <1>9, <1>10 DEF z

LEMMA DryContentsIs ==
    ASSUME ReindexAssumption, TypeOK
    PROVE  \E f : /\ DryContents = f[MaxId].tally
                  /\ f[0] = [used |-> {content[i] : i \in Ids}, tally |-> Nothing]
                  /\ \A n \in 1..MaxId : f[n] = DryBody(n, f[n - 1])
<1> DEFINE A == [used : SUBSET (Hashes \cup {NoHash}), tally : Tally]
           z == [used |-> {content[i] : i \in Ids}, tally |-> Nothing]
           step == [n \in 1..MaxId |-> [s \in A |-> DryBody(n, s)]]
           Meets(g) == g = [n \in 0..MaxId |-> IF n = 0 THEN z ELSE DryBody(n, g[n - 1])]
           sim == CHOOSE g : Meets(g)
<1>1. MaxId \in Nat
  BY DEF ReindexAssumption
<1>2. z \in A
  BY CountedIs DEF Tally, Nothing, TypeOK
<1>3. ASSUME NEW n \in 1..MaxId, NEW s \in A
      PROVE  DryBody(n, s) \in A
  <2>1. CASE ~Stale(n, content[n])
    BY <2>1 DEF DryBody
  <2>2. CASE Stale(n, content[n])
    <3>1. Fresh[n] \in Hashes /\ n \in Ids
      BY <2>2 DEF Stale, ReindexAssumption, Ids
    <3> DEFINE g == IF Fresh[n] \notin s.used THEN (s.used \ {content[n]}) \cup {Fresh[n]}
                                              ELSE s.used
               t == Counted(s.tally, Fresh[n] \notin s.used)
    <3>2. g \in SUBSET (Hashes \cup {NoHash})
      BY <3>1
    <3>3. t \in Tally
      BY CountedIs
    <3>4. DryBody(n, s) = [used |-> g, tally |-> t]
      BY <2>2 DEF DryBody
    <3> HIDE DEF g, t
    <3> QED  BY <3>2, <3>3, <3>4
  <2> QED  BY <2>1, <2>2
<1> HIDE DEF A, z
<1>4. step \in [1..MaxId -> [A -> A]]
  BY <1>3
<1>5. PICK f : Recurs(f, MaxId, A, z, step)
  <2> HIDE DEF step
  <2> QED  BY <1>1, <1>2, <1>4, Recursion
<1>6. /\ f \in [0..MaxId -> A] /\ f[0] = z
      /\ \A n \in 1..MaxId : f[n] = step[n][f[n - 1]]
  <2> HIDE DEF step
  <2> QED  BY <1>5 DEF Recurs
<1>7. Meets(f)
  <2>1. ASSUME NEW n \in 0..MaxId
        PROVE  f[n] = IF n = 0 THEN z ELSE DryBody(n, f[n - 1])
    <3>1. CASE n # 0
      <4>1. n \in 1..MaxId /\ n - 1 \in 0..MaxId
        BY <1>1, <3>1
      <4>2. f[n - 1] \in A
        BY <4>1, <1>6
      <4> QED  BY <1>6, <3>1, <4>1, <4>2
    <3> QED  BY <1>6, <3>1
  <2>2. f = [n \in 0..MaxId |-> f[n]]
    BY <1>6
  <2> QED  BY <2>1, <2>2
<1>8. Meets(sim)
  <2> HIDE DEF Meets
  <2> QED  BY <1>7
<1>9. DryContents = sim[MaxId].tally
  BY DEF DryContents, DryBody, z
<1>10. sim[0] = z /\ \A n \in 1..MaxId : sim[n] = DryBody(n, sim[n - 1])
  <2> HIDE DEF sim
  <2>1. \A n \in 0..MaxId : sim[n] = IF n = 0 THEN z ELSE DryBody(n, sim[n - 1])
    BY <1>8
  <2>2. 0 \in 0..MaxId /\ \A n \in 1..MaxId : n \in 0..MaxId /\ n # 0
    BY <1>1
  <2> QED  BY <2>1, <2>2
<1> QED
  <2> HIDE DEF sim
  <2> QED  BY <1>9, <1>10 DEF z

LEMMA RunContentsIs ==
    ASSUME ReindexAssumption, TypeOK
    PROVE  \E f : /\ RunContents = f[MaxId].tally
                  /\ f[0] = [table |-> content, tally |-> Nothing]
                  /\ \A n \in 1..MaxId : f[n] = RunBody(n, f[n - 1])
<1> DEFINE A == [table : [Ids -> Hashes \cup {NoHash}], tally : Tally]
           z == [table |-> content, tally |-> Nothing]
           step == [n \in 1..MaxId |-> [s \in A |-> RunBody(n, s)]]
           Meets(g) == g = [n \in 0..MaxId |-> IF n = 0 THEN z ELSE RunBody(n, g[n - 1])]
           sim == CHOOSE g : Meets(g)
<1>1. MaxId \in Nat
  BY DEF ReindexAssumption
<1>2. z \in A
  BY CountedIs DEF Tally, Nothing, TypeOK
<1>3. ASSUME NEW n \in 1..MaxId, NEW s \in A
      PROVE  RunBody(n, s) \in A
  <2>1. CASE ~Stale(n, s.table[n])
    BY <2>1 DEF RunBody
  <2>2. CASE Stale(n, s.table[n])
    <3>1. Fresh[n] \in Hashes /\ n \in Ids
      BY <2>2 DEF Stale, ReindexAssumption, Ids
    <3> DEFINE free == \A k \in Ids \ {n} : s.table[k] # Fresh[n]
               g == IF free THEN [s.table EXCEPT ![n] = Fresh[n]] ELSE s.table
               t == Counted(s.tally, free)
    <3>2. g \in [Ids -> Hashes \cup {NoHash}]
      BY <3>1
    <3>3. t \in Tally
      BY CountedIs
    <3>4. RunBody(n, s) = [table |-> g, tally |-> t]
      BY <2>2 DEF RunBody
    <3> HIDE DEF g, t
    <3> QED  BY <3>2, <3>3, <3>4
  <2> QED  BY <2>1, <2>2
<1> HIDE DEF A, z
<1>4. step \in [1..MaxId -> [A -> A]]
  BY <1>3
<1>5. PICK f : Recurs(f, MaxId, A, z, step)
  <2> HIDE DEF step
  <2> QED  BY <1>1, <1>2, <1>4, Recursion
<1>6. /\ f \in [0..MaxId -> A] /\ f[0] = z
      /\ \A n \in 1..MaxId : f[n] = step[n][f[n - 1]]
  <2> HIDE DEF step
  <2> QED  BY <1>5 DEF Recurs
<1>7. Meets(f)
  <2>1. ASSUME NEW n \in 0..MaxId
        PROVE  f[n] = IF n = 0 THEN z ELSE RunBody(n, f[n - 1])
    <3>1. CASE n # 0
      <4>1. n \in 1..MaxId /\ n - 1 \in 0..MaxId
        BY <1>1, <3>1
      <4>2. f[n - 1] \in A
        BY <4>1, <1>6
      <4> QED  BY <1>6, <3>1, <4>1, <4>2
    <3> QED  BY <1>6, <3>1
  <2>2. f = [n \in 0..MaxId |-> f[n]]
    BY <1>6
  <2> QED  BY <2>1, <2>2
<1>8. Meets(sim)
  <2> HIDE DEF Meets
  <2> QED  BY <1>7
<1>9. RunContents = sim[MaxId].tally
  BY DEF RunContents, RunBody, z
<1>10. sim[0] = z /\ \A n \in 1..MaxId : sim[n] = RunBody(n, sim[n - 1])
  <2> HIDE DEF sim
  <2>1. \A n \in 0..MaxId : sim[n] = IF n = 0 THEN z ELSE RunBody(n, sim[n - 1])
    BY <1>8
  <2>2. 0 \in 0..MaxId /\ \A n \in 1..MaxId : n \in 0..MaxId /\ n # 0
    BY <1>1
  <2> QED  BY <2>1, <2>2
<1> QED
  <2> HIDE DEF sim
  <2> QED  BY <1>9, <1>10 DEF z

\* Before step n of both simulations the groups are those of the table, and the
\* rows from n on are as they were.
LinksAgree(n, f, g) ==
    /\ f[n].tally = g[n].tally
    /\ f[n].groups \in [Hashes -> SUBSET Ids] /\ g[n].table \in [Ids -> LinkRow]
    /\ \A h \in Hashes, i \in Ids : i \in f[n].groups[h] <=> g[n].table[i].hash = h
    /\ \A k \in Ids : k > n => g[n].table[k].hash = link[k].hash

LEMMA LinksAgreeStep ==
    ASSUME ReindexAssumption, TypeOK, NEW f, NEW g, NEW n \in 1..MaxId,
           f[n] = DryLink(n, f[n - 1]), g[n] = RunLink(n, g[n - 1]), LinksAgree(n - 1, f, g)
    PROVE  LinksAgree(n, f, g)
<1> DEFINE s == f[n - 1]
           t == g[n - 1]
           old == link[n].hash
<1>1. /\ s.tally = t.tally
      /\ s.groups \in [Hashes -> SUBSET Ids] /\ t.table \in [Ids -> LinkRow]
      /\ \A h \in Hashes, i \in Ids : i \in s.groups[h] <=> t.table[i].hash = h
      /\ \A k \in Ids : k > n - 1 => t.table[k].hash = link[k].hash
  BY DEF LinksAgree
<1>2. n \in Ids /\ n \in Nat /\ Ids \in SUBSET Nat /\ (n > n - 1) /\ \A k \in Ids : k > n => k > n - 1
  BY DEF Ids, ReindexAssumption
<1>3. t.table[n].hash = old
  BY <1>1, <1>2
<1>4. CASE ~Stale(n, old)
  BY <1>1, <1>2, <1>3, <1>4 DEF LinksAgree, DryLink, RunLink
<1>5. CASE Stale(n, old)
  <2>1. Fresh[n] \in Hashes /\ old \in Hashes /\ old # Fresh[n]
    BY <1>2, <1>5 DEF Stale, ReindexAssumption, TypeOK
  <2> DEFINE joined == s.groups[Fresh[n]] \cup {n}
             groups == [s.groups EXCEPT ![old] = @ \ {n}, ![Fresh[n]] = joined]
             table == MovedIn(t.table, n, Fresh[n])
  <2>2. f[n] = [groups |-> groups, tally |-> Counted(s.tally, Lowest(joined) = n)]
    BY <1>5 DEF DryLink
  <2>3. g[n] = [table |-> table, tally |-> Counted(t.tally, ~table[n].shadow)]
    BY <1>3, <1>5 DEF RunLink
  <2>4. /\ table \in [Ids -> LinkRow]
        /\ \A k \in Ids : table[k].hash = IF k = n THEN Fresh[n] ELSE t.table[k].hash
        /\ table[n].shadow <=> \E m \in Ids : m < n /\ t.table[m].hash = Fresh[n]
    <3> DEFINE rows == g[n - 1].table
               h == Fresh[n]
    <3>1. rows \in [Ids -> LinkRow] /\ h \in Hashes
      BY <1>1, <2>1
    <3> HIDE DEF rows, h
    <3>2. /\ MovedIn(rows, n, h) \in [Ids -> LinkRow]
          /\ \A k \in Ids : MovedIn(rows, n, h)[k].hash = IF k = n THEN h ELSE rows[k].hash
          /\ MovedIn(rows, n, h)[n].shadow <=> \E m \in Ids : m < n /\ rows[m].hash = h
      BY <1>2, <3>1, MovedTyped
    <3> QED  BY <3>2 DEF rows, h
  <2>5. groups \in [Hashes -> SUBSET Ids]
    BY <1>1, <1>2, <2>1
  <2>6. \A h \in Hashes, i \in Ids : i \in groups[h] <=> table[i].hash = h
    <3> SUFFICES ASSUME NEW h \in Hashes, NEW i \in Ids
                 PROVE  i \in groups[h] <=> table[i].hash = h
      OBVIOUS
    <3>1. groups[h] = IF h = Fresh[n] THEN joined ELSE IF h = old THEN s.groups[old] \ {n}
                      ELSE s.groups[h]
      BY <1>1, <2>1
    <3>2. i \in s.groups[h] <=> t.table[i].hash = h
      BY <1>1
    <3>3. CASE i = n
      BY <1>3, <2>1, <2>4, <3>1, <3>2, <3>3
    <3>4. CASE i # n
      <4>1. table[i].hash = t.table[i].hash
        BY <2>4, <3>4
      <4> HIDE DEF groups, table
      <4> QED  BY <3>1, <3>2, <3>4, <4>1
    <3> QED  BY <3>3, <3>4
  <2>7. (Lowest(joined) = n) <=> ~table[n].shadow
    <3>1. joined \in SUBSET Nat /\ n \in joined /\ s.groups[Fresh[n]] \in SUBSET Ids
      BY <1>1, <1>2, <2>1
    <3>2. CASE \E m \in Ids : m < n /\ t.table[m].hash = Fresh[n]
      <4>1. PICK m \in Ids : m < n /\ t.table[m].hash = Fresh[n]
        BY <3>2
      <4>2. m \in joined
        BY <1>1, <2>1, <4>1
      <4>3. PICK k \in joined : \A m1 \in joined : k <= m1
        <5> HIDE DEF joined
        <5> QED  BY <3>1, LeastId
      <4>4. Lowest(joined) = k
        <5> HIDE DEF joined
        <5> QED  BY <3>1, <4>3, LowestIs
      <4>5. k # n
        <5>1. k <= m /\ k \in Nat /\ m \in Nat
          BY <4>2, <4>3, <3>1
        <5> QED  BY <5>1, <4>1, <1>2
      <4> HIDE DEF joined, table
      <4> QED  BY <2>4, <3>2, <4>4, <4>5
    <3>3. CASE ~\E m \in Ids : m < n /\ t.table[m].hash = Fresh[n]
      <4>1. ASSUME NEW k \in joined
            PROVE  n <= k
        <5>1. CASE k = n
          BY <5>1, <1>2
        <5>2. CASE k # n
          <6>1. k \in Ids /\ k \in s.groups[Fresh[n]]
            BY <5>2, <3>1
          <6>2. t.table[k].hash = Fresh[n]
            BY <6>1, <1>1, <2>1
          <6>3. ~(k < n) /\ k \in Nat
            BY <6>1, <6>2, <3>3, <1>2
          <6> QED  BY <6>3, <1>2
        <5> QED  BY <5>1, <5>2
      <4>2. Lowest(joined) = n
        <5> HIDE DEF joined
        <5> QED  BY <3>1, <4>1, LowestIs
      <4> HIDE DEF joined, table
      <4> QED  BY <2>4, <3>3, <4>2
    <3> QED  BY <3>2, <3>3
  <2>8. Counted(s.tally, Lowest(joined) = n) = Counted(t.tally, ~table[n].shadow)
    <3> HIDE DEF joined, table
    <3> QED  BY <1>1, <2>7 DEF Counted
  <2>9. \A k \in Ids : k > n => table[k].hash = link[k].hash
    <3> HIDE DEF table
    <3> QED  BY <1>1, <1>2, <2>4
  <2> HIDE DEF joined, groups, table
  <2> QED  BY <2>2, <2>3, <2>4, <2>5, <2>6, <2>8, <2>9 DEF LinksAgree
<1> QED
  BY <1>4, <1>5

LEMMA DryLinksForetell ==
    ASSUME ReindexAssumption, TypeOK
    PROVE  DryLinks = RunLinks
<1>1. PICK f : /\ DryLinks = f[MaxId].tally
               /\ f[0] = [groups |-> [h \in Hashes |-> Group(h)], tally |-> Nothing]
               /\ \A n \in 1..MaxId : f[n] = DryLink(n, f[n - 1])
  BY DryLinksIs
<1>2. PICK g : /\ RunLinks = g[MaxId].tally
               /\ g[0] = [table |-> link, tally |-> Nothing]
               /\ \A n \in 1..MaxId : g[n] = RunLink(n, g[n - 1])
  BY RunLinksIs
<1> DEFINE S == {n \in 0..MaxId : LinksAgree(n, f, g)}
<1>3. MaxId \in Nat /\ S \in SUBSET Nat
  BY DEF ReindexAssumption
<1>4. LinksAgree(0, f, g)
  <2>1. link \in [Ids -> LinkRow]
    BY DEF TypeOK, LinkRow
  <2> QED  BY <1>1, <1>2, <2>1 DEF LinksAgree, Group
<1>5. ASSUME NEW n \in 1..MaxId, n - 1 \in S
      PROVE  n \in S
  BY <1>1, <1>2, <1>5, LinksAgreeStep
<1>6. 0 \in S
  BY <1>3, <1>4
<1>7. MaxId \in S
  <2> HIDE DEF S
  <2> QED  BY <1>3, <1>5, <1>6, Induction
<1> QED
  BY <1>1, <1>2, <1>7 DEF LinksAgree

\* No two articles share a hash.
Unique(table) == \A i, k \in Ids : table[i] = table[k] /\ i # k => table[i] = NoHash

ContentUnique == Unique(content)

\* Before step n the hashes in use are those of the table, which has each once,
\* and the rows from n on are as they were.
ContentsAgree(n, f, g) ==
    /\ f[n].tally = g[n].tally
    /\ g[n].table \in [Ids -> Hashes \cup {NoHash}] /\ Unique(g[n].table)
    /\ f[n].used = {g[n].table[i] : i \in Ids}
    /\ \A k \in Ids : k > n => g[n].table[k] = content[k]

LEMMA ContentsAgreeStep ==
    ASSUME ReindexAssumption, TypeOK, NEW f, NEW g, NEW n \in 1..MaxId,
           f[n] = DryBody(n, f[n - 1]), g[n] = RunBody(n, g[n - 1]), ContentsAgree(n - 1, f, g)
    PROVE  ContentsAgree(n, f, g)
<1> DEFINE s == f[n - 1]
           t == g[n - 1]
           old == content[n]
           rows == g[n - 1].table
<1>1. /\ s.tally = t.tally
      /\ rows \in [Ids -> Hashes \cup {NoHash}] /\ Unique(rows)
      /\ s.used = {rows[i] : i \in Ids}
      /\ \A k \in Ids : k > n - 1 => rows[k] = content[k]
  BY DEF ContentsAgree
<1>2. n \in Ids /\ (n > n - 1) /\ \A k \in Ids : k > n => k > n - 1 /\ k # n
  BY DEF Ids, ReindexAssumption
<1>3. rows[n] = old
  BY <1>1, <1>2
<1>4. CASE ~Stale(n, old)
  BY <1>1, <1>2, <1>3, <1>4 DEF ContentsAgree, DryBody, RunBody
<1>5. CASE Stale(n, old)
  <2>1. Fresh[n] \in Hashes /\ Fresh[n] # NoHash /\ old # NoHash /\ old # Fresh[n]
    BY <1>2, <1>5 DEF Stale, ReindexAssumption, TypeOK
  <2> DEFINE free == \A k \in Ids \ {n} : rows[k] # Fresh[n]
  <2>2. (Fresh[n] \notin s.used) <=> free
    BY <1>1, <1>2, <1>3, <2>1
  <2>3. CASE ~free
    <3>1. f[n] = [used |-> s.used, tally |-> Counted(s.tally, FALSE)]
      BY <1>5, <2>2, <2>3 DEF DryBody, Counted
    <3>2. g[n] = [table |-> rows, tally |-> Counted(t.tally, FALSE)]
      BY <1>3, <1>5, <2>3 DEF RunBody, Counted
    <3>3. \A k \in Ids : k > n => rows[k] = content[k]
      BY <1>1, <1>2
    <3> HIDE DEF rows
    <3> QED  BY <1>1, <3>1, <3>2, <3>3 DEF ContentsAgree
  <2>4. CASE free
    <3> DEFINE used == (s.used \ {old}) \cup {Fresh[n]}
               table == [rows EXCEPT ![n] = Fresh[n]]
    <3>1. f[n] = [used |-> used, tally |-> Counted(s.tally, TRUE)]
      BY <1>5, <2>2, <2>4 DEF DryBody, Counted
    <3>2. g[n] = [table |-> table, tally |-> Counted(t.tally, TRUE)]
      BY <1>3, <1>5, <2>4 DEF RunBody, Counted
    <3>3. /\ table \in [Ids -> Hashes \cup {NoHash}]
          /\ \A k \in Ids : table[k] = IF k = n THEN Fresh[n] ELSE rows[k]
      BY <1>1, <2>1
    <3> HIDE DEF table
    <3>4. Unique(table)
      BY <1>1, <2>4, <3>3 DEF Unique
    <3>5. \A k \in Ids \ {n} : rows[k] # old
      BY <1>1, <1>2, <1>3, <2>1 DEF Unique
    <3>6. used = {table[i] : i \in Ids}
      <4>1. ASSUME NEW h \in used
            PROVE  h \in {table[i] : i \in Ids}
        <5>1. CASE h = Fresh[n]
          BY <5>1, <1>2, <3>3
        <5>2. CASE h # Fresh[n]
          <6>1. PICK i \in Ids : h = rows[i]
            BY <5>2, <1>1
          <6>2. i # n
            BY <6>1, <5>2, <1>3
          <6> QED  BY <6>1, <6>2, <3>3
        <5> QED  BY <5>1, <5>2
      <4>2. ASSUME NEW i \in Ids
            PROVE  table[i] \in used
        BY <1>1, <3>3, <3>5
      <4> QED  BY <4>1, <4>2
    <3>7. \A k \in Ids : k > n => table[k] = content[k]
      BY <1>1, <1>2, <3>3
    <3> HIDE DEF used
    <3> QED  BY <1>1, <3>1, <3>2, <3>3, <3>4, <3>6, <3>7 DEF ContentsAgree
  <2> QED  BY <2>3, <2>4
<1> QED
  BY <1>4, <1>5

LEMMA DryContentsForetell ==
    ASSUME ReindexAssumption, TypeOK, ContentUnique
    PROVE  DryContents = RunContents
<1>1. PICK f : /\ DryContents = f[MaxId].tally
               /\ f[0] = [used |-> {content[i] : i \in Ids}, tally |-> Nothing]
               /\ \A n \in 1..MaxId : f[n] = DryBody(n, f[n - 1])
  BY DryContentsIs
<1>2. PICK g : /\ RunContents = g[MaxId].tally
               /\ g[0] = [table |-> content, tally |-> Nothing]
               /\ \A n \in 1..MaxId : g[n] = RunBody(n, g[n - 1])
  BY RunContentsIs
<1> DEFINE S == {n \in 0..MaxId : ContentsAgree(n, f, g)}
<1>3. MaxId \in Nat /\ S \in SUBSET Nat
  BY DEF ReindexAssumption
<1>4. ContentsAgree(0, f, g)
  BY <1>1, <1>2 DEF ContentsAgree, ContentUnique, TypeOK
<1>5. ASSUME NEW n \in 1..MaxId, n - 1 \in S
      PROVE  n \in S
  BY <1>1, <1>2, <1>5, ContentsAgreeStep
<1>6. 0 \in S
  BY <1>3, <1>4
<1>7. MaxId \in S
  <2> HIDE DEF S
  <2> QED  BY <1>3, <1>5, <1>6, Induction
<1> QED
  BY <1>1, <1>2, <1>7 DEF ContentsAgree

\* An article is inserted, or gets a new hash, only where no other has the hash.
LEMMA ContentUniqueHolds ==
    ASSUME ReindexAssumption
    PROVE  Spec => []ContentUnique
<1>1. Init => ContentUnique
  <2> SUFFICES ASSUME Init
               PROVE  ContentUnique
    OBVIOUS
  <2> DEFINE U == {h \in [Ids -> Hashes \cup {NoHash}] :
                      /\ Prefix(h) /\ ("content_hash" \notin Targets => \A i \in Ids : h[i] = NoHash)
                      /\ \A i, k \in Ids : h[i] = h[k] /\ i # k => h[i] = NoHash}
  <2>1. content \in U
    BY DEF Init
  <2> QED  BY <2>1 DEF ContentUnique, Unique
<1>2. ASSUME TypeOK, ContentUnique, NEW i, content' = [content EXCEPT ![i] = Fresh[i]],
             \A k \in Ids \ {i} : content[k] # Fresh[i]
      PROVE  ContentUnique'
  <2>1. \A k \in Ids : content'[k] = IF k = i THEN Fresh[i] ELSE content[k]
    BY <1>2 DEF TypeOK
  <2> QED  BY <1>2, <2>1 DEF ContentUnique, Unique
<1>3. ASSUME Inv, ContentUnique, [Next]_vars
      PROVE  ContentUnique'
  <2>1. TypeOK
    BY <1>3 DEF Inv
  <2>2. CASE UNCHANGED content
    BY <1>3, <2>2 DEF ContentUnique, Unique
  <2>3. ASSUME NEW i \in Ids, InsertArticle(i)
        PROVE  ContentUnique'
    BY <1>2, <1>3, <2>1, <2>3 DEF InsertArticle
  <2>4. ASSUME NEW r \in Runs, NEW x, UpdateContentHash(r, x)
        PROVE  ContentUnique'
    <3>1. CASE Collides(x[1])
      BY <2>2, <2>4, <3>1 DEF UpdateContentHash
    <3>2. CASE ~Collides(x[1])
      <4> DEFINE i == x[1]
      <4>1. content' = [content EXCEPT ![i] = Fresh[i]] /\ \A k \in Ids \ {i} : content[k] # Fresh[i]
        BY <2>4, <3>2 DEF UpdateContentHash, Collides
      <4> HIDE DEF i
      <4> QED  BY <1>2, <1>3, <2>1, <4>1
    <3> QED  BY <3>1, <3>2
  <2>5. \/ UNCHANGED content \/ \E i \in Ids : InsertArticle(i)
        \/ \E r \in Runs : \E x \in page[r] : UpdateContentHash(r, x)
    <3>1. CASE \/ Neighbours \/ UNCHANGED vars \/ \E r \in Runs : StartRun(r) \/ Crash(r)
               \/ \E j \in Jobs : Abort(j) \/ LeaseExpires(j)
      BY <3>1 DEF Neighbours, InsertEntry, RegisterSource, FormerSource, vars, StartRun, Crash,
                  Abort, LeaseExpires, tables
    <3>2. ASSUME NEW r \in Runs, NEW x,
                 \/ SkipLink(r, x) \/ UpdateLinkHash(r, x) \/ SkipContent(r, x)
                 \/ PeekContent(r, x) \/ WriteSource(r, x)
          PROVE  UNCHANGED content
      BY <3>2 DEF SkipLink, UpdateLinkHash, SkipContent, PeekContent, WriteSource, tables
    <3>3. ASSUME NEW r \in Runs, NEW t, NEW j, StartReindex(r, t, j)
          PROVE  UNCHANGED content
      BY <3>3 DEF StartReindex
    <3>4. ASSUME NEW r \in Runs,
                 \/ ReclaimLeases(r) \/ MaintenanceFails(r) \/ StartFails(r) \/ ClaimById(r)
                 \/ ClaimFails(r) \/ List(r) \/ Checkpoint(r) \/ SourcesDone(r) \/ WorkFails(r)
                 \/ FinishReindex(r) \/ BeginFinish(r) \/ CommitFinish(r) \/ FinishFails(r)
                 \/ MarkFailed(r) \/ MarkFailedLost(r)
          PROVE  UNCHANGED content
      BY <3>4 DEF ReclaimLeases, MaintenanceFails, StartFails, ClaimById, ClaimFails, List,
                  Checkpoint, SourcesDone, WorkFails, FinishReindex, BeginFinish, CommitFinish,
                  FinishFails, MarkFailed, MarkFailedLost, tables
    <3> QED  BY <1>3, <3>1, <3>2, <3>3, <3>4 DEF Next, RunStep
  <2> QED  BY <2>2, <2>3, <2>4, <2>5
<1> QED
  BY <1>1, <1>3, InvHolds, PTL DEF Spec

\* The dry run counts what a run would count that nothing disturbs, however many
\* rows there are: the groups of ids it moves about in memory stay the groups of
\* the table, and the hashes it keeps as occupied those of the articles, since
\* no two articles share one.
THEOREM ReindexDryRunForetells ==
    ASSUME ReindexAssumption
    PROVE  Spec => []DryRunForetells
<1>1. Inv /\ ContentUnique => DryRunForetells
  BY DryLinksForetell, DryContentsForetell DEF DryRunForetells, Inv
<1> QED
  BY <1>1, InvHolds, ContentUniqueHolds, PTL

-----------------------------------------------------------------------------
(***************************************************************************)
(* The promise of ActiveVersion itself, for every kind of version.         *)
(***************************************************************************)
CONSTANTS Values, NoneYet, MayReturn
VARIABLES active, retired

Any == INSTANCE ActiveVersion WITH Versions <- Values, NoVersion <- NoneYet

\* Where there is an active version, readers get it, and it is not one that has
\* been superseded.
THEOREM ActiveVersionIsCurrent ==
    ASSUME NoneYet \notin Values
    PROVE  Any!Spec => []Any!ActiveIsCurrent
<1>1. Any!Init => Any!ActiveIsCurrent
  BY DEF Any!Init, Any!ActiveIsCurrent
<1>2. Any!ActiveIsCurrent /\ [Any!Next]_Any!vars => Any!ActiveIsCurrent'
  BY DEF Any!ActiveIsCurrent, Any!Next, Any!Switch, Any!vars
<1> QED
  BY <1>1, <1>2, PTL DEF Any!Spec

\* Where the kind allows no return, a superseded version is so for good.
THEOREM ActiveVersionRetires ==
    ASSUME NoneYet \notin Values
    PROVE  Any!Spec => Any!RetiredForGood
<1> DEFINE A == ~MayReturn => retired \subseteq retired'
<1>1. Any!ActiveIsCurrent /\ [Any!Next]_Any!vars => [A]_Any!vars
  BY DEF Any!ActiveIsCurrent, Any!Next, Any!Switch, Any!vars
<1>2. Any!Spec => [][A]_Any!vars
  BY <1>1, ActiveVersionIsCurrent, PTL DEF Any!Spec
<1> QED
  BY <1>2 DEF Any!RetiredForGood
=============================================================================
