--------------------------- MODULE DecisionProofs ---------------------------
(***************************************************************************)
(* Proofs about decision-run, for any number of runs, configurations,      *)
(* categories and articles, and for every budget.                          *)
(***************************************************************************)
EXTENDS Decision, FiniteSetTheorems, TLAPS

Places == {"off", "purge", "reclaim", "sweep", "claim", "generate", "claim again",
           "window", "end"}

\* Rows, and how their columns go together.
Coherent(r) ==
    /\ r.owner # NoProc <=> r.state = "running"
    /\ r.state = "running" => r.tries > 0
    /\ r.state = "none" => r.tries = 0

Recs == {r \in [state : {"none", "pending", "running", "succeeded", "failed"},
                owner : Procs \cup {NoProc}, live : BOOLEAN, tries : 0..MaxAttempts] : Coherent(r)}

RowsTyped == row \in [Keys -> Recs]

PlanSet == [cfg : Configs, cats : Plans, allowed : Nat]
TurnSet == [place : Nat, first : BOOLEAN, moved : BOOLEAN]
Tasks   == [Articles -> {"none", "claimed", "sent"}]

RunsTyped ==
    /\ pc \in [Procs -> Places] /\ plan \in [Procs -> PlanSet] /\ turn \in [Procs -> TurnSet]
    /\ skipped \in [Procs -> SUBSET Range(Categories)]
    /\ calls \in [Procs -> Nat] /\ stop \in [Procs -> Stops] /\ task \in [Procs -> Tasks]
    /\ \A p \in Procs : /\ turn[p].place \in 1..Len(plan[p].cats)
                        /\ pc[p] # "window" => task[p] = Idle

OthersTyped ==
    /\ listed \subseteq Articles /\ raw \subseteq Keys
    /\ \A w \in late : w.owner \in Procs /\ w.key \in Keys /\ w.mode \in Modes

Typed == RowsTyped /\ RunsTyped /\ OthersTyped

-----------------------------------------------------------------------------
\* What rows are made of.
LEMMA RecordFields ==
    \A state, owner, live, tries :
        /\ Record(state, owner, live, tries).state = state
        /\ Record(state, owner, live, tries).owner = owner
        /\ Record(state, owner, live, tries).live = live
        /\ Record(state, owner, live, tries).tries = tries
BY DEF Record

LEMMA RowTyped ==
    /\ NoRow \in Recs
    /\ \A t \in 0..MaxAttempts :
          Pending(t) \in Recs /\ Settled("failed", t) \in Recs /\ Settled("succeeded", t) \in Recs
    /\ \A p \in Procs, t \in 1..MaxAttempts :
          Claimed(p, t) \in Recs /\ Record("running", p, FALSE, t) \in Recs
BY DecisionAssumption DEF Recs, Coherent, NoRow, Pending, Settled, Claimed, Record

\* The row after a release by its owner.
LEMMA ReleaseTyped ==
    ASSUME NEW r \in Recs, NEW p \in Procs, r.owner = p, NEW mode \in Modes
    PROVE  /\ Released(r, mode) \in Recs /\ Released(r, mode).owner = NoProc
           /\ r.state = "running" /\ r.tries \in 1..MaxAttempts
           /\ \/ Released(r, mode).state \in {"succeeded", "failed"} /\ Released(r, mode).tries = r.tries
              \/ /\ Released(r, mode).state = "pending" /\ Released(r, mode).tries = r.tries
                 /\ r.tries < MaxAttempts
              \/ Released(r, mode).state = "pending" /\ Released(r, mode).tries = r.tries - 1
<1>1. r.state = "running" /\ r.tries \in 1..MaxAttempts
  BY DecisionAssumption DEF Recs, Coherent
<1>2. r.tries \in 0..MaxAttempts /\ r.tries - 1 \in 0..MaxAttempts
  BY <1>1, DecisionAssumption
<1>3. \/ Released(r, mode) = Settled("succeeded", r.tries) \/ Released(r, mode) = Settled("failed", r.tries)
      \/ Released(r, mode) = Pending(r.tries - 1)
      \/ Released(r, mode) = Pending(r.tries) /\ r.tries < MaxAttempts
  BY <1>1, DecisionAssumption DEF Released, Modes
<1>4. /\ \A t : Pending(t).state = "pending" /\ Pending(t).owner = NoProc /\ Pending(t).tries = t
      /\ \A s, t : Settled(s, t).state = s /\ Settled(s, t).owner = NoProc /\ Settled(s, t).tries = t
  BY DEF Record, Pending, Settled
<1>5. CASE Released(r, mode) \in {Settled("succeeded", r.tries), Settled("failed", r.tries)}
  BY <1>1, <1>2, <1>4, <1>5, RowTyped
<1>6. CASE Released(r, mode) = Pending(r.tries - 1)
  BY <1>1, <1>2, <1>4, <1>6, RowTyped
<1>7. CASE Released(r, mode) = Pending(r.tries) /\ r.tries < MaxAttempts
  BY <1>1, <1>2, <1>4, <1>7, RowTyped
<1> QED
  BY <1>3, <1>5, <1>6, <1>7

\* The categories of a run.
LEMMA PlansTyped ==
    \A s \in Plans : /\ s \in Seq(Range(Categories)) /\ Len(s) \in Nat \ {0}
                     /\ \A i \in 1..Len(s) : s[i] \in Range(Categories)
<1>1. /\ Categories \in Seq(Range(Categories)) /\ Len(Categories) \in Nat \ {0}
      /\ \A i \in 1..Len(Categories) : Categories[i] \in Range(Categories)
  <2> DEFINE R == Range(Categories)
  <2>1. Categories \in Seq(R) /\ Categories # <<>>
    BY DecisionAssumption
  <2> HIDE DEF R
  <2>2. Len(Categories) \in Nat \ {0} /\ \A i \in 1..Len(Categories) : Categories[i] \in R
    BY <2>1
  <2> QED
    BY <2>1, <2>2 DEF R
<1>2. ASSUME NEW k \in Range(Categories)
      PROVE  <<k>> \in Seq(Range(Categories)) /\ Len(<<k>>) = 1 /\ <<k>>[1] = k
  OBVIOUS
<1>3. ASSUME NEW s \in Plans
      PROVE  /\ s \in Seq(Range(Categories)) /\ Len(s) \in Nat \ {0}
             /\ \A i \in 1..Len(s) : s[i] \in Range(Categories)
  <2>1. CASE s = Categories
    BY <1>1, <2>1
  <2>2. ASSUME NEW k \in Range(Categories), s = <<k>>
        PROVE  /\ s \in Seq(Range(Categories)) /\ Len(s) \in Nat \ {0}
               /\ \A i \in 1..Len(s) : s[i] \in Range(Categories)
    BY <1>2, <2>2
  <2> QED
    BY <2>1, <2>2 DEF Plans
<1> QED
  BY <1>3

LEMMA PlanTyped ==
    /\ \A c \in Configs, s \in Plans, n \in Nat :
          /\ Plan(c, s, n) \in PlanSet
          /\ Plan(c, s, n).cfg = c /\ Plan(c, s, n).cats = s /\ Plan(c, s, n).allowed = n
    /\ NoPlan \in PlanSet /\ NoPlan.allowed = 0
<1>1. Categories \in Plans /\ (CHOOSE c \in Configs : TRUE) \in Configs
  BY DecisionAssumption DEF Plans
<1> QED
  BY <1>1 DEF Plan, NoPlan, PlanSet

LEMMA TurnTyped ==
    \A n \in Nat, f \in BOOLEAN, m \in BOOLEAN :
        /\ Turn(n, f, m) \in TurnSet
        /\ Turn(n, f, m).place = n /\ Turn(n, f, m).first = f /\ Turn(n, f, m).moved = m
BY DEF Turn, TurnSet

LEMMA IdleTyped == Idle \in Tasks /\ \A a \in Articles : Idle[a] = "none"
BY DEF Idle, Tasks

LEMMA KeyTyped ==
    ASSUME RunsTyped, NEW p \in Procs
    PROVE  /\ Here(p) \in Range(Categories) /\ plan[p].cfg \in Configs
           /\ plan[p].cats \in Plans /\ Len(plan[p].cats) \in Nat \ {0}
           /\ \A a \in Articles : Key(p, a) \in Keys
<1>1. plan[p] \in PlanSet /\ turn[p].place \in 1..Len(plan[p].cats)
  BY DEF RunsTyped
<1>2. plan[p].cfg \in Configs /\ plan[p].cats \in Plans
  BY <1>1 DEF PlanSet
<1> QED
  BY <1>1, <1>2, PlansTyped DEF Here, Key, Keys

-----------------------------------------------------------------------------
(* What a step does to the rows.                                           *)

ClaimsRows(p, S) ==
    /\ \A k \in S : row[k].state = "pending" /\ row[k].tries < MaxAttempts
    /\ row' = [k \in Keys |-> IF k \in S THEN Claimed(p, row[k].tries + 1) ELSE row[k]]

GeneratesRows(S) ==
    /\ \A k \in S : row[k].state = "none"
    /\ row' = [k \in Keys |-> IF k \in S THEN Pending(0) ELSE row[k]]

ReclaimsRows(S) ==
    /\ \A k \in S : row[k].state = "running"
    /\ row' = [k \in Keys |-> IF k \in S THEN Pending(row[k].tries) ELSE row[k]]

SweepsRows(S) ==
    /\ \A k \in S : row[k].state = "pending" /\ row[k].tries >= MaxAttempts
    /\ row' = [k \in Keys |-> IF k \in S THEN Settled("failed", row[k].tries) ELSE row[k]]

ReleasesRow(p, k, mode) ==
    row[k].owner = p /\ row' = [row EXCEPT ![k] = Released(row[k], mode)]

ExpiresRow(k) ==
    /\ row[k].state = "running"
    /\ row' = [row EXCEPT ![k] = Record("running", row[k].owner, FALSE, row[k].tries)]

RowsMove ==
    \/ row' = row
    \/ \E p \in Procs, S \in SUBSET Keys : ClaimsRows(p, S)
    \/ \E S \in SUBSET Keys : GeneratesRows(S) \/ ReclaimsRows(S) \/ SweepsRows(S)
    \/ \E p \in Procs, k \in Keys, mode \in Modes : ReleasesRow(p, k, mode)
    \/ \E k \in Keys : ExpiresRow(k)

LEMMA ClaimWindowRows ==
    ASSUME RunsTyped, NEW p \in Procs, NEW L, ClaimWindow(p, L)
    PROVE  ClaimsRows(p, {Key(p, a) : a \in FirstOf(Window(p), Claimable(p) \ L)})
<1> DEFINE W == FirstOf(Window(p), Claimable(p) \ L)
<1>1. \A a \in W : row[Key(p, a)].state = "pending" /\ row[Key(p, a)].tries < MaxAttempts
  <2>1. \A a \in W : a \in Claimable(p)
    BY DEF FirstOf
  <2>2. \A k \in InPlace(p) : k = Key(p, k[2])
    BY DEF InPlace, Key, Keys
  <2> QED
    BY <2>1, <2>2 DEF Claimable
<1>2. row' = [k \in Keys |-> IF k \in {Key(p, a) : a \in W}
                             THEN Claimed(p, row[k].tries + 1) ELSE row[k]]
  BY DEF ClaimWindow
<1> QED
  BY <1>1, <1>2 DEF ClaimsRows

LEMMA GeneratePendingRows ==
    ASSUME RunsTyped, NEW p \in Procs, GeneratePending(p)
    PROVE  GeneratesRows({Key(p, a) : a \in FirstOf(Window(p), Candidates(p))})
<1> DEFINE G == FirstOf(Window(p), Candidates(p))
<1>1. \A a \in G : row[Key(p, a)].state = "none"
  <2>1. \A a \in G : a \in Candidates(p)
    BY DEF FirstOf
  <2>2. \A k \in InPlace(p) : k = Key(p, k[2])
    BY DEF InPlace, Key, Keys
  <2> QED
    BY <2>1, <2>2 DEF Candidates
<1>2. row' = [k \in Keys |-> IF k \in {Key(p, a) : a \in G} THEN Pending(0) ELSE row[k]]
  BY DEF GeneratePending
<1> QED
  BY <1>1, <1>2 DEF GeneratesRows

\* The articles of a window are articles, and its keys are keys.
LEMMA WindowTyped ==
    ASSUME RunsTyped, NEW p \in Procs, NEW n, NEW L
    PROVE  /\ FirstOf(n, Claimable(p) \ L) \subseteq Articles
           /\ FirstOf(n, Candidates(p)) \subseteq Articles
           /\ {Key(p, a) : a \in FirstOf(n, Claimable(p) \ L)} \subseteq Keys
           /\ {Key(p, a) : a \in FirstOf(n, Candidates(p))} \subseteq Keys
<1>1. Claimable(p) \subseteq Articles /\ Candidates(p) \subseteq Articles
  BY DEF Claimable, Candidates, InPlace, Keys
<1>2. \A S : FirstOf(n, S) \subseteq S
  BY DEF FirstOf
<1>3. FirstOf(n, Claimable(p) \ L) \subseteq Articles /\ FirstOf(n, Candidates(p)) \subseteq Articles
  BY <1>1, <1>2
<1> QED
  BY <1>3, KeyTyped

LEMMA ReleaseRows ==
    ASSUME RunsTyped, NEW p \in Procs, NEW a \in Articles, NEW mode \in Modes,
           NEW why, NEW pause, Release(p, a, mode, why, pause)
    PROVE  row' = row \/ \E k \in Keys : ReleasesRow(p, k, mode)
BY KeyTyped DEF Release, ReleaseSeen, ReleaseUnseen, Apply, Owned, ReleasesRow

LEMMA TaskRows ==
    ASSUME RunsTyped, NEW p \in Procs, NEW a \in Articles, TaskStep(p, a)
    PROVE  row' = row \/ \E k \in Keys, mode \in Modes : ReleasesRow(p, k, mode)
<1>1. {"success", "charge", "permanent", "refund"} = Modes
  BY DEF Modes
<1>2. ASSUME NEW mode \in Modes, NEW why, NEW pause, Release(p, a, mode, why, pause)
      PROVE  row' = row \/ \E k \in Keys, m \in Modes : ReleasesRow(p, k, m)
  BY <1>2, ReleaseRows
<1>3. CASE ReadUnknown(p, a) \/ Call(p, a) \/ TaskDies(p, a)
  BY <1>3 DEF ReadUnknown, Call, TaskDies, rows
<1> QED
  BY <1>1, <1>2, <1>3 DEF TaskStep, ReadFails, LeaseInsufficient, Succeeds, ItemRetryable,
                          ItemPermanent, GlobalSuspect, GlobalUnrelated

LEMMA EveryStep ==
    ASSUME Typed, [Next]_vars
    PROVE  RowsMove
<1>1. ASSUME NEW p \in Procs, NEW a \in Articles, TaskStep(p, a) PROVE RowsMove
  BY <1>1, TaskRows DEF RowsMove, Typed
<1>2. ASSUME NEW p \in Procs, NEW L \in SUBSET Articles, ClaimWindow(p, L) PROVE RowsMove
  BY <1>2, ClaimWindowRows, WindowTyped DEF RowsMove, Typed
<1>3. ASSUME NEW p \in Procs, GeneratePending(p) PROVE RowsMove
  BY <1>3, GeneratePendingRows, WindowTyped DEF RowsMove, Typed
<1>4. ASSUME NEW p \in Procs, Reclaim(p) PROVE RowsMove
  <2>1. Reclaimable(p) \in SUBSET Keys /\ ReclaimsRows(Reclaimable(p))
    BY <1>4 DEF Reclaim, Reclaimable, InPlace, PutBack, ReclaimsRows
  <2> QED
    BY <2>1 DEF RowsMove
<1>5. ASSUME NEW p \in Procs, TerminalizeExhausted(p) PROVE RowsMove
  <2>1. Exhausted(p) \in SUBSET Keys /\ SweepsRows(Exhausted(p))
    BY <1>5 DEF TerminalizeExhausted, Exhausted, InPlace, SweepsRows
  <2> QED
    BY <2>1 DEF RowsMove
<1>6. ASSUME NEW k \in Keys, Expire(k) PROVE RowsMove
  BY <1>6 DEF RowsMove, Expire, ExpiresRow
<1>7. ASSUME NEW w \in late, LateRelease(w) PROVE RowsMove
  BY <1>7 DEF LateRelease, Apply, Owned, ReleasesRow, RowsMove, Typed, OthersTyped
<1>8. CASE row' = row
  BY <1>8 DEF RowsMove
<1> QED
  BY <1>1, <1>2, <1>3, <1>4, <1>5, <1>6, <1>7, <1>8
  DEF Next, RunStep, Start, PurgeRaw, StorageFails, Skip, BudgetExhausted, WindowOver, Finish,
      Crash, NewArticle, LateLost, vars, rows

\* The rows keep their form.
LEMMA RowsStay ==
    ASSUME RowsTyped, RowsMove
    PROVE  RowsTyped'
<1>0. ASSUME NEW k \in Keys
      PROVE  /\ row[k] \in Recs /\ row[k].tries \in 0..MaxAttempts
             /\ row[k].tries < MaxAttempts => row[k].tries + 1 \in 1..MaxAttempts
             /\ row[k].state = "running" => row[k].owner \in Procs /\ row[k].tries \in 1..MaxAttempts
  BY DecisionAssumption DEF RowsTyped, Recs, Coherent
<1>1. CASE row' = row
  BY <1>1 DEF RowsTyped
<1>2. ASSUME NEW p \in Procs, NEW S \in SUBSET Keys, ClaimsRows(p, S) PROVE RowsTyped'
  BY <1>0, <1>2, RowTyped DEF ClaimsRows, RowsTyped
<1>3. ASSUME NEW S \in SUBSET Keys, GeneratesRows(S) PROVE RowsTyped'
  BY <1>0, <1>3, RowTyped, DecisionAssumption DEF GeneratesRows, RowsTyped
<1>4. ASSUME NEW S \in SUBSET Keys, ReclaimsRows(S) PROVE RowsTyped'
  BY <1>0, <1>4, RowTyped DEF ReclaimsRows, RowsTyped
<1>5. ASSUME NEW S \in SUBSET Keys, SweepsRows(S) PROVE RowsTyped'
  BY <1>0, <1>5, RowTyped DEF SweepsRows, RowsTyped
<1>6. ASSUME NEW p \in Procs, NEW k \in Keys, NEW mode \in Modes, ReleasesRow(p, k, mode)
      PROVE  RowsTyped'
  <2>1. Released(row[k], mode) \in Recs
    BY <1>0, <1>6, ReleaseTyped DEF ReleasesRow
  <2> QED
    BY <1>6, <2>1 DEF ReleasesRow, RowsTyped
<1>7. ASSUME NEW k \in Keys, ExpiresRow(k) PROVE RowsTyped'
  <2>1. Record("running", row[k].owner, FALSE, row[k].tries) \in Recs
    BY <1>0, <1>7, RowTyped DEF ExpiresRow
  <2> QED
    BY <1>7, <2>1 DEF ExpiresRow, RowsTyped
<1> QED
  BY <1>1, <1>2, <1>3, <1>4, <1>5, <1>6, <1>7 DEF RowsMove

-----------------------------------------------------------------------------
(* The refinement of the leased queue.                                     *)

QPhase  == [k \in Keys |-> Phase(row[k])]
QHolder == [k \in Keys |-> row[k].owner]
QTries  == [k \in Keys |-> row[k].tries]

LEMMA PhaseOf ==
    /\ \A t : /\ Phase(Pending(t)) = "queued" /\ Pending(t).owner = NoProc /\ Pending(t).tries = t
              /\ Phase(Settled("failed", t)) = "done" /\ Settled("failed", t).owner = NoProc
              /\ Settled("failed", t).tries = t
    /\ \A p, t : /\ Phase(Claimed(p, t)) = "working" /\ Claimed(p, t).owner = p
                 /\ Claimed(p, t).tries = t
    /\ \A p, t : LET r == Record("running", p, FALSE, t) IN
                 Phase(r) = "working" /\ r.owner = p /\ r.tries = t
    /\ Phase(NoRow) = "absent" /\ NoRow.owner = NoProc /\ NoRow.tries = 0
BY DEF Phase, Pending, Settled, Claimed, NoRow, Record

LEMMA QPoint ==
    ASSUME NEW k \in Keys
    PROVE  /\ QPhase[k] = Phase(row[k]) /\ QHolder[k] = row[k].owner /\ QTries[k] = row[k].tries
           /\ QPhase'[k] = Phase(row'[k]) /\ QHolder'[k] = row'[k].owner
           /\ QTries'[k] = row'[k].tries
BY DEF QPhase, QHolder, QTries

LEMMA QFunctions ==
    /\ QPhase  = [k \in Keys |-> QPhase[k]]  /\ QPhase'  = [k \in Keys |-> QPhase'[k]]
    /\ QHolder = [k \in Keys |-> QHolder[k]] /\ QHolder' = [k \in Keys |-> QHolder'[k]]
    /\ QTries  = [k \in Keys |-> QTries[k]]  /\ QTries'  = [k \in Keys |-> QTries'[k]]
BY DEF QPhase, QHolder, QTries

\* A function that differs from another on a set.
LEMMA ChangedOn ==
    ASSUME NEW K, NEW f, NEW g, NEW h, NEW S,
           f = [j \in K |-> f[j]], g = [j \in K |-> g[j]],
           \A j \in K : g[j] = IF j \in S THEN h[j] ELSE f[j]
    PROVE  g = [j \in K |-> IF j \in S THEN h[j] ELSE f[j]]
OBVIOUS

LEMMA ExceptAt ==
    ASSUME NEW K, NEW f, NEW g, NEW k \in K, NEW x,
           f = [j \in K |-> f[j]], g = [j \in K |-> g[j]],
           \A j \in K : g[j] = IF j = k THEN x ELSE f[j]
    PROVE  g = [f EXCEPT ![k] = x]
OBVIOUS

LEMMA SameFunction ==
    ASSUME NEW K, NEW f, NEW g,
           f = [j \in K |-> f[j]], g = [j \in K |-> g[j]], \A j \in K : g[j] = f[j]
    PROVE  g = f
OBVIOUS

LEMMA QueueStutters ==
    ASSUME \A k \in Keys : /\ Phase(row'[k]) = Phase(row[k]) /\ row'[k].owner = row[k].owner
                           /\ row'[k].tries = row[k].tries
    PROVE  UNCHANGED Queue!vars
<1>1. QPhase' = QPhase /\ QHolder' = QHolder /\ QTries' = QTries
  BY QPoint, QFunctions, SameFunction
<1> QED
  BY <1>1 DEF Queue!vars, QPhase, QHolder, QTries

LEMMA ClaimTakes ==
    ASSUME NEW p \in Procs, NEW S \in SUBSET Keys, ClaimsRows(p, S)
    PROVE  Queue!Take(p, S)
<1>1. \A k \in S : QPhase[k] = "queued" /\ QTries[k] < MaxAttempts
  BY QPoint DEF ClaimsRows, Phase
<1>2. \A k \in Keys : row'[k] = IF k \in S THEN Claimed(p, row[k].tries + 1) ELSE row[k]
  BY DEF ClaimsRows
<1>3. /\ \A k \in Keys : QPhase'[k] = IF k \in S THEN "working" ELSE QPhase[k]
      /\ \A k \in Keys : QHolder'[k] = IF k \in S THEN p ELSE QHolder[k]
      /\ \A k \in Keys : QTries'[k] = IF k \in S THEN QTries[k] + 1 ELSE QTries[k]
  BY <1>2, QPoint, PhaseOf
<1>4. /\ QPhase' = [k \in Keys |-> IF k \in S THEN "working" ELSE QPhase[k]]
      /\ QHolder' = [k \in Keys |-> IF k \in S THEN p ELSE QHolder[k]]
      /\ QTries' = [k \in Keys |-> IF k \in S THEN QTries[k] + 1 ELSE QTries[k]]
  BY <1>3, QFunctions
<1> QED
  BY <1>1, <1>4 DEF Queue!Take, QPhase, QHolder, QTries

LEMMA GenerateEnqueues ==
    ASSUME RowsTyped, NEW S \in SUBSET Keys, GeneratesRows(S)
    PROVE  Queue!Enqueue(S)
<1>1. \A k \in S : QPhase[k] = "absent" /\ row[k].owner = NoProc /\ row[k].tries = 0
  BY QPoint DEF GeneratesRows, Phase, RowsTyped, Recs, Coherent
<1>2. \A k \in Keys : row'[k] = IF k \in S THEN Pending(0) ELSE row[k]
  BY DEF GeneratesRows
<1>3. /\ \A k \in Keys : QPhase'[k] = IF k \in S THEN "queued" ELSE QPhase[k]
      /\ \A k \in Keys : QHolder'[k] = QHolder[k] /\ QTries'[k] = QTries[k]
  BY <1>1, <1>2, QPoint, PhaseOf
<1>4. /\ QPhase' = [k \in Keys |-> IF k \in S THEN "queued" ELSE QPhase[k]]
      /\ QHolder' = QHolder /\ QTries' = QTries
  BY <1>3, QFunctions, SameFunction
<1> QED
  BY <1>1, <1>4 DEF Queue!Enqueue, QPhase, QHolder, QTries

LEMMA ReclaimEvicts ==
    ASSUME NEW S \in SUBSET Keys, ReclaimsRows(S)
    PROVE  Queue!Evict(S)
<1>1. \A k \in S : QPhase[k] = "working"
  BY QPoint DEF ReclaimsRows, Phase
<1>2. \A k \in Keys : row'[k] = IF k \in S THEN Pending(row[k].tries) ELSE row[k]
  BY DEF ReclaimsRows
<1>3. /\ \A k \in Keys : QPhase'[k] = IF k \in S THEN "queued" ELSE QPhase[k]
      /\ \A k \in Keys : QHolder'[k] = IF k \in S THEN NoProc ELSE QHolder[k]
      /\ \A k \in Keys : QTries'[k] = QTries[k]
  BY <1>2, QPoint, PhaseOf
<1>4. /\ QPhase' = [k \in Keys |-> IF k \in S THEN "queued" ELSE QPhase[k]]
      /\ QHolder' = [k \in Keys |-> IF k \in S THEN NoProc ELSE QHolder[k]]
      /\ QTries' = QTries
  BY <1>3, QFunctions, SameFunction
<1> QED
  BY <1>1, <1>4 DEF Queue!Evict, QPhase, QHolder, QTries

LEMMA SweepDiscards ==
    ASSUME RowsTyped, NEW S \in SUBSET Keys, SweepsRows(S)
    PROVE  Queue!Discard(S)
<1>1. \A k \in S : /\ QPhase[k] = "queued" /\ QTries[k] >= MaxAttempts
                   /\ row[k].owner = NoProc
  BY QPoint DEF SweepsRows, Phase, RowsTyped, Recs, Coherent
<1>2. \A k \in Keys : row'[k] = IF k \in S THEN Settled("failed", row[k].tries) ELSE row[k]
  BY DEF SweepsRows
<1>3. /\ \A k \in Keys : QPhase'[k] = IF k \in S THEN "done" ELSE QPhase[k]
      /\ \A k \in Keys : QHolder'[k] = QHolder[k] /\ QTries'[k] = QTries[k]
  BY <1>1, <1>2, QPoint, PhaseOf
<1>4. /\ QPhase' = [k \in Keys |-> IF k \in S THEN "done" ELSE QPhase[k]]
      /\ QHolder' = QHolder /\ QTries' = QTries
  BY <1>3, QFunctions, SameFunction
<1> QED
  BY <1>1, <1>4 DEF Queue!Discard, QPhase, QHolder, QTries

LEMMA ReleaseSettles ==
    ASSUME RowsTyped, NEW p \in Procs, NEW k \in Keys, NEW mode \in Modes, ReleasesRow(p, k, mode)
    PROVE  Queue!Settle(p, k) \/ Queue!GiveBack(p, k) \/ Queue!Refund(p, k)
<1>1. PICK r : /\ r = Released(row[k], mode) /\ r.owner = NoProc
               /\ row[k].state = "running" /\ row[k].tries \in 1..MaxAttempts
               /\ \/ r.state \in {"succeeded", "failed"} /\ r.tries = row[k].tries
                  \/ /\ r.state = "pending" /\ r.tries = row[k].tries /\ row[k].tries < MaxAttempts
                  \/ r.state = "pending" /\ r.tries = row[k].tries - 1
  <2>1. row[k] \in Recs /\ row[k].owner = p
    BY DEF RowsTyped, ReleasesRow
  <2> QED
    BY <2>1, ReleaseTyped
<1>2. row'[k] = r /\ \A j \in Keys : j # k => row'[j] = row[j]
  BY <1>1 DEF ReleasesRow, RowsTyped
<1>3. QPhase[k] = "working" /\ QHolder[k] = p /\ QTries[k] = row[k].tries
  BY <1>1, QPoint DEF ReleasesRow, Phase
<1>4. QHolder' = [QHolder EXCEPT ![k] = NoProc]
  <2>1. \A j \in Keys : QHolder'[j] = IF j = k THEN NoProc ELSE QHolder[j]
    BY <1>1, <1>2, QPoint
  <2> QED
    BY <2>1, QFunctions, ExceptAt
<1>5. QPhase' = [QPhase EXCEPT ![k] = Phase(r)]
  <2>1. \A j \in Keys : QPhase'[j] = IF j = k THEN Phase(r) ELSE QPhase[j]
    BY <1>2, QPoint
  <2> QED
    BY <2>1, QFunctions, ExceptAt
<1>6. QTries' = [QTries EXCEPT ![k] = r.tries]
  <2>1. \A j \in Keys : QTries'[j] = IF j = k THEN r.tries ELSE QTries[j]
    BY <1>2, QPoint
  <2> QED
    BY <2>1, QFunctions, ExceptAt
<1>7. r.tries = row[k].tries => QTries' = QTries
  <2>1. ASSUME r.tries = row[k].tries PROVE \A j \in Keys : QTries'[j] = QTries[j]
    BY <1>2, <2>1, QPoint
  <2> QED
    BY <2>1, QFunctions, SameFunction
<1>8. CASE r.state \in {"succeeded", "failed"} /\ r.tries = row[k].tries
  <2>1. Phase(r) = "done"
    BY <1>8 DEF Phase
  <2> QED
    BY <1>3, <1>4, <1>5, <1>7, <1>8, <2>1 DEF Queue!Settle, QPhase, QHolder, QTries
<1>9. CASE r.state = "pending" /\ r.tries = row[k].tries /\ row[k].tries < MaxAttempts
  <2>1. Phase(r) = "queued"
    BY <1>9 DEF Phase
  <2> QED
    BY <1>3, <1>4, <1>5, <1>7, <1>9, <2>1 DEF Queue!GiveBack, QPhase, QHolder, QTries
<1>10. CASE r.state = "pending" /\ r.tries = row[k].tries - 1
  <2>1. Phase(r) = "queued" /\ QTries' = [QTries EXCEPT ![k] = QTries[k] - 1]
    BY <1>3, <1>6, <1>10 DEF Phase
  <2> QED
    BY <1>3, <1>4, <1>5, <2>1 DEF Queue!Refund, QPhase, QHolder, QTries
<1> QED
  BY <1>1, <1>8, <1>9, <1>10

LEMMA RowsMoveInQueue ==
    ASSUME RowsTyped, RowsMove
    PROVE  [Queue!Next]_(Queue!vars)
<1>1. CASE row' = row
  BY <1>1, QueueStutters
<1>2. ASSUME NEW p \in Procs, NEW S \in SUBSET Keys, ClaimsRows(p, S) PROVE Queue!Next
  BY <1>2, ClaimTakes DEF Queue!Next
<1>3. ASSUME NEW S \in SUBSET Keys, GeneratesRows(S) \/ ReclaimsRows(S) \/ SweepsRows(S)
      PROVE  Queue!Next
  BY <1>3, GenerateEnqueues, ReclaimEvicts, SweepDiscards DEF Queue!Next
<1>4. ASSUME NEW p \in Procs, NEW k \in Keys, NEW mode \in Modes, ReleasesRow(p, k, mode)
      PROVE  Queue!Next
  BY <1>4, ReleaseSettles DEF Queue!Next
<1>5. ASSUME NEW k \in Keys, ExpiresRow(k) PROVE UNCHANGED Queue!vars
  <2>1. \A j \in Keys : \/ row'[j] = row[j]
                        \/ j = k /\ row'[j] = Record("running", row[k].owner, FALSE, row[k].tries)
    BY <1>5 DEF ExpiresRow, RowsTyped
  <2>2. Phase(row[k]) = "working"
    BY <1>5 DEF ExpiresRow, Phase
  <2>3. LET r == Record("running", row[k].owner, FALSE, row[k].tries) IN
        Phase(r) = "working" /\ r.owner = row[k].owner /\ r.tries = row[k].tries
    BY DEF Phase, Record
  <2>4. \A j \in Keys : /\ Phase(row'[j]) = Phase(row[j]) /\ row'[j].owner = row[j].owner
                        /\ row'[j].tries = row[j].tries
    BY <2>1, <2>2, <2>3
  <2> QED
    BY <2>4, QueueStutters
<1> QED
  BY <1>1, <1>2, <1>3, <1>4, <1>5 DEF RowsMove

-----------------------------------------------------------------------------
(* What a step does to the runs: types.                                    *)

LEMMA AfreshTyped ==
    ASSUME RunsTyped, NEW p \in Procs, NEW at \in Places, NEW s \in PlanSet, Afresh(p, at, s)
    PROVE  RunsTyped'
<1>1. s.cats \in Plans /\ Len(s.cats) \in Nat \ {0}
  BY PlansTyped DEF PlanSet
<1>2. Turn(1, TRUE, FALSE) \in TurnSet /\ Turn(1, TRUE, FALSE).place = 1
  BY TurnTyped
<1>3. /\ pc' \in [Procs -> Places] /\ plan' \in [Procs -> PlanSet] /\ turn' \in [Procs -> TurnSet]
      /\ skipped' \in [Procs -> SUBSET Range(Categories)]
      /\ calls' \in [Procs -> Nat] /\ stop' \in [Procs -> Stops] /\ task' \in [Procs -> Tasks]
  <2>1. pc' \in [Procs -> Places] /\ plan' \in [Procs -> PlanSet] /\ turn' \in [Procs -> TurnSet]
    BY <1>2 DEF Afresh, Goto, RunsTyped
  <2>2. skipped' \in [Procs -> SUBSET Range(Categories)] /\ calls' \in [Procs -> Nat]
    BY DEF Afresh, RunsTyped
  <2>3. stop' \in [Procs -> Stops] /\ task' \in [Procs -> Tasks]
    BY IdleTyped DEF Afresh, RunsTyped, Stops
  <2> QED
    BY <2>1, <2>2, <2>3
<1>4. ASSUME NEW q \in Procs
      PROVE  turn'[q].place \in 1..Len(plan'[q].cats) /\ (pc'[q] # "window" => task'[q] = Idle)
  <2>1. CASE q = p
    <3>1. turn'[q] = Turn(1, TRUE, FALSE) /\ plan'[q] = s /\ task'[q] = Idle
      BY <2>1 DEF Afresh, RunsTyped
    <3>2. 1 \in 1..Len(s.cats)
      BY <1>1
    <3> QED
      BY <1>2, <3>1, <3>2
  <2>2. CASE q # p
    <3>1. /\ turn'[q] = turn[q] /\ plan'[q] = plan[q] /\ task'[q] = task[q] /\ pc'[q] = pc[q]
      BY <2>2 DEF Afresh, Goto, RunsTyped
    <3> QED
      BY <3>1 DEF RunsTyped
  <2> QED
    BY <2>1, <2>2
<1> QED
  BY <1>3, <1>4 DEF RunsTyped

\* The plan and the tasks stay, and the turn changes within the plan.
LEMMA CourseTyped ==
    ASSUME RunsTyped, NEW p \in Procs, NEW at \in Places \ {"window"}, Goto(p, at),
           UNCHANGED <<plan, task>>, pc[p] # "window" \/ task[p] = Idle,
           turn' \in [Procs -> TurnSet],
           \A q \in Procs : turn'[q].place \in 1..Len(plan[q].cats),
           skipped' \in [Procs -> SUBSET Range(Categories)],
           calls' \in [Procs -> Nat], stop' \in [Procs -> Stops]
    PROVE  RunsTyped'
<1>1. \A q \in Procs : pc'[q] # "window" => task'[q] = Idle
  BY DEF Goto, RunsTyped
<1>2. pc' \in [Procs -> Places] /\ plan' \in [Procs -> PlanSet] /\ task' \in [Procs -> Tasks]
  BY DEF Goto, RunsTyped
<1> QED
  BY <1>1, <1>2 DEF RunsTyped

\* The place of a run moves on.
LEMMA TurnMoves ==
    ASSUME RunsTyped, NEW p \in Procs, NEW n \in 1..Len(plan[p].cats), NEW f \in BOOLEAN,
           NEW m \in BOOLEAN, turn' = [turn EXCEPT ![p] = Turn(n, f, m)]
    PROVE  /\ turn' \in [Procs -> TurnSet]
           /\ \A q \in Procs : turn'[q].place \in 1..Len(plan[q].cats)
<1>1. Len(plan[p].cats) \in Nat
  BY KeyTyped
<1>2. n \in Nat
  BY <1>1
<1>3. Turn(n, f, m) \in TurnSet /\ Turn(n, f, m).place = n
  BY <1>2, TurnTyped
<1>4. turn' \in [Procs -> TurnSet]
  BY <1>3 DEF RunsTyped
<1>5. ASSUME NEW q \in Procs PROVE turn'[q].place \in 1..Len(plan[q].cats)
  <2>1. CASE q = p
    BY <1>3, <2>1 DEF RunsTyped
  <2>2. CASE q # p
    BY <2>2 DEF RunsTyped
  <2> QED
    BY <2>1, <2>2
<1> QED
  BY <1>4, <1>5

LEMMA TurnOf ==
    ASSUME RunsTyped, NEW p \in Procs
    PROVE  /\ turn[p].place \in 1..Len(plan[p].cats) /\ turn[p].first \in BOOLEAN
           /\ turn[p].moved \in BOOLEAN /\ 1 \in 1..Len(plan[p].cats)
           /\ Len(plan[p].cats) \in Nat
           /\ turn[p].place < Len(plan[p].cats) => turn[p].place + 1 \in 1..Len(plan[p].cats)
<1>1. turn[p] \in TurnSet /\ turn[p].place \in 1..Len(plan[p].cats) /\ Len(plan[p].cats) \in Nat \ {0}
  BY KeyTyped DEF RunsTyped
<1> QED
  BY <1>1 DEF TurnSet

LEMMA OnwardTyped ==
    ASSUME RunsTyped, NEW p \in Procs, Onward(p)
    PROVE  /\ turn' \in [Procs -> TurnSet]
           /\ \A q \in Procs : turn'[q].place \in 1..Len(plan[q].cats)
           /\ Goto(p, "claim") \/ Goto(p, "end")
<1>1. CASE turn' = turn
  BY <1>1 DEF Onward, RunsTyped
<1>2. CASE turn' = [turn EXCEPT ![p] = Turn(1, FALSE, FALSE)]
  BY <1>2, TurnOf, TurnMoves DEF Onward
<1>3. CASE /\ turn[p].place < Len(plan[p].cats)
           /\ turn' = [turn EXCEPT ![p] = Turn(turn[p].place + 1, turn[p].first, turn[p].moved)]
  BY <1>3, TurnOf, TurnMoves DEF Onward
<1> QED
  BY <1>1, <1>2, <1>3 DEF Onward

LEMMA PassOverTyped ==
    ASSUME RunsTyped, NEW p \in Procs, PassOver(p)
    PROVE  skipped' \in [Procs -> SUBSET Range(Categories)]
BY KeyTyped DEF PassOver, RunsTyped

Ended(p, a, why) ==
    /\ Becomes(p, a, "none") /\ stop' = [stop EXCEPT ![p] = Larger(stop[p], why)]
    /\ PassOver(p) \/ UNCHANGED skipped
    /\ UNCHANGED <<course, calls>>

LEMMA OverEnds ==
    ASSUME NEW p, NEW a, NEW why, NEW pause, Over(p, a, why, pause)
    PROVE  Ended(p, a, why)
BY DEF Over, Ended

LEMMA EndedTyped ==
    ASSUME RunsTyped, NEW p \in Procs, NEW a \in Articles, NEW why \in Stops,
           Ended(p, a, why)
    PROVE  RunsTyped'
<1>1. skipped' \in [Procs -> SUBSET Range(Categories)]
  BY PassOverTyped DEF Ended, RunsTyped
<1>2. stop' \in [Procs -> Stops]
  BY DEF Ended, RunsTyped, Stops, Larger
<1>3. [task[p] EXCEPT ![a] = "none"] \in Tasks
  BY DEF RunsTyped, Tasks
<1>4. task' \in [Procs -> Tasks]
  BY <1>3 DEF Ended, Becomes, RunsTyped
<1>5. \A q \in Procs : task[q] = Idle => task'[q] = Idle
  BY DEF Ended, Becomes, RunsTyped, Idle
<1> QED
  BY <1>1, <1>2, <1>4, <1>5 DEF Ended, course, RunsTyped

\* A task ends for its run: without a trace in its row, with the release of the
\* row, or with a release that may come later.
TaskEnds(p, a) ==
    /\ \E why \in Stops :
          /\ Ended(p, a, why)
          /\ \/ row' = row /\ late' = late
             \/ late' = late /\ \E mode \in Modes : ReleasesRow(p, Key(p, a), mode)
             \/ /\ why > 0 /\ row' = row
                /\ \E mode \in Modes : late' = late \cup {Unseen(p, Key(p, a), mode)}
    /\ UNCHANGED listed /\ raw' \subseteq raw \cup {Key(p, a)}

LEMMA ReleaseEnds ==
    ASSUME NEW p \in Procs, NEW a \in Articles, NEW mode \in Modes, NEW why \in Stops,
           NEW pause, Release(p, a, mode, why, pause)
    PROVE  TaskEnds(p, a)
<1>1. Larger(2, why) \in Stops /\ Larger(2, why) > 0
  BY DEF Larger, Stops
<1>2. CASE ReleaseSeen(p, a, mode, why, pause)
  <2>1. CASE Owned(p, Key(p, a))
    <3>1. /\ Ended(p, a, why) /\ late' = late /\ ReleasesRow(p, Key(p, a), mode)
          /\ raw' \subseteq raw \cup {Key(p, a)}
      BY <1>2, <2>1, OverEnds DEF ReleaseSeen, Apply, ReleasesRow, Owned
    <3> QED
      BY <3>1 DEF TaskEnds, Release
  <2>2. CASE ~Owned(p, Key(p, a))
    <3>1. /\ Ended(p, a, Larger(2, why)) /\ late' = late /\ row' = row
          /\ raw' \subseteq raw \cup {Key(p, a)}
      BY <1>2, <2>2, OverEnds DEF ReleaseSeen, Apply
    <3> QED
      BY <1>1, <3>1 DEF TaskEnds, Release
  <2> QED
    BY <2>1, <2>2
<1>3. CASE ReleaseUnseen(p, a, mode, why, pause)
  <2>1. /\ Ended(p, a, Larger(2, why)) /\ row' = row /\ raw' \subseteq raw \cup {Key(p, a)}
        /\ late' = late \/ late' = late \cup {Unseen(p, Key(p, a), mode)}
    BY <1>3, OverEnds DEF ReleaseUnseen
  <2> QED
    BY <1>1, <2>1 DEF TaskEnds, Release
<1> QED
  BY <1>2, <1>3 DEF Release

LEMMA TaskMoves ==
    ASSUME NEW p \in Procs, NEW a \in Articles, TaskStep(p, a)
    PROVE  /\ pc[p] = "window" /\ task[p][a] # "none"
           /\ TaskEnds(p, a) \/ (Call(p, a) /\ task[p][a] = "claimed")
<1>1. {"success", "charge", "permanent", "refund"} = Modes /\ {0, 1, 2, 3} = Stops
  BY DEF Modes, Stops
<1>2. pc[p] = "window" /\ task[p][a] # "none"
  BY DEF TaskStep, ReadFails, ReadUnknown, LeaseInsufficient, Call, Succeeds, ItemRetryable,
         ItemPermanent, GlobalSuspect, GlobalUnrelated, TaskDies, Open
<1>3. CASE Call(p, a)
  BY <1>2, <1>3 DEF Call, Open
<1>4. ASSUME Ended(p, a, 2), UNCHANGED rows,
             late' = late \/ \E mode \in Modes : late' = late \cup {Unseen(p, Key(p, a), mode)}
      PROVE  TaskEnds(p, a)
  <2>1. 2 \in Stops /\ 2 > 0
    BY <1>1
  <2>2. row' = row /\ listed' = listed /\ raw' \subseteq raw \cup {Key(p, a)}
    BY <1>4 DEF rows
  <2> QED
    BY <1>4, <2>1, <2>2 DEF TaskEnds
<1>5. CASE ReadUnknown(p, a)
  <2>1. Ended(p, a, 2) /\ UNCHANGED rows /\ late' = late
    BY <1>5, OverEnds DEF ReadUnknown
  <2> QED
    BY <1>2, <1>4, <2>1
<1>6. CASE TaskDies(p, a)
  <2>1. Ended(p, a, 2) /\ UNCHANGED rows
    BY <1>6, OverEnds DEF TaskDies
  <2>2. late' = late \/ \E mode \in Modes : late' = late \cup {Unseen(p, Key(p, a), mode)}
    BY <1>6 DEF TaskDies
  <2> QED
    BY <1>2, <1>4, <2>1, <2>2
<1>7. ASSUME NEW mode \in Modes, NEW why \in Stops, NEW pause, Release(p, a, mode, why, pause)
      PROVE  TaskEnds(p, a)
  BY <1>7, ReleaseEnds
<1>8. CASE ReadFails(p, a) \/ LeaseInsufficient(p, a) \/ Succeeds(p, a) \/ ItemRetryable(p, a)
           \/ ItemPermanent(p, a) \/ GlobalSuspect(p, a) \/ GlobalUnrelated(p, a)
  <2>1. TaskEnds(p, a)
    BY <1>1, <1>7, <1>8 DEF ReadFails, LeaseInsufficient, Succeeds, ItemRetryable, ItemPermanent,
                            GlobalSuspect, GlobalUnrelated
  <2> QED
    BY <1>2, <2>1
<1> QED
  BY <1>3, <1>5, <1>6, <1>8 DEF TaskStep

LEMMA TaskTyped ==
    ASSUME RunsTyped, NEW p \in Procs, NEW a \in Articles, TaskStep(p, a)
    PROVE  RunsTyped'
<1>1. CASE TaskEnds(p, a)
  BY <1>1, EndedTyped DEF TaskEnds
<1>2. CASE Call(p, a)
  <2>1. calls[p] + 1 \in Nat /\ [task[p] EXCEPT ![a] = "sent"] \in Tasks
    BY DEF RunsTyped, Tasks
  <2>2. calls' \in [Procs -> Nat] /\ task' \in [Procs -> Tasks]
    BY <1>2, <2>1 DEF Call, Becomes, RunsTyped
  <2>3. \A q \in Procs : pc[q] # "window" => task'[q] = task[q]
    BY <1>2 DEF Call, Open, Becomes, RunsTyped
  <2> QED
    BY <1>2, <2>2, <2>3 DEF Call, course, RunsTyped
<1> QED
  BY <1>1, <1>2, TaskMoves

LEMMA ClaimTyped ==
    ASSUME RunsTyped, NEW p \in Procs, NEW L, ClaimWindow(p, L)
    PROVE  RunsTyped'
<1> DEFINE W == FirstOf(Window(p), Claimable(p) \ L)
<1>1. UNCHANGED <<plan, calls, stop>> /\ pc[p] # "window"
  BY DEF ClaimWindow
<1>2. CASE /\ Goto(p, "window")
           /\ turn' = [turn EXCEPT ![p] = Turn(turn[p].place, turn[p].first, TRUE)]
           /\ task' = [task EXCEPT ![p] = [a \in Articles |-> IF a \in W THEN "claimed" ELSE "none"]]
           /\ UNCHANGED skipped
  <2>1. turn' \in [Procs -> TurnSet] /\ \A q \in Procs : turn'[q].place \in 1..Len(plan[q].cats)
    BY <1>2, TurnOf, TurnMoves
  <2>2. [a \in Articles |-> IF a \in W THEN "claimed" ELSE "none"] \in Tasks
    BY DEF Tasks
  <2>3. task' \in [Procs -> Tasks] /\ pc' \in [Procs -> Places]
    BY <1>2, <2>2 DEF Goto, RunsTyped, Places
  <2>4. \A q \in Procs : pc'[q] # "window" => task'[q] = Idle
    BY <1>2 DEF Goto, RunsTyped
  <2> QED
    BY <1>1, <1>2, <2>1, <2>3, <2>4 DEF RunsTyped
<1>3. CASE Goto(p, "generate") /\ UNCHANGED <<turn, task, skipped>>
  <2>1. "generate" \in Places \ {"window"}
    BY DEF Places
  <2> QED
    BY <1>1, <1>3, <2>1, CourseTyped DEF RunsTyped
<1>4. CASE Onward(p) /\ PassOver(p) /\ UNCHANGED task
  <2>1. "claim" \in Places \ {"window"} /\ "end" \in Places \ {"window"}
    BY DEF Places
  <2> QED
    BY <1>1, <1>4, <2>1, OnwardTyped, PassOverTyped, CourseTyped DEF RunsTyped
<1> QED
  BY <1>2, <1>3, <1>4 DEF ClaimWindow

\* The runs keep their form.
LEMMA RunsStay ==
    ASSUME Typed, [Next]_vars
    PROVE  RunsTyped'
<1>0. RunsTyped
  BY DEF Typed
<1>1. ASSUME NEW p \in Procs, NEW c \in Configs, NEW s \in Plans, NEW n \in Budgets,
             Start(p, c, s, n)
      PROVE  RunsTyped'
  <2>1. n \in Nat /\ "purge" \in Places
    BY DecisionAssumption DEF Places
  <2>2. Plan(c, s, n) \in PlanSet
    BY <2>1, PlanTyped
  <2> QED
    BY <1>0, <1>1, <2>1, <2>2, AfreshTyped DEF Start
<1>2. ASSUME NEW p \in Procs, Finish(p) \/ Crash(p) PROVE RunsTyped'
  BY <1>0, <1>2, PlanTyped, AfreshTyped DEF Finish, Crash, Places
<1>3. ASSUME NEW p \in Procs, NEW L, ClaimWindow(p, L) PROVE RunsTyped'
  BY <1>0, <1>3, ClaimTyped
<1>4. ASSUME NEW p \in Procs, NEW a \in Articles, TaskStep(p, a) PROVE RunsTyped'
  BY <1>0, <1>4, TaskTyped
<1>5. ASSUME NEW p \in Procs, NEW at \in Places \ {"window"}, Goto(p, at),
             UNCHANGED <<plan, turn, skipped, calls, task>>, stop' \in [Procs -> Stops],
             pc[p] # "window" \/ task[p] = Idle
      PROVE  RunsTyped'
  BY <1>0, <1>5, CourseTyped DEF RunsTyped
<1>6. ASSUME NEW p \in Procs,
             PurgeRaw(p) \/ Reclaim(p) \/ StorageFails(p) \/ BudgetExhausted(p)
      PROVE  RunsTyped'
  <2>1. stop' \in [Procs -> Stops]
    <3>1. CASE StorageFails(p)
      <4>1. Larger(2, stop[p]) \in Stops
        BY <1>0 DEF RunsTyped, Stops, Larger
      <4> QED
        BY <1>0, <3>1, <4>1 DEF StorageFails, RunsTyped
    <3>2. CASE stop' = stop
      BY <1>0, <3>2 DEF RunsTyped
    <3> QED
      BY <1>6, <3>1, <3>2 DEF PurgeRaw, Reclaim, BudgetExhausted, window
  <2>2. /\ {"reclaim", "sweep", "end"} \subseteq Places \ {"window"}
        /\ UNCHANGED <<plan, turn, skipped, calls, task>> /\ pc[p] # "window"
        /\ Goto(p, "reclaim") \/ Goto(p, "sweep") \/ Goto(p, "end")
    BY <1>6 DEF PurgeRaw, Reclaim, StorageFails, BudgetExhausted, window, Places
  <2> QED
    BY <1>5, <2>1, <2>2
<1>7. ASSUME NEW p \in Procs, TerminalizeExhausted(p) PROVE RunsTyped'
  <2>1. {"reclaim", "claim"} \subseteq Places \ {"window"}
    BY DEF Places
  <2>2. /\ turn' \in [Procs -> TurnSet] /\ \A q \in Procs : turn'[q].place \in 1..Len(plan[q].cats)
        /\ Goto(p, "reclaim") \/ Goto(p, "claim")
    BY <1>0, <1>7, TurnOf, TurnMoves DEF TerminalizeExhausted
  <2>3. UNCHANGED <<plan, skipped, calls, stop, task>> /\ pc[p] # "window"
    BY <1>7 DEF TerminalizeExhausted, window
  <2> QED
    BY <1>0, <2>1, <2>2, <2>3, CourseTyped DEF RunsTyped
<1>8. ASSUME NEW p \in Procs, Onward(p), UNCHANGED <<plan, calls, stop, task>>,
             PassOver(p) \/ UNCHANGED skipped, pc[p] # "window" \/ task[p] = Idle
      PROVE  RunsTyped'
  <2>1. {"end", "claim"} \subseteq Places \ {"window"}
    BY DEF Places
  <2>2. skipped' \in [Procs -> SUBSET Range(Categories)]
    BY <1>0, <1>8, PassOverTyped DEF RunsTyped
  <2> QED
    BY <1>0, <1>8, <2>1, <2>2, OnwardTyped, CourseTyped DEF RunsTyped
<1>9. ASSUME NEW p \in Procs, Skip(p) PROVE RunsTyped'
  BY <1>8, <1>9 DEF Skip, window
<1>10. ASSUME NEW p \in Procs, WindowOver(p) PROVE RunsTyped'
  <2>1. "end" \in Places \ {"window"} /\ stop \in [Procs -> Stops]
    BY <1>0 DEF Places, RunsTyped
  <2> QED
    BY <1>5, <1>8, <1>10, <2>1 DEF WindowOver, window
<1>11. ASSUME NEW p \in Procs, GeneratePending(p) PROVE RunsTyped'
  <2>1. "claim again" \in Places \ {"window"} /\ stop \in [Procs -> Stops]
    BY <1>0 DEF Places, RunsTyped
  <2> QED
    BY <1>5, <1>8, <1>11, <2>1 DEF GeneratePending
<1>12. CASE UNCHANGED <<course, window>>
  BY <1>0, <1>12 DEF RunsTyped, course, window
<1> QED
  BY <1>1, <1>2, <1>3, <1>4, <1>6, <1>7, <1>9, <1>10, <1>11, <1>12
  DEF Next, RunStep, NewArticle, Expire, LateRelease, LateLost, vars

LEMMA UnseenTyped ==
    ASSUME NEW p, NEW k, NEW mode
    PROVE  LET w == Unseen(p, k, mode) IN w.owner = p /\ w.key = k /\ w.mode = mode
BY DEF Unseen

\* The articles, the raw responses and the late releases keep their form.
LEMMA OthersStay ==
    ASSUME Typed, [Next]_vars
    PROVE  OthersTyped'
<1>1. ASSUME NEW p \in Procs, NEW a \in Articles, TaskEnds(p, a) PROVE OthersTyped'
  <2>1. Key(p, a) \in Keys
    BY KeyTyped DEF Typed
  <2>2. listed' \subseteq Articles /\ raw' \subseteq Keys
    BY <1>1, <2>1 DEF TaskEnds, Typed, OthersTyped
  <2>3. CASE late' = late
    BY <2>2, <2>3 DEF Typed, OthersTyped
  <2>4. ASSUME NEW mode \in Modes, late' = late \cup {Unseen(p, Key(p, a), mode)}
        PROVE  OthersTyped'
    <3>1. PICK u : u = Unseen(p, Key(p, a), mode)
      OBVIOUS
    <3>2. u.owner = p /\ u.key = Key(p, a) /\ u.mode = mode
      BY <3>1, UnseenTyped
    <3> QED
      BY <2>1, <2>2, <2>4, <3>1, <3>2 DEF Typed, OthersTyped
  <2> QED
    BY <1>1, <2>3, <2>4 DEF TaskEnds
<1>2. ASSUME NEW p \in Procs, NEW a \in Articles, TaskStep(p, a) PROVE OthersTyped'
  <2>1. CASE Call(p, a)
    BY <2>1 DEF Call, rows, Typed, OthersTyped
  <2> QED
    BY <1>1, <1>2, <2>1, TaskMoves
<1>3. ASSUME NEW w \in late, LateRelease(w) PROVE OthersTyped'
  BY <1>3 DEF LateRelease, Apply, Typed, OthersTyped
<1>4. ASSUME NEW a \in Articles, NewArticle(a) PROVE OthersTyped'
  BY <1>4 DEF NewArticle, Typed, OthersTyped
<1>5. ASSUME NEW p \in Procs, PurgeRaw(p) PROVE OthersTyped'
  BY <1>5 DEF PurgeRaw, Typed, OthersTyped
<1>6. CASE listed' = listed /\ raw' = raw /\ late' \subseteq late
  BY <1>6 DEF Typed, OthersTyped
<1>7. ASSUME NEW w \in late, LateLost(w) PROVE OthersTyped'
  BY <1>6, <1>7 DEF LateLost, rows
<1> QED
  BY <1>2, <1>3, <1>4, <1>5, <1>6, <1>7
  DEF Next, RunStep, Start, Reclaim, TerminalizeExhausted, StorageFails, Skip, BudgetExhausted,
      ClaimWindow, GeneratePending, WindowOver, Finish, Crash, Expire, vars, rows, window

LEMMA InitTyped == Init => Typed
<1> SUFFICES ASSUME Init PROVE Typed
  OBVIOUS
<1>1. RowsTyped /\ OthersTyped
  BY RowTyped DEF Init, RowsTyped, OthersTyped
<1>2. /\ pc \in [Procs -> Places] /\ plan \in [Procs -> PlanSet] /\ turn \in [Procs -> TurnSet]
      /\ skipped \in [Procs -> SUBSET Range(Categories)]
      /\ calls \in [Procs -> Nat] /\ stop \in [Procs -> Stops] /\ task \in [Procs -> Tasks]
  <2>1. NoPlan \in PlanSet /\ Turn(1, TRUE, FALSE) \in TurnSet /\ Idle \in Tasks
    BY PlanTyped, TurnTyped, IdleTyped
  <2>2. "off" \in Places /\ 0 \in Stops /\ {} \in SUBSET Range(Categories)
    BY DEF Places, Stops
  <2> QED
    BY <2>1, <2>2 DEF Init
<1>3. \A p \in Procs : turn[p].place \in 1..Len(plan[p].cats) /\ task[p] = Idle
  <2>1. NoPlan.cats \in Plans /\ 1 \in 1..Len(NoPlan.cats)
    <3>1. NoPlan.cats \in Plans
      BY PlanTyped DEF PlanSet
    <3>2. Len(NoPlan.cats) \in Nat \ {0}
      BY <3>1, PlansTyped
    <3> QED
      BY <3>1, <3>2
  <2>2. Turn(1, TRUE, FALSE).place = 1
    BY TurnTyped
  <2> QED
    BY <2>1, <2>2 DEF Init
<1> QED
  BY <1>1, <1>2, <1>3 DEF RunsTyped, Typed

\* The inductive invariant of the types.
LEMMA AlwaysTyped == Spec => []Typed
<1>1. Init => Typed
  BY InitTyped
<1>2. Typed /\ [Next]_vars => Typed'
  BY EveryStep, RowsStay, RunsStay, OthersStay DEF Typed
<1> QED
  BY <1>1, <1>2, PTL DEF Spec

\* Every run, row and late release has the form the runs check (decision/mod.rs,
\* decision_result.rs): in particular a row has an owner exactly while it runs,
\* and its attempts stay within the budget.
THEOREM DecisionTyped == Spec => []TypeOK
<1>1. Typed => TypeOK
  <2> SUFFICES ASSUME Typed PROVE TypeOK
    OBVIOUS
  <2>1. \A k \in Keys :
          /\ row[k].state \in {"none", "pending", "running", "succeeded", "failed"}
          /\ row[k].owner \in Procs \cup {NoProc} /\ row[k].tries \in 0..MaxAttempts
          /\ row[k].owner # NoProc <=> row[k].state = "running"
          /\ row[k].state = "running" => row[k].tries > 0
    BY DEF Typed, RowsTyped, Recs, Coherent
  <2>2. \A p \in Procs :
          /\ pc[p] \in Places
          /\ plan[p].cfg \in Configs /\ plan[p].cats \in Plans
          /\ turn[p].place \in 1..Len(plan[p].cats)
          /\ skipped[p] \subseteq Range(Categories) /\ stop[p] \in Stops
          /\ task[p] \in Tasks
          /\ pc[p] # "window" => task[p] = Idle
    BY KeyTyped DEF Typed, RunsTyped
  <2> QED
    BY <2>1, <2>2 DEF TypeOK, Typed, OthersTyped, Places, Tasks
<1> QED
  BY <1>1, AlwaysTyped, PTL

\* A row of decision_results is a leased row with refunds: it is handed out within
\* its budget of attempts, to one run at a time, and what a release has settled
\* stays settled, whatever crashes, expires or arrives late.
THEOREM DecisionImplementsLeaseQueue == Spec => ImplementsLeaseQueue
<1>1. Init => Queue!Init
  <2> SUFFICES ASSUME Init PROVE Queue!Init
    OBVIOUS
  <2>1. \A k \in Keys : QPhase[k] = "absent" /\ QHolder[k] = NoProc /\ QTries[k] = 0
    BY PhaseOf, QPoint DEF Init
  <2>2. /\ QPhase = [k \in Keys |-> "absent"] /\ QHolder = [k \in Keys |-> NoProc]
        /\ QTries = [k \in Keys |-> 0]
    BY <2>1 DEF QPhase, QHolder, QTries
  <2> QED
    BY <2>2 DEF Queue!Init, QPhase, QHolder, QTries
<1>2. Typed /\ [Next]_vars => [Queue!Next]_(Queue!vars)
  BY EveryStep, RowsMoveInQueue DEF Typed
<1> QED
  BY <1>1, <1>2, AlwaysTyped, PTL DEF Spec, ImplementsLeaseQueue, Queue!Spec

-----------------------------------------------------------------------------
(* Calls are charged.  Who holds a row, and who may still call about it, is *)
(* counted together: a run whose lease has been taken away is one of them   *)
(* until its task ends.  A late release must not take a charge away from a  *)
(* task that is still open, so its run must not have claimed again.         *)

Owner(k)   == {p \in Procs : row[k].owner = p}
Calling(k) == {p \in Procs : plan[p].cfg = k[1] /\ task[p][k[2]] # "none"}
Charged(k) == Owner(k) \cup Calling(k)

AllCharged ==
    \A k \in Keys : IsFiniteSet(Charged(k)) /\ Cardinality(Charged(k)) <= row[k].tries

OverBefore(w) ==
    /\ pc[w.owner] \in {"off", "end"} \/ (pc[w.owner] = "window" /\ stop[w.owner] > 0)
    /\ plan[w.owner].cfg = w.key[1] => task[w.owner][w.key[2]] = "none"

LateIsOver == \A w \in late : OverBefore(w)

LEMMA Charging ==
    ASSUME NEW A, NEW B, NEW m \in Nat, NEW n \in Nat, NEW p,
           IsFiniteSet(A), Cardinality(A) <= m,
           \/ B \subseteq A /\ m <= n
           \/ B \subseteq A \cup {p} /\ n = m + 1
           \/ p \in A /\ B \subseteq A \ {p} /\ m - 1 <= n
    PROVE  IsFiniteSet(B) /\ Cardinality(B) <= n
<1>1. Cardinality(A) \in Nat
  BY FS_CardinalityType
<1>2. CASE B \subseteq A /\ m <= n
  <2>1. IsFiniteSet(B) /\ Cardinality(B) <= Cardinality(A) /\ Cardinality(B) \in Nat
    BY <1>2, FS_Subset, FS_CardinalityType
  <2> QED
    BY <1>1, <1>2, <2>1
<1>3. CASE B \subseteq A \cup {p} /\ n = m + 1
  <2>1. /\ IsFiniteSet(A \cup {p}) /\ Cardinality(A \cup {p}) \in Nat
        /\ Cardinality(A \cup {p}) <= Cardinality(A) + 1
    <3>1. /\ IsFiniteSet(A \cup {p})
          /\ Cardinality(A \cup {p}) = IF p \in A THEN Cardinality(A) ELSE Cardinality(A) + 1
      BY FS_AddElement
    <3> QED
      BY <1>1, <3>1
  <2>2. IsFiniteSet(B) /\ Cardinality(B) <= Cardinality(A \cup {p}) /\ Cardinality(B) \in Nat
    BY <1>3, <2>1, FS_Subset, FS_CardinalityType
  <2> QED
    BY <1>1, <1>3, <2>1, <2>2
<1>4. CASE p \in A /\ B \subseteq A \ {p} /\ m - 1 <= n
  <2>1. /\ IsFiniteSet(A \ {p}) /\ Cardinality(A \ {p}) \in Nat
        /\ Cardinality(A \ {p}) = Cardinality(A) - 1
    BY <1>4, FS_RemoveElement, FS_CardinalityType
  <2>2. IsFiniteSet(B) /\ Cardinality(B) <= Cardinality(A \ {p}) /\ Cardinality(B) \in Nat
    BY <1>4, <2>1, FS_Subset, FS_CardinalityType
  <2> QED
    BY <1>1, <1>4, <2>1, <2>2
<1> QED
  BY <1>2, <1>3, <1>4

\* What a step does to the charges of a row.
ChargeMoves(k) ==
    \/ Charged(k)' \subseteq Charged(k) /\ row[k].tries <= row'[k].tries
    \/ \E p \in Procs : Charged(k)' \subseteq Charged(k) \cup {p} /\ row'[k].tries = row[k].tries + 1
    \/ \E p \in Procs : /\ p \in Charged(k) /\ Charged(k)' \subseteq Charged(k) \ {p}
                        /\ row[k].tries - 1 <= row'[k].tries

LEMMA ChargeKept ==
    ASSUME Typed, Typed', AllCharged, \A k \in Keys : ChargeMoves(k)
    PROVE  AllCharged'
<1> SUFFICES ASSUME NEW k \in Keys
             PROVE  IsFiniteSet(Charged(k)') /\ Cardinality(Charged(k)') <= row'[k].tries
  BY DEF AllCharged
<1> DEFINE A == Charged(k)
           B == Charged(k)'
           m == row[k].tries
           n == row'[k].tries
<1>1. m \in Nat /\ n \in Nat
  BY DecisionAssumption DEF Typed, RowsTyped, Recs
<1>2. IsFiniteSet(A) /\ Cardinality(A) <= m
  BY DEF AllCharged
<1>3. PICK p : \/ B \subseteq A /\ m <= n
               \/ B \subseteq A \cup {p} /\ n = m + 1
               \/ p \in A /\ B \subseteq A \ {p} /\ m - 1 <= n
  BY DEF ChargeMoves
<1> HIDE DEF A, B, m, n
<1>4. IsFiniteSet(B) /\ Cardinality(B) <= n
  BY <1>1, <1>2, <1>3, Charging
<1> QED
  BY <1>4 DEF B, n

\* The rows of others, and rows that no call is about.
LEMMA QuietCharge ==
    ASSUME NEW k \in Keys, Calling(k)' \subseteq Calling(k), row[k].tries \in Nat,
           row'[k].tries >= row[k].tries, row'[k].owner \in {row[k].owner, NoProc}
    PROVE  ChargeMoves(k)
<1>1. Owner(k)' \subseteq Owner(k)
  BY DecisionAssumption DEF Owner
<1> QED
  BY <1>1 DEF ChargeMoves, Charged

\* A release by its owner, which has no task for the row any more.
LEMMA ReleaseCharge ==
    ASSUME Typed, NEW p \in Procs, NEW k \in Keys, NEW j \in Keys, NEW mode \in Modes,
           ReleasesRow(p, j, mode), Calling(k)' \subseteq Calling(k),
           k = j => p \notin Calling(k)'
    PROVE  ChargeMoves(k)
<1>0. row[k].tries \in Nat /\ row[j] \in Recs /\ row[j].owner = p
  BY DecisionAssumption DEF Typed, RowsTyped, Recs, ReleasesRow
<1>1. CASE k # j
  <2>1. row'[k] = row[k]
    BY <1>1 DEF ReleasesRow, Typed, RowsTyped
  <2> QED
    BY <1>0, <2>1, QuietCharge
<1>2. CASE k = j
  <2>1. row'[k] = Released(row[j], mode)
    BY <1>2 DEF ReleasesRow, Typed, RowsTyped
  <2>2. row'[k].owner = NoProc /\ row[k].tries - 1 <= row'[k].tries
    BY <1>0, <1>2, <2>1, ReleaseTyped
  <2>3. Owner(k)' = {} /\ p \in Owner(k)
    BY <1>0, <1>2, <2>2, DecisionAssumption DEF Owner
  <2>4. p \in Charged(k) /\ Charged(k)' \subseteq Charged(k) \ {p}
    BY <1>2, <2>3 DEF Charged
  <2> QED
    BY <2>2, <2>4 DEF ChargeMoves
<1> QED
  BY <1>1, <1>2

LEMMA ClaimCharge ==
    ASSUME Typed, NEW p \in Procs, NEW L, ClaimWindow(p, L), NEW k \in Keys
    PROVE  ChargeMoves(k)
<1> DEFINE W == FirstOf(Window(p), Claimable(p) \ L)
           S == {Key(p, a) : a \in W}
<1>0. row[k].tries \in Nat /\ row[k].owner \in Procs \cup {NoProc} /\ task \in [Procs -> Tasks]
  BY DecisionAssumption DEF Typed, RowsTyped, RunsTyped, Recs
<1>1. ClaimsRows(p, S)
  BY ClaimWindowRows DEF Typed
<1>2. CASE k \in S
  <2>1. row[k].state = "pending" /\ row'[k] = Claimed(p, row[k].tries + 1)
    BY <1>1, <1>2 DEF ClaimsRows
  <2>2. row'[k].owner = p /\ row'[k].tries = row[k].tries + 1
    BY <2>1, PhaseOf
  <2>3. Owner(k)' \subseteq {p}
    BY <2>2 DEF Owner
  <2>4. Calling(k)' \subseteq Calling(k) \cup {p}
    BY <1>0 DEF Calling, ClaimWindow
  <2> QED
    BY <2>2, <2>3, <2>4 DEF ChargeMoves, Charged
<1>3. CASE k \notin S
  <2>1. row'[k] = row[k]
    BY <1>1, <1>3 DEF ClaimsRows
  <2>2. Calling(k)' \subseteq Calling(k)
    <3> SUFFICES ASSUME NEW q \in Procs, plan'[q].cfg = k[1], task'[q][k[2]] # "none"
                 PROVE  q \in Calling(k)
      BY DEF Calling
    <3>1. plan' = plan
      BY DEF ClaimWindow
    <3>2. CASE task' = task
      BY <3>1, <3>2 DEF Calling
    <3>3. CASE task' = [task EXCEPT ![p] = [a \in Articles |-> IF a \in W THEN "claimed" ELSE "none"]]
      <4>1. CASE q # p
        BY <1>0, <3>1, <3>3, <4>1 DEF Calling
      <4>2. CASE q = p
        <5>1. k[2] \in W
          BY <1>0, <3>3, <4>2 DEF Keys
        <5>2. k = Key(p, k[2])
          BY <3>1, <4>2 DEF Key, Keys
        <5> QED
          BY <1>3, <5>1, <5>2
      <4> QED
        BY <4>1, <4>2
    <3> QED
      BY <3>2, <3>3 DEF ClaimWindow
  <2> QED
    BY <1>0, <2>1, <2>2, QuietCharge
<1> QED
  BY <1>2, <1>3

LEMMA TaskCharge ==
    ASSUME Typed, NEW p \in Procs, NEW a \in Articles, TaskStep(p, a), NEW k \in Keys
    PROVE  ChargeMoves(k)
<1>0. row[k].tries \in Nat /\ task \in [Procs -> Tasks] /\ Key(p, a) \in Keys
  BY DecisionAssumption, KeyTyped DEF Typed, RowsTyped, RunsTyped, Recs
<1>1. pc[p] = "window" /\ task[p][a] # "none"
  BY TaskMoves
<1>2. CASE Call(p, a)
  <2>1. Calling(k)' \subseteq Calling(k)
    BY <1>0, <1>1, <1>2 DEF Calling, Call, Becomes, course, Tasks, Keys
  <2> QED
    BY <1>0, <1>2, <2>1, QuietCharge DEF Call, rows
<1>3. CASE TaskEnds(p, a)
  <2>1. plan' = plan /\ task' = [task EXCEPT ![p] = [task[p] EXCEPT ![a] = "none"]]
    BY <1>3 DEF TaskEnds, Ended, Becomes, course
  <2>2. Calling(k)' \subseteq Calling(k)
    BY <1>0, <2>1 DEF Calling, Tasks, Keys
  <2>3. k = Key(p, a) => p \notin Calling(k)'
    BY <1>0, <2>1 DEF Calling, Tasks, Key
  <2>4. CASE row' = row
    BY <1>0, <2>2, <2>4, QuietCharge
  <2>5. ASSUME NEW mode \in Modes, ReleasesRow(p, Key(p, a), mode) PROVE ChargeMoves(k)
    BY <1>0, <2>2, <2>3, <2>5, ReleaseCharge
  <2> QED
    BY <1>3, <2>4, <2>5 DEF TaskEnds
<1> QED
  BY <1>2, <1>3, TaskMoves

LEMMA AfreshCharge ==
    ASSUME Typed, NEW p \in Procs, NEW at, NEW s, Afresh(p, at, s), row' = row, NEW k \in Keys
    PROVE  ChargeMoves(k)
<1>1. row[k].tries \in Nat /\ task \in [Procs -> Tasks] /\ plan \in [Procs -> PlanSet]
  BY DecisionAssumption DEF Typed, RowsTyped, RunsTyped, Recs
<1>2. Calling(k)' \subseteq Calling(k)
  BY <1>1, IdleTyped DEF Afresh, Calling, Keys
<1> QED
  BY <1>1, <1>2, QuietCharge

\* Rows move without a claim or a release, and no task is touched.
LEMMA OtherCharge ==
    ASSUME Typed, UNCHANGED <<plan, task>>, NEW k \in Keys,
           \/ row' = row
           \/ \E S \in SUBSET Keys : GeneratesRows(S) \/ ReclaimsRows(S) \/ SweepsRows(S)
           \/ \E j \in Keys : ExpiresRow(j)
    PROVE  ChargeMoves(k)
<1>0. row[k].tries \in Nat /\ row[k] \in Recs
  BY DecisionAssumption DEF Typed, RowsTyped, Recs
<1>1. Calling(k)' \subseteq Calling(k)
  BY DEF Calling
<1>2. row'[k].tries >= row[k].tries /\ row'[k].owner \in {row[k].owner, NoProc}
  <2>1. CASE row' = row
    BY <1>0, <2>1
  <2>2. ASSUME NEW S \in SUBSET Keys, GeneratesRows(S)
        PROVE  row'[k].tries >= row[k].tries /\ row'[k].owner \in {row[k].owner, NoProc}
    BY <1>0, <2>2, PhaseOf DEF GeneratesRows, Recs, Coherent
  <2>3. ASSUME NEW S \in SUBSET Keys, ReclaimsRows(S) \/ SweepsRows(S)
        PROVE  row'[k].tries >= row[k].tries /\ row'[k].owner \in {row[k].owner, NoProc}
    BY <1>0, <2>3, PhaseOf DEF ReclaimsRows, SweepsRows
  <2>4. ASSUME NEW j \in Keys, ExpiresRow(j)
        PROVE  row'[k].tries >= row[k].tries /\ row'[k].owner \in {row[k].owner, NoProc}
    <3>1. row'[k] = row[k] \/ row'[k] = Record("running", row[k].owner, FALSE, row[k].tries)
      BY <2>4 DEF ExpiresRow, Typed, RowsTyped
    <3>2. row'[k].owner = row[k].owner /\ row'[k].tries = row[k].tries
      <4>1. CASE row'[k] = Record("running", row[k].owner, FALSE, row[k].tries)
        BY <4>1 DEF Record
      <4> QED
        BY <3>1, <4>1
    <3> QED
      BY <1>0, <3>2
  <2> QED
    BY <2>1, <2>2, <2>3, <2>4
<1> QED
  BY <1>0, <1>1, <1>2, QuietCharge

LEMMA LateCharge ==
    ASSUME Typed, LateIsOver, NEW w \in late, LateRelease(w), NEW k \in Keys
    PROVE  ChargeMoves(k)
<1>1. w.owner \in Procs /\ w.key \in Keys /\ w.mode \in Modes /\ OverBefore(w)
  BY DEF Typed, OthersTyped, LateIsOver
<1>2. UNCHANGED <<plan, task>>
  BY DEF LateRelease, course, window
<1>3. CASE row' = row
  BY <1>2, <1>3, OtherCharge
<1>4. CASE ReleasesRow(w.owner, w.key, w.mode)
  <2>1. Calling(k)' = Calling(k)
    BY <1>2 DEF Calling
  <2>2. k = w.key => w.owner \notin Calling(k)
    BY <1>1 DEF OverBefore, Calling
  <2> QED
    BY <1>1, <1>4, <2>1, <2>2, ReleaseCharge
<1> QED
  BY <1>3, <1>4 DEF LateRelease, Apply, Owned, ReleasesRow

LEMMA EveryCharge ==
    ASSUME Typed, LateIsOver, [Next]_vars, NEW k \in Keys
    PROVE  ChargeMoves(k)
<1>1. ASSUME NEW p \in Procs, Finish(p) \/ Crash(p) PROVE ChargeMoves(k)
  BY <1>1, AfreshCharge DEF Finish, Crash, rows
<1>2. ASSUME NEW p \in Procs, NEW c, NEW s, NEW n, Start(p, c, s, n) PROVE ChargeMoves(k)
  BY <1>2, AfreshCharge DEF Start, rows
<1>3. ASSUME NEW p \in Procs, GeneratePending(p) PROVE ChargeMoves(k)
  <2>1. \E S \in SUBSET Keys : GeneratesRows(S)
    BY <1>3, GeneratePendingRows, WindowTyped DEF Typed
  <2> QED
    BY <1>3, <2>1, OtherCharge DEF GeneratePending
<1>4. ASSUME NEW p \in Procs, Reclaim(p) PROVE ChargeMoves(k)
  <2>1. Reclaimable(p) \in SUBSET Keys /\ ReclaimsRows(Reclaimable(p))
    BY <1>4 DEF Reclaim, Reclaimable, InPlace, PutBack, ReclaimsRows
  <2> QED
    BY <1>4, <2>1, OtherCharge DEF Reclaim, window
<1>5. ASSUME NEW p \in Procs, TerminalizeExhausted(p) PROVE ChargeMoves(k)
  <2>1. Exhausted(p) \in SUBSET Keys /\ SweepsRows(Exhausted(p))
    BY <1>5 DEF TerminalizeExhausted, Exhausted, InPlace, SweepsRows
  <2> QED
    BY <1>5, <2>1, OtherCharge DEF TerminalizeExhausted, window
<1>6. ASSUME NEW j \in Keys, Expire(j) PROVE ChargeMoves(k)
  BY <1>6, OtherCharge DEF Expire, ExpiresRow, course, window
<1>7. CASE row' = row /\ UNCHANGED <<plan, task>>
  BY <1>7, OtherCharge
<1> QED
  BY <1>1, <1>2, <1>3, <1>4, <1>5, <1>6, <1>7, ClaimCharge, TaskCharge, LateCharge
  DEF Next, RunStep, PurgeRaw, StorageFails, Skip, BudgetExhausted, WindowOver,
      NewArticle, LateLost, vars, rows, course, window

\* A run that has left a release behind does not claim again.
LEMMA LateStays ==
    ASSUME Typed, LateIsOver, [Next]_vars
    PROVE  LateIsOver'
<1>0. \A w \in late : w.owner \in Procs /\ w.key \in Keys /\ w.key[1] \in Configs /\ w.key[2] \in Articles
  BY DEF Typed, OthersTyped, Keys
<1>1. ASSUME NEW w, NEW p \in Procs, w.owner = p, OverBefore(w), plan'[p] = plan[p],
             task'[p] = task[p], pc'[p] = pc[p], stop'[p] = stop[p]
      PROVE  OverBefore(w)'
  BY <1>1 DEF OverBefore
<1>2. ASSUME NEW p \in Procs, NEW a \in Articles, TaskEnds(p, a), pc[p] = "window"
      PROVE  LateIsOver'
  <2>1. PICK why \in Stops :
          /\ Ended(p, a, why)
          /\ \/ late' = late
             \/ why > 0 /\ \E mode \in Modes : late' = late \cup {Unseen(p, Key(p, a), mode)}
    BY <1>2 DEF TaskEnds
  <2>2. /\ plan' = plan /\ pc' = pc /\ stop' = [stop EXCEPT ![p] = Larger(stop[p], why)]
        /\ task' = [task EXCEPT ![p] = [task[p] EXCEPT ![a] = "none"]]
    BY <2>1 DEF Ended, Becomes, course
  <2>3. stop'[p] = Larger(stop[p], why) /\ stop'[p] >= stop[p] /\ stop'[p] >= why /\ stop[p] \in Nat
        /\ stop'[p] \in Nat /\ why \in Nat
    <3>1. stop'[p] = Larger(stop[p], why) /\ stop[p] \in 0..3 /\ why \in 0..3
      BY <2>2 DEF Typed, RunsTyped, Stops
    <3> QED
      BY <3>1 DEF Larger
  <2>4. task'[p] = [task[p] EXCEPT ![a] = "none"] /\ task'[p][a] = "none"
    BY <2>2 DEF Typed, RunsTyped, Tasks
  <2>5. ASSUME NEW w \in late PROVE OverBefore(w)'
    <3>1. OverBefore(w) /\ w.owner \in Procs /\ w.key[2] \in Articles
      BY <1>0 DEF LateIsOver
    <3>2. CASE w.owner # p
      BY <1>1, <2>2, <3>1, <3>2 DEF Typed, RunsTyped
    <3>3. CASE w.owner = p
      <4>1. stop[p] > 0 => stop'[p] > 0
        BY <2>3
      <4>2. task[p][w.key[2]] = "none" => task'[p][w.key[2]] = "none"
        BY <2>4, <3>1 DEF Typed, RunsTyped, Tasks
      <4> QED
        BY <2>2, <3>1, <3>3, <4>1, <4>2 DEF OverBefore
    <3> QED
      BY <3>2, <3>3
  <2>6. ASSUME NEW mode \in Modes, NEW w, w = Unseen(p, Key(p, a), mode), why > 0
        PROVE  OverBefore(w)'
    <3>1. w.owner = p /\ w.key = Key(p, a) /\ w.key[2] = a
      BY <2>6, UnseenTyped DEF Key
    <3>2. stop'[p] > 0
      BY <2>3, <2>6
    <3> QED
      BY <1>2, <2>2, <2>4, <3>1, <3>2 DEF OverBefore
  <2> QED
    BY <2>1, <2>5, <2>6 DEF LateIsOver
<1>3. ASSUME NEW p \in Procs, NEW a \in Articles, TaskStep(p, a) PROVE LateIsOver'
  <2>1. CASE Call(p, a) /\ task[p][a] = "claimed"
    <3> SUFFICES ASSUME NEW w \in late PROVE OverBefore(w)'
      BY <2>1 DEF LateIsOver, Call
    <3>1. OverBefore(w) /\ w.owner \in Procs /\ w.key[2] \in Articles
      BY <1>0 DEF LateIsOver
    <3>2. /\ plan' = plan /\ pc' = pc /\ stop' = stop
          /\ task' = [task EXCEPT ![p] = [task[p] EXCEPT ![a] = "sent"]]
      BY <2>1 DEF Call, Becomes, course
    <3>3. task[w.owner][w.key[2]] = "none" => task'[w.owner][w.key[2]] = "none"
      BY <2>1, <3>1, <3>2 DEF Typed, RunsTyped, Tasks
    <3> QED
      BY <3>1, <3>2, <3>3 DEF OverBefore
  <2> QED
    BY <1>2, <1>3, <2>1, TaskMoves
<1>4. ASSUME NEW p \in Procs, late' \subseteq late,
             \A q \in Procs \ {p} : /\ plan'[q] = plan[q] /\ task'[q] = task[q]
                                    /\ pc'[q] = pc[q] /\ stop'[q] = stop[q],
             \A w \in late : w.owner = p => OverBefore(w)'
      PROVE  LateIsOver'
  BY <1>0, <1>1, <1>4 DEF LateIsOver
<1>5. ASSUME NEW p \in Procs, Finish(p) \/ Crash(p) PROVE LateIsOver'
  <2>1. /\ late' = late /\ pc' = [pc EXCEPT ![p] = "off"] /\ plan' = [plan EXCEPT ![p] = NoPlan]
        /\ task' = [task EXCEPT ![p] = Idle] /\ stop' = [stop EXCEPT ![p] = 0]
    BY <1>5 DEF Finish, Crash, Afresh, Goto
  <2>2. \A w \in late : w.owner = p => OverBefore(w)'
    BY <1>0, <2>1, IdleTyped DEF OverBefore, Typed, RunsTyped
  <2> QED
    BY <1>4, <2>1, <2>2 DEF Typed, RunsTyped
<1>6. ASSUME NEW p \in Procs, NEW c, NEW s, NEW n, Start(p, c, s, n) PROVE LateIsOver'
  BY <1>4, <1>6 DEF Start, Afresh, Goto, Typed, RunsTyped
<1>7. ASSUME NEW p \in Procs, late' = late, pc[p] \notin {"off", "end", "window"},
             NEW at, Goto(p, at), \A q \in Procs \ {p} : stop'[q] = stop[q] /\ task'[q] = task[q],
             plan' = plan
      PROVE  LateIsOver'
  <2>1. \A w \in late : w.owner # p
    BY <1>7 DEF LateIsOver, OverBefore
  <2> QED
    BY <1>4, <1>7, <2>1 DEF Goto, Typed, RunsTyped
<1>8. ASSUME NEW p \in Procs, Onward(p) PROVE Goto(p, "claim") \/ Goto(p, "end")
  BY <1>8 DEF Onward
<1>9. ASSUME NEW p \in Procs, \/ PurgeRaw(p) \/ Reclaim(p) \/ TerminalizeExhausted(p)
                              \/ StorageFails(p) \/ Skip(p) \/ BudgetExhausted(p)
      PROVE  LateIsOver'
  <2>1. /\ late' = late /\ plan' = plan /\ task' = task /\ pc[p] \notin {"off", "end", "window"}
        /\ \A q \in Procs \ {p} : stop'[q] = stop[q]
    BY <1>9 DEF PurgeRaw, Reclaim, TerminalizeExhausted, StorageFails, Skip, BudgetExhausted,
                window, Typed, RunsTyped
  <2>2. \E at : Goto(p, at)
    BY <1>8, <1>9 DEF PurgeRaw, Reclaim, TerminalizeExhausted, StorageFails, Skip, BudgetExhausted
  <2> QED
    BY <1>7, <2>1, <2>2
<1>10. ASSUME NEW p \in Procs, NEW L, ClaimWindow(p, L) PROVE LateIsOver'
  <2>1. /\ late' = late /\ plan' = plan /\ stop' = stop /\ pc[p] \notin {"off", "end", "window"}
        /\ \A q \in Procs \ {p} : task'[q] = task[q]
    BY <1>10 DEF ClaimWindow, Typed, RunsTyped
  <2>2. \E at : Goto(p, at)
    BY <1>8, <1>10 DEF ClaimWindow
  <2> QED
    BY <1>7, <2>1, <2>2
<1>11. ASSUME NEW p \in Procs, GeneratePending(p) PROVE LateIsOver'
  <2>1. late' = late /\ plan' = plan /\ stop' = stop /\ task' = task /\ pc[p] = "generate"
    BY <1>11 DEF GeneratePending
  <2>2. \E at : Goto(p, at)
    BY <1>8, <1>11 DEF GeneratePending
  <2> QED
    BY <1>7, <2>1, <2>2
<1>12. ASSUME NEW p \in Procs, WindowOver(p) PROVE LateIsOver'
  <2>1. /\ late' = late /\ plan' = plan /\ stop' = stop /\ task' = task /\ task[p] = Idle
        /\ pc[p] = "window" /\ stop[p] \in Stops
    BY <1>12 DEF WindowOver, window, Typed, RunsTyped
  <2>2. CASE stop[p] > 0 /\ Goto(p, "end")
    <3>1. pc'[p] = "end" /\ \A q \in Procs \ {p} : pc'[q] = pc[q]
      BY <2>2 DEF Goto, Typed, RunsTyped
    <3>2. \A w \in late : w.owner = p => OverBefore(w)'
      BY <1>0, <2>1, <3>1, IdleTyped DEF OverBefore
    <3> QED
      BY <1>4, <2>1, <3>1, <3>2
  <2>3. CASE stop[p] = 0 /\ Onward(p)
    <3>1. \A w \in late : w.owner # p
      BY <2>1, <2>3 DEF LateIsOver, OverBefore
    <3>2. \A q \in Procs \ {p} : pc'[q] = pc[q]
      BY <1>8, <2>3 DEF Goto, Typed, RunsTyped
    <3> QED
      BY <1>4, <2>1, <3>1, <3>2
  <2> QED
    BY <1>12, <2>2, <2>3 DEF WindowOver
<1>13. CASE late' \subseteq late /\ UNCHANGED <<pc, plan, stop, task>>
  BY <1>13 DEF LateIsOver, OverBefore
<1>14. ASSUME NEW w \in late, LateRelease(w) \/ LateLost(w) PROVE LateIsOver'
  BY <1>13, <1>14 DEF LateRelease, LateLost, course, window
<1> QED
  BY <1>3, <1>5, <1>6, <1>9, <1>10, <1>11, <1>12, <1>13, <1>14
  DEF Next, RunStep, NewArticle, Expire, vars, course, window

\* The inductive invariant of the charges.
LEMMA AlwaysCharged == Spec => [](AllCharged /\ LateIsOver)
<1>1. Init => AllCharged /\ LateIsOver
  <2> SUFFICES ASSUME Init PROVE AllCharged
    BY DEF Init, LateIsOver
  <2>1. \A k \in Keys : Charged(k) = {} /\ row[k].tries = 0
    BY PhaseOf, DecisionAssumption DEF Init, Charged, Owner, Calling, Idle, Keys
  <2> QED
    BY <2>1, FS_EmptySet DEF AllCharged
<1>2. Typed /\ Typed' /\ AllCharged /\ LateIsOver /\ [Next]_vars => (AllCharged /\ LateIsOver)'
  BY EveryCharge, ChargeKept, LateStays
<1> QED
  BY <1>1, <1>2, AlwaysTyped, PTL DEF Spec

\* However often leases expire, rows go back with or without their attempt, and late
\* releases arrive, a row has at most attempt_count calls in the air: every call was
\* charged by a claim, and only the end of its task takes the charge back.
THEOREM DecisionCallsAreCharged == Spec => []CallsAreCharged
<1>1. Typed /\ AllCharged => CallsAreCharged
  <2> SUFFICES ASSUME Typed, AllCharged, NEW k \in Keys
               PROVE  Cardinality({p \in Procs : plan[p].cfg = k[1] /\ task[p][k[2]] = "sent"})
                          <= row[k].tries
    BY DEF CallsAreCharged
  <2> DEFINE T == {p \in Procs : plan[p].cfg = k[1] /\ task[p][k[2]] = "sent"}
  <2>1. T \subseteq Charged(k)
    BY DEF Charged, Calling
  <2>2. IsFiniteSet(Charged(k)) /\ Cardinality(Charged(k)) <= row[k].tries /\ row[k].tries \in Nat
    BY DecisionAssumption DEF AllCharged, Typed, RowsTyped, Recs
  <2>3. /\ Cardinality(T) <= Cardinality(Charged(k)) /\ Cardinality(T) \in Nat
        /\ Cardinality(Charged(k)) \in Nat
    BY <2>1, <2>2, FS_Subset, FS_CardinalityType
  <2> QED
    BY <2>2, <2>3
<1> QED
  BY <1>1, AlwaysTyped, AlwaysCharged, PTL

-----------------------------------------------------------------------------
(* The budget of a run.  In the first round, what has been spent before the *)
(* n-th category is at most n - 1 full windows, and the command has checked *)
(* that there is room for as many windows as there are categories.          *)

Unsent(p) == {a \in Articles : task[p][a] = "claimed"}

Spent(p) == calls[p] + Cardinality(Unsent(p))

Room(n) == Concurrency * n

FirstRound(p) ==
    /\ plan[p].allowed >= Room(Len(plan[p].cats))
    /\ pc[p] \in {"purge", "reclaim", "sweep"} => calls[p] = 0
    /\ turn[p].first =>
          /\ pc[p] \in {"claim", "generate", "claim again"}
                => calls[p] <= Room(turn[p].place - 1)
          /\ pc[p] = "window" => Spent(p) <= Room(turn[p].place)

InBudget(p) ==
    /\ Spent(p) <= plan[p].allowed
    /\ pc[p] # "off" /\ Len(plan[p].cats) > 1 => FirstRound(p)

AllInBudget == \A p \in Procs : InBudget(p)

LEMMA RoomFor ==
    \A m \in Nat : /\ Room(m) \in Nat /\ Room(m + 1) = Room(m) + Concurrency
                   /\ \A n \in Nat : m <= n => Room(m) <= Room(n)
<1>0. Concurrency \in Nat
  BY DecisionAssumption
<1>1. \A i, j \in Nat : Room(i + j) = Room(i) + Room(j) /\ Room(i) \in Nat
  BY <1>0 DEF Room
<1>2. ASSUME NEW m \in Nat, NEW n \in Nat, m <= n PROVE Room(m) <= Room(n)
  <2>1. n - m \in Nat /\ n = m + (n - m)
    BY <1>2
  <2>2. Room(m + (n - m)) = Room(m) + Room(n - m) /\ Room(n - m) \in Nat /\ Room(m) \in Nat
    BY <1>1, <2>1
  <2> QED
    BY <2>1, <2>2
<1>3. Room(1) = Concurrency
  BY <1>0 DEF Room
<1> QED
  BY <1>1, <1>2, <1>3

\* The first n of a set of articles are at most n.
LEMMA FirstOfBound ==
    ASSUME NEW S \in SUBSET Articles, NEW n \in Nat
    PROVE  /\ IsFiniteSet(FirstOf(n, S)) /\ Cardinality(FirstOf(n, S)) \in Nat
           /\ Cardinality(FirstOf(n, S)) <= n
<1> DEFINE Below(a) == {b \in S : b < a}
           F == FirstOf(n, S)
           rank == [a \in F |-> Cardinality(Below(a))]
<1>1. IsFiniteSet(S) /\ S \subseteq Nat /\ F \subseteq S
  BY FS_Subset, DecisionAssumption DEF FirstOf
<1>2. \A a : IsFiniteSet(Below(a)) /\ Cardinality(Below(a)) \in Nat
  <2> TAKE a
  <2>1. Below(a) \in SUBSET S
    OBVIOUS
  <2> HIDE DEF Below
  <2> QED
    BY <1>1, <2>1, FS_Subset, FS_CardinalityType
<1>3. ASSUME NEW a \in S, NEW b \in S, a < b
      PROVE  Cardinality(Below(a)) < Cardinality(Below(b))
  <2>1. Below(a) \in SUBSET Below(b) /\ a \in Below(b) /\ a \notin Below(a)
    <3>1. a \in Nat /\ b \in Nat
      BY <1>1
    <3>2. ASSUME NEW x \in S, x < a PROVE x < b
      BY <1>1, <1>3, <3>1, <3>2
    <3>3. ~(a < a)
      BY <3>1
    <3> QED
      BY <1>3, <3>2, <3>3
  <2> HIDE DEF Below
  <2>2. /\ Cardinality(Below(a)) <= Cardinality(Below(b))
        /\ Cardinality(Below(a)) # Cardinality(Below(b))
    BY <1>2, <2>1, FS_Subset
  <2> QED
    BY <1>2, <2>2
<1>4. ASSUME NEW a \in F PROVE Cardinality(Below(a)) \in 0..(n - 1)
  <2>1. Cardinality(Below(a)) < n
    BY DEF FirstOf
  <2> HIDE DEF Below
  <2> QED
    BY <1>2, <2>1
<1>5. rank \in Injection(F, 0..(n - 1))
  <2>1. rank \in [F -> 0..(n - 1)]
    BY <1>4
  <2>2. ASSUME NEW a \in F, NEW b \in F, rank[a] = rank[b] PROVE a = b
    <3>1. a \in S /\ b \in S /\ a \in Nat /\ b \in Nat
      BY <1>1
    <3>2. Cardinality(Below(a)) = Cardinality(Below(b))
      BY <2>2
    <3> HIDE DEF Below
    <3>3. a < b \/ b < a \/ a = b
      BY <3>1
    <3> QED
      BY <1>2, <1>3, <3>1, <3>2, <3>3
  <2> HIDE DEF rank
  <2> QED
    BY <2>1, <2>2 DEF Injection, IsInjective
<1>6. IsFiniteSet(0..(n - 1)) /\ Cardinality(0..(n - 1)) = n
  BY FS_Interval
<1> HIDE DEF rank, F
<1>7. IsFiniteSet(F) /\ Cardinality(F) <= n
  BY <1>5, <1>6, FS_Injection
<1>8. Cardinality(F) \in Nat
  BY <1>7, FS_CardinalityType
<1> QED
  BY <1>7, <1>8 DEF F

LEMMA Quantities ==
    ASSUME RunsTyped, NEW p \in Procs
    PROVE  /\ calls[p] \in Nat /\ plan[p].allowed \in Nat /\ Concurrency \in Nat
           /\ IsFiniteSet(Unsent(p)) /\ Cardinality(Unsent(p)) \in Nat /\ Spent(p) \in Nat
           /\ turn[p].place \in Nat \ {0} /\ Len(plan[p].cats) \in Nat
           /\ turn[p].place <= Len(plan[p].cats)
           /\ Room(turn[p].place) \in Nat /\ Room(turn[p].place - 1) \in Nat
           /\ Room(turn[p].place) = Room(turn[p].place - 1) + Concurrency
<1>1. calls[p] \in Nat /\ plan[p].allowed \in Nat /\ Concurrency \in Nat
  BY DecisionAssumption DEF RunsTyped, PlanSet
<1>2. IsFiniteSet(Unsent(p)) /\ Cardinality(Unsent(p)) \in Nat
  <2>1. Unsent(p) \in SUBSET Articles /\ IsFiniteSet(Articles)
    BY DecisionAssumption DEF Unsent
  <2> QED
    BY <2>1, FS_Subset, FS_CardinalityType
<1>3. /\ turn[p].place \in Nat \ {0} /\ Len(plan[p].cats) \in Nat
      /\ turn[p].place <= Len(plan[p].cats)
  BY TurnOf
<1>4. turn[p].place - 1 \in Nat /\ turn[p].place = (turn[p].place - 1) + 1
  BY <1>3
<1>5. /\ Room(turn[p].place - 1) \in Nat
      /\ Room((turn[p].place - 1) + 1) = Room(turn[p].place - 1) + Concurrency
  BY <1>4, RoomFor
<1>6. Spent(p) \in Nat
  BY <1>1, <1>2 DEF Spent
<1> QED
  BY <1>1, <1>2, <1>3, <1>4, <1>5, <1>6, RoomFor

LEMMA TurnIs ==
    ASSUME RunsTyped, NEW p \in Procs, NEW n \in Nat, NEW f \in BOOLEAN, NEW m \in BOOLEAN,
           turn' = [turn EXCEPT ![p] = Turn(n, f, m)]
    PROVE  turn'[p].place = n /\ turn'[p].first = f
BY TurnTyped DEF RunsTyped

LEMMA UnsentSame ==
    ASSUME NEW p \in Procs, task'[p] = task[p], calls'[p] = calls[p]
    PROVE  Unsent(p)' = Unsent(p) /\ Spent(p)' = Spent(p)
<1>1. Unsent(p)' = Unsent(p)
  BY DEF Unsent
<1> QED
  BY <1>1 DEF Spent

\* What the other runs do changes nothing.
LEMMA BudgetSame ==
    ASSUME NEW p \in Procs, InBudget(p), pc'[p] = pc[p], plan'[p] = plan[p], turn'[p] = turn[p],
           calls'[p] = calls[p], task'[p] = task[p]
    PROVE  InBudget(p)'
<1>1. Spent(p)' = Spent(p)
  BY UnsentSame
<1> QED
  BY <1>1 DEF InBudget, FirstRound

\* A step of the run that calls nothing and opens no window.
LEMMA BudgetMoves ==
    ASSUME NEW p \in Procs, InBudget(p), plan'[p] = plan[p], calls'[p] = calls[p],
           task'[p] = task[p], pc[p] # "off",
           Len(plan[p].cats) > 1 /\ FirstRound(p) =>
              \/ pc'[p] = "end"
              \/ pc'[p] \in {"reclaim", "sweep"} /\ calls[p] = 0
              \/ /\ pc'[p] \in {"claim", "generate", "claim again"}
                 /\ turn'[p].first => calls[p] <= Room(turn'[p].place - 1)
    PROVE  InBudget(p)'
<1>1. Spent(p)' = Spent(p)
  BY UnsentSame
<1>2. Spent(p)' <= plan'[p].allowed
  BY <1>1 DEF InBudget
<1>3. ASSUME Len(plan[p].cats) > 1 PROVE FirstRound(p)'
  <2>1. FirstRound(p)
    BY <1>3 DEF InBudget
  <2> QED
    BY <1>1, <1>3, <2>1 DEF FirstRound
<1> QED
  BY <1>2, <1>3 DEF InBudget

InRound(p) == pc[p] \in {"claim", "generate", "claim again", "window"}

LEMMA OnwardBudget ==
    ASSUME RunsTyped, NEW p \in Procs, InBudget(p), Onward(p),
           UNCHANGED <<plan, calls, task>>,
           InRound(p)
    PROVE  InBudget(p)'
<1>1. ASSUME Len(plan[p].cats) > 1, FirstRound(p), turn[p].first
      PROVE  calls[p] <= Room(turn[p].place)
  <2>0. /\ calls[p] \in Nat /\ Spent(p) \in Nat /\ Room(turn[p].place) \in Nat
        /\ Room(turn[p].place - 1) \in Nat /\ Spent(p) >= calls[p]
        /\ Room(turn[p].place) >= Room(turn[p].place - 1)
    BY Quantities DEF Spent
  <2>1. CASE pc[p] \in {"claim", "generate", "claim again"}
    <3>1. calls[p] <= Room(turn[p].place - 1)
      BY <1>1, <2>1 DEF FirstRound
    <3> QED
      BY <2>0, <3>1
  <2>2. CASE pc[p] = "window"
    <3>1. Spent(p) <= Room(turn[p].place) /\ Spent(p) >= calls[p]
      BY <1>1, <2>2, Quantities DEF FirstRound, Spent
    <3> QED
      BY <3>1, Quantities
  <2> QED
    BY <2>1, <2>2 DEF InRound
<1>2. CASE /\ turn[p].place < Len(plan[p].cats) /\ Goto(p, "claim")
           /\ turn' = [turn EXCEPT ![p] = Turn(turn[p].place + 1, turn[p].first, turn[p].moved)]
  <2>1. pc'[p] = "claim"
    BY <1>2 DEF Goto, RunsTyped
  <2>2. turn'[p].place = turn[p].place + 1 /\ turn'[p].first = turn[p].first
    <3>1. turn[p].place + 1 \in Nat /\ turn[p].first \in BOOLEAN /\ turn[p].moved \in BOOLEAN
      BY Quantities, TurnOf
    <3> QED
      BY <1>2, <3>1, TurnIs
  <2>3. turn'[p].place - 1 = turn[p].place
    BY <2>2, Quantities
  <2> QED
    BY <1>1, <2>1, <2>2, <2>3, BudgetMoves DEF InRound
<1>3. CASE Goto(p, "claim") /\ turn' = [turn EXCEPT ![p] = Turn(1, FALSE, FALSE)]
  <2>1. pc'[p] = "claim"
    BY <1>3 DEF Goto, RunsTyped
  <2>2. ~turn'[p].first
    BY <1>3, TurnIs
  <2> QED
    BY <2>1, <2>2, BudgetMoves DEF InRound
<1>4. CASE Goto(p, "end")
  <2>1. pc'[p] = "end"
    BY <1>4 DEF Goto, RunsTyped
  <2> QED
    BY <2>1, BudgetMoves DEF InRound
<1> QED
  BY <1>2, <1>3, <1>4 DEF Onward

LEMMA AfreshBudget ==
    ASSUME RunsTyped, NEW p \in Procs, NEW at, NEW s \in PlanSet, Afresh(p, at, s),
           at = "off" \/ (at = "purge" /\ (Len(s.cats) > 1 => s.allowed >= Room(Len(s.cats))))
    PROVE  InBudget(p)'
<1>1. /\ pc'[p] = at /\ plan'[p] = s /\ calls'[p] = 0 /\ task'[p] = Idle
  BY DEF Afresh, Goto, RunsTyped
<1>2. Unsent(p)' = {}
  BY <1>1, IdleTyped DEF Unsent
<1>3. Spent(p)' = 0 /\ s.allowed \in Nat
  BY <1>1, <1>2, FS_EmptySet DEF Spent, PlanSet
<1>4. Spent(p)' <= plan'[p].allowed
  BY <1>1, <1>3
<1>5. CASE at = "off"
  BY <1>1, <1>4, <1>5 DEF InBudget
<1>6. CASE at = "purge" /\ (Len(s.cats) > 1 => s.allowed >= Room(Len(s.cats)))
  BY <1>1, <1>4, <1>6 DEF InBudget, FirstRound
<1> QED
  BY <1>5, <1>6

LEMMA CallBudget ==
    ASSUME RunsTyped, NEW p \in Procs, NEW a \in Articles, InBudget(p), Call(p, a),
           task[p][a] = "claimed"
    PROVE  InBudget(p)'
<1>1. /\ UNCHANGED course /\ calls' = [calls EXCEPT ![p] = calls[p] + 1]
      /\ task' = [task EXCEPT ![p] = [task[p] EXCEPT ![a] = "sent"]]
  BY DEF Call, Becomes
<1>2. Unsent(p)' = Unsent(p) \ {a} /\ a \in Unsent(p)
  BY <1>1 DEF Unsent, RunsTyped, Tasks
<1>3. Cardinality(Unsent(p)') = Cardinality(Unsent(p)) - 1
  BY <1>2, Quantities, FS_RemoveElement
<1>4. calls'[p] = calls[p] + 1
  BY <1>1 DEF RunsTyped
<1>5. Spent(p)' = Spent(p)
  BY <1>3, <1>4, Quantities DEF Spent
<1>6. pc[p] = "window"
  BY DEF Call, Open
<1> QED
  BY <1>1, <1>5, <1>6 DEF InBudget, FirstRound, course

LEMMA EndBudget ==
    ASSUME RunsTyped, NEW p \in Procs, NEW a \in Articles, InBudget(p), TaskEnds(p, a),
           pc[p] = "window"
    PROVE  InBudget(p)'
<1>1. /\ UNCHANGED course /\ UNCHANGED calls
      /\ task' = [task EXCEPT ![p] = [task[p] EXCEPT ![a] = "none"]]
  BY DEF TaskEnds, Ended, Becomes
<1>2. Unsent(p)' \in SUBSET Unsent(p)
  BY <1>1 DEF Unsent, RunsTyped, Tasks
<1>3. /\ Cardinality(Unsent(p)') <= Cardinality(Unsent(p)) /\ Cardinality(Unsent(p)') \in Nat
  BY <1>2, Quantities, FS_Subset, FS_CardinalityType
<1>4. Spent(p)' <= Spent(p) /\ Spent(p)' \in Nat
  <2>1. Spent(p)' = calls[p] + Cardinality(Unsent(p)')
    BY <1>1 DEF Spent
  <2> QED
    BY <1>3, <2>1, Quantities DEF Spent
<1>5. Spent(p)' <= plan[p].allowed
  BY <1>4, Quantities DEF InBudget
<1>6. ASSUME Len(plan[p].cats) > 1 PROVE FirstRound(p)'
  <2>1. FirstRound(p)
    BY <1>6 DEF InBudget
  <2>2. turn[p].first => Spent(p)' <= Room(turn[p].place)
    BY <1>4, <2>1, Quantities DEF FirstRound
  <2> QED
    BY <1>1, <2>1, <2>2 DEF FirstRound, course
<1> QED
  BY <1>1, <1>5, <1>6 DEF InBudget, course

LEMMA ClaimBudget ==
    ASSUME RunsTyped, NEW p \in Procs, NEW L, InBudget(p), ClaimWindow(p, L)
    PROVE  InBudget(p)'
<1> DEFINE W == FirstOf(Window(p), Claimable(p) \ L)
<1>1. UNCHANGED <<plan, calls>> /\ pc[p] \in {"claim", "claim again"}
  BY DEF ClaimWindow
<1>2. CASE /\ Goto(p, "window")
           /\ turn' = [turn EXCEPT ![p] = Turn(turn[p].place, turn[p].first, TRUE)]
           /\ task' = [task EXCEPT ![p] = [a \in Articles |-> IF a \in W THEN "claimed" ELSE "none"]]
  <2>1. Budget(p) \in Nat /\ Budget(p) = plan[p].allowed - calls[p]
    <3>1. calls[p] <= Spent(p) /\ Spent(p) <= plan[p].allowed
      BY Quantities DEF InBudget, Spent
    <3> QED
      BY <3>1, Quantities DEF Budget
  <2>2. Window(p) \in Nat /\ Window(p) <= Budget(p) /\ Window(p) <= Concurrency
    BY <2>1, Quantities DEF Window
  <2>3. Claimable(p) \ L \in SUBSET Articles
    BY DEF Claimable, InPlace, Keys
  <2>4. Cardinality(W) \in Nat /\ Cardinality(W) <= Window(p) /\ W \subseteq Articles
    BY <2>2, <2>3, FirstOfBound DEF FirstOf
  <2>5. Unsent(p)' = W
    BY <1>2, <2>4 DEF Unsent, RunsTyped
  <2>6. Spent(p)' = calls[p] + Cardinality(W)
    BY <1>1, <2>5 DEF Spent
  <2> HIDE DEF W
  <2>7. Spent(p)' <= plan[p].allowed
    BY <2>1, <2>2, <2>4, <2>6, Quantities
  <2>8. pc'[p] = "window" /\ turn'[p].place = turn[p].place /\ turn'[p].first = turn[p].first
    <3>1. turn[p].place \in Nat /\ turn[p].first \in BOOLEAN
      BY Quantities, TurnOf
    <3>2. pc'[p] = "window"
      BY <1>2 DEF Goto, RunsTyped
    <3> QED
      BY <1>2, <3>1, <3>2, TurnIs
  <2>9. ASSUME Len(plan[p].cats) > 1 PROVE FirstRound(p)'
    <3>1. FirstRound(p)
      BY <1>1, <2>9 DEF InBudget
    <3>2. turn[p].first => Spent(p)' <= Room(turn[p].place)
      <4>1. turn[p].first => calls[p] <= Room(turn[p].place - 1)
        BY <1>1, <3>1 DEF FirstRound
      <4> QED
        BY <4>1, <2>2, <2>4, <2>6, Quantities
    <3> QED
      BY <1>1, <2>8, <3>1, <3>2 DEF FirstRound
  <2> QED
    BY <1>1, <2>7, <2>9 DEF InBudget
<1>3. CASE Goto(p, "generate") /\ UNCHANGED <<turn, task>>
  <2>1. pc'[p] = "generate"
    BY <1>3 DEF Goto, RunsTyped
  <2> QED
    BY <1>1, <1>3, <2>1, BudgetMoves DEF FirstRound
<1>4. CASE Onward(p) /\ UNCHANGED task
  BY <1>1, <1>4, OnwardBudget DEF InRound
<1> QED
  BY <1>2, <1>3, <1>4 DEF ClaimWindow

LEMMA StartBudget ==
    ASSUME RunsTyped, NEW p \in Procs, NEW c \in Configs, NEW s \in Plans, NEW n \in Budgets,
           Start(p, c, s, n)
    PROVE  InBudget(p)'
<1>1. n \in Nat
  BY DecisionAssumption
<1>2. PICK plan1 \in PlanSet : plan1 = Plan(c, s, n) /\ plan1.cats = s /\ plan1.allowed = n
  BY <1>1, PlanTyped
<1>3. Afresh(p, "purge", plan1) /\ (Len(s) > 1 => n >= Room(Len(s)))
  BY <1>2 DEF Start, Room
<1> QED
  BY <1>2, <1>3, AfreshBudget

LEMMA SweepBudget ==
    ASSUME RunsTyped, NEW p \in Procs, InBudget(p), TerminalizeExhausted(p)
    PROVE  InBudget(p)'
<1>1. pc[p] = "sweep" /\ UNCHANGED <<plan, calls, task>>
  BY DEF TerminalizeExhausted, window
<1>2. FirstRound(p) => calls[p] = 0
  BY <1>1 DEF FirstRound
<1>3. CASE Goto(p, "reclaim")
  <2>1. pc'[p] = "reclaim"
    BY <1>3 DEF Goto, RunsTyped
  <2> QED
    BY <1>1, <1>2, <2>1, BudgetMoves
<1>4. CASE Goto(p, "claim") /\ turn' = [turn EXCEPT ![p] = Turn(1, TRUE, FALSE)]
  <2>1. pc'[p] = "claim" /\ turn'[p].place = 1
    BY <1>4, TurnIs DEF Goto, RunsTyped
  <2>2. Room(0) \in Nat /\ turn'[p].place - 1 = 0
    BY <2>1, RoomFor
  <2>3. calls[p] = 0 => calls[p] <= Room(turn'[p].place - 1)
    BY <2>2
  <2> QED
    BY <1>1, <1>2, <2>1, <2>3, BudgetMoves
<1> QED
  BY <1>3, <1>4 DEF TerminalizeExhausted

\* A statement of the run.
LEMMA StatementBudget ==
    ASSUME RunsTyped, NEW p \in Procs, InBudget(p),
           \/ PurgeRaw(p) \/ Reclaim(p) \/ StorageFails(p) \/ Skip(p) \/ BudgetExhausted(p)
           \/ GeneratePending(p) \/ WindowOver(p)
    PROVE  InBudget(p)'
<1>1. UNCHANGED <<plan, calls, task>> /\ pc[p] # "off"
  BY DEF PurgeRaw, Reclaim, StorageFails, Skip, BudgetExhausted, GeneratePending, WindowOver, window
<1>2. CASE Goto(p, "end")
  <2>1. pc'[p] = "end"
    BY <1>2 DEF Goto, RunsTyped
  <2> QED
    BY <1>1, <2>1, BudgetMoves
<1>3. CASE pc[p] \in {"purge", "reclaim"} /\ (Goto(p, "reclaim") \/ Goto(p, "sweep"))
  <2>1. pc'[p] \in {"reclaim", "sweep"} /\ (FirstRound(p) => calls[p] = 0)
    BY <1>3 DEF Goto, RunsTyped, FirstRound
  <2> QED
    BY <1>1, <2>1, BudgetMoves
<1>4. CASE pc[p] = "generate" /\ Goto(p, "claim again") /\ UNCHANGED turn
  <2>1. pc'[p] = "claim again"
    BY <1>4 DEF Goto, RunsTyped
  <2> QED
    BY <1>1, <1>4, <2>1, BudgetMoves DEF FirstRound
<1>5. CASE Onward(p) /\ InRound(p)
  BY <1>1, <1>5, OnwardBudget
<1> QED
  BY <1>2, <1>3, <1>4, <1>5
  DEF PurgeRaw, Reclaim, StorageFails, Skip, BudgetExhausted, GeneratePending, WindowOver, InRound

LEMMA TaskBudget ==
    ASSUME RunsTyped, NEW p \in Procs, NEW a \in Articles, InBudget(p), TaskStep(p, a)
    PROVE  InBudget(p)'
BY TaskMoves, CallBudget, EndBudget

\* The step of a run leaves the others where they are.
Apart(p) ==
    \A q \in Procs \ {p} : /\ pc'[q] = pc[q] /\ plan'[q] = plan[q] /\ turn'[q] = turn[q]
                           /\ calls'[q] = calls[q] /\ task'[q] = task[q]

LEMMA RunsApart ==
    ASSUME RunsTyped, NEW p \in Procs,
           \/ RunStep(p) \/ Crash(p)
           \/ \E c \in Configs, cats \in Plans, n \in Budgets : Start(p, c, cats, n)
    PROVE  Apart(p)
<1>1. ASSUME NEW at, NEW s, Afresh(p, at, s) PROVE Apart(p)
  BY <1>1 DEF Afresh, Goto, RunsTyped, Apart
<1>2. ASSUME NEW at, Goto(p, at), UNCHANGED <<plan, calls>>,
             turn' = turn \/ \E t : turn' = [turn EXCEPT ![p] = t],
             task' = task \/ \E f : task' = [task EXCEPT ![p] = f]
      PROVE  Apart(p)
  BY <1>2 DEF Goto, RunsTyped, Apart
<1>3. ASSUME Onward(p), UNCHANGED <<plan, calls, task>> PROVE Apart(p)
  BY <1>2, <1>3 DEF Onward
<1>4. CASE PurgeRaw(p) \/ Reclaim(p) \/ StorageFails(p) \/ BudgetExhausted(p)
  BY <1>2, <1>4 DEF PurgeRaw, Reclaim, StorageFails, BudgetExhausted, window
<1>5. CASE TerminalizeExhausted(p)
  BY <1>2, <1>5 DEF TerminalizeExhausted, window
<1>6. CASE Skip(p) \/ WindowOver(p) \/ GeneratePending(p)
  BY <1>2, <1>3, <1>6 DEF Skip, WindowOver, GeneratePending, window
<1>7. ASSUME NEW L, ClaimWindow(p, L) PROVE Apart(p)
  <2>1. UNCHANGED <<plan, calls>>
    BY <1>7 DEF ClaimWindow
  <2>2. CASE /\ Goto(p, "window") /\ \E t : turn' = [turn EXCEPT ![p] = t]
             /\ \E f : task' = [task EXCEPT ![p] = f]
    BY <1>2, <2>1, <2>2
  <2>3. CASE Goto(p, "generate") /\ UNCHANGED <<turn, task>>
    BY <1>2, <2>1, <2>3
  <2>4. CASE Onward(p) /\ UNCHANGED task
    BY <1>3, <2>1, <2>4
  <2> QED
    BY <1>7, <2>2, <2>3, <2>4 DEF ClaimWindow
<1>8. ASSUME NEW a \in Articles, TaskStep(p, a) PROVE Apart(p)
  <2>1. CASE Call(p, a)
    BY <2>1 DEF Call, Becomes, course, RunsTyped, Apart
  <2>2. CASE TaskEnds(p, a)
    BY <2>2 DEF TaskEnds, Ended, Becomes, course, RunsTyped, Apart
  <2> QED
    BY <1>8, <2>1, <2>2, TaskMoves
<1>9. CASE Finish(p) \/ Crash(p)
  BY <1>1, <1>9 DEF Finish, Crash
<1>10. ASSUME NEW c, NEW s, NEW n, Start(p, c, s, n) PROVE Apart(p)
  BY <1>1, <1>10 DEF Start
<1> QED
  BY <1>4, <1>5, <1>6, <1>7, <1>8, <1>9, <1>10 DEF RunStep

LEMMA BudgetStep ==
    ASSUME Typed, AllInBudget, [Next]_vars
    PROVE  AllInBudget'
<1>0. RunsTyped /\ \A p \in Procs : InBudget(p)
  BY DEF Typed, AllInBudget
<1>1. ASSUME NEW p \in Procs, InBudget(p)', Apart(p) PROVE AllInBudget'
  BY <1>0, <1>1, BudgetSame DEF Apart, AllInBudget
<1>2. ASSUME NEW p \in Procs, Finish(p) \/ Crash(p) PROVE InBudget(p)'
  BY <1>0, <1>2, PlanTyped, AfreshBudget DEF Finish, Crash
<1>3. ASSUME NEW p \in Procs, RunStep(p) PROVE InBudget(p)'
  BY <1>0, <1>2, <1>3, StatementBudget, SweepBudget, ClaimBudget, TaskBudget DEF RunStep
<1>4. ASSUME NEW p \in Procs, NEW c \in Configs, NEW s \in Plans, NEW n \in Budgets,
             Start(p, c, s, n)
      PROVE  InBudget(p)'
  BY <1>0, <1>4, StartBudget
<1>5. CASE UNCHANGED <<course, window>>
  BY <1>0, <1>5, BudgetSame DEF course, window, AllInBudget
<1> QED
  BY <1>0, <1>1, <1>2, <1>3, <1>4, <1>5, RunsApart
  DEF Next, NewArticle, Expire, LateRelease, LateLost, vars

\* The inductive invariant of the budget.
LEMMA AlwaysInBudget == Spec => []AllInBudget
<1>1. Init => AllInBudget
  <2> SUFFICES ASSUME Init, NEW p \in Procs PROVE InBudget(p)
    BY DEF AllInBudget
  <2>1. Unsent(p) = {} /\ calls[p] = 0 /\ pc[p] = "off" /\ plan[p] = NoPlan
    BY IdleTyped DEF Init, Unsent
  <2>2. Spent(p) = 0 /\ NoPlan.allowed = 0
    BY <2>1, FS_EmptySet, PlanTyped DEF Spent
  <2> QED
    BY <2>1, <2>2 DEF InBudget
<1>2. Typed /\ AllInBudget /\ [Next]_vars => AllInBudget'
  BY BudgetStep
<1> QED
  BY <1>1, <1>2, AlwaysTyped, PTL DEF Spec

\* A command never calls the provider more often than max_requests, and what its open
\* window may still call is within it (DecisionRunFlow::rounds, the budget).
THEOREM DecisionCallsWithinBudget == Spec => []CallsWithinBudget
<1>1. AllInBudget => CallsWithinBudget
  BY DEF AllInBudget, InBudget, Spent, Unsent, CallsWithinBudget
<1> QED
  BY <1>1, AlwaysInBudget, PTL

\* In its first round a command for several categories has a full window left for each
\* of them, so that no backlog of one category starves another (the check of
\* max_requests in commands/decision_run.rs).
THEOREM DecisionFirstWindowForAll == Spec => []FirstWindowForAll
<1>1. Typed /\ AllInBudget => FirstWindowForAll
  <2> SUFFICES ASSUME Typed, AllInBudget, NEW p \in Procs,
                      pc[p] = "claim", turn[p].first, Len(plan[p].cats) > 1
               PROVE  Budget(p) >= Concurrency
    BY DEF FirstWindowForAll
  <2>1. /\ plan[p].allowed >= Room(Len(plan[p].cats))
        /\ calls[p] <= Room(turn[p].place - 1)
    BY DEF AllInBudget, InBudget, FirstRound
  <2>2. RunsTyped
    BY DEF Typed
  <2>3. /\ Room(turn[p].place) <= Room(Len(plan[p].cats))
        /\ Room(Len(plan[p].cats)) \in Nat
    BY <2>2, Quantities, RoomFor
  <2> QED
    BY <2>1, <2>2, <2>3, Quantities DEF Budget
<1> QED
  BY <1>1, AlwaysTyped, AlwaysInBudget, PTL

-----------------------------------------------------------------------------
(* What the implemented queue promises its users, read off its steps.      *)

\* What the promise says of one row, and what a step of the queue may do to it.
QRow(k) ==
    /\ QPhase[k] \in Queue!Phases /\ QHolder[k] \in Procs \cup {NoProc}
    /\ QTries[k] \in 0..MaxAttempts
    /\ QHolder[k] # NoProc <=> QPhase[k] = "working"
    /\ QPhase[k] = "working" => QTries[k] > 0

QMoves(k) ==
    \/ QPhase'[k] = QPhase[k] /\ QHolder'[k] = QHolder[k] /\ QTries'[k] = QTries[k]
    \/ /\ QPhase[k] = "absent" /\ QPhase'[k] = "queued"
       /\ QHolder'[k] = QHolder[k] /\ QTries'[k] = QTries[k]
    \/ /\ QPhase[k] = "queued" /\ QPhase'[k] = "working" /\ QHolder'[k] \in Procs
       /\ QTries[k] < MaxAttempts /\ QTries'[k] = QTries[k] + 1
    \/ /\ QPhase[k] = "working" /\ QPhase'[k] \in {"queued", "done"} /\ QHolder'[k] = NoProc
       /\ QTries'[k] = QTries[k]
    \/ /\ QPhase[k] = "working" /\ QPhase'[k] = "queued" /\ QHolder'[k] = NoProc
       /\ QTries'[k] = QTries[k] - 1
    \/ /\ QPhase[k] = "queued" /\ QPhase'[k] = "done"
       /\ QHolder'[k] = QHolder[k] /\ QTries'[k] = QTries[k]

LEMMA QueueMoves ==
    ASSUME [Queue!Next]_(Queue!vars), NEW k \in Keys
    PROVE  QMoves(k)
<1>1. /\ QPhase = [j \in Keys |-> QPhase[j]] /\ QHolder = [j \in Keys |-> QHolder[j]]
      /\ QTries = [j \in Keys |-> QTries[j]]
  BY DEF QPhase, QHolder, QTries
<1>2. CASE UNCHANGED Queue!vars
  <2>1. QPhase' = QPhase /\ QHolder' = QHolder /\ QTries' = QTries
    BY <1>2 DEF Queue!vars, QPhase, QHolder, QTries
  <2> QED  BY <2>1 DEF QMoves
<1>3. ASSUME NEW S \in SUBSET Keys, Queue!Enqueue(S) PROVE QMoves(k)
  <2>1. /\ k \in S => QPhase[k] = "absent"
        /\ QPhase' = [j \in Keys |-> IF j \in S THEN "queued" ELSE QPhase[j]]
        /\ QHolder' = QHolder /\ QTries' = QTries
    BY <1>3 DEF Queue!Enqueue, QPhase, QHolder, QTries
  <2> QED  BY <2>1 DEF QMoves
<1>4. ASSUME NEW r \in Procs, NEW S \in SUBSET Keys, Queue!Take(r, S) PROVE QMoves(k)
  <2>1. /\ k \in S => QPhase[k] = "queued" /\ QTries[k] < MaxAttempts
        /\ QPhase' = [j \in Keys |-> IF j \in S THEN "working" ELSE QPhase[j]]
        /\ QHolder' = [j \in Keys |-> IF j \in S THEN r ELSE QHolder[j]]
        /\ QTries' = [j \in Keys |-> IF j \in S THEN QTries[j] + 1 ELSE QTries[j]]
    BY <1>4 DEF Queue!Take, QPhase, QHolder, QTries
  <2> QED  BY <2>1 DEF QMoves
<1>5. ASSUME NEW r \in Procs, NEW j \in Keys, Queue!Settle(r, j) \/ Queue!GiveBack(r, j)
      PROVE  QMoves(k)
  <2>1. /\ QPhase[j] = "working" /\ QHolder' = [QHolder EXCEPT ![j] = NoProc] /\ QTries' = QTries
        /\ \/ QPhase' = [QPhase EXCEPT ![j] = "done"]
           \/ QPhase' = [QPhase EXCEPT ![j] = "queued"]
    BY <1>5 DEF Queue!Settle, Queue!GiveBack, QPhase, QHolder, QTries
  <2> QED  BY <1>1, <2>1 DEF QMoves
<1>6. ASSUME NEW r \in Procs, NEW j \in Keys, Queue!Refund(r, j) PROVE QMoves(k)
  <2>1. /\ QPhase[j] = "working" /\ QHolder' = [QHolder EXCEPT ![j] = NoProc]
        /\ QTries' = [QTries EXCEPT ![j] = QTries[j] - 1]
        /\ QPhase' = [QPhase EXCEPT ![j] = "queued"]
    BY <1>6 DEF Queue!Refund, QPhase, QHolder, QTries
  <2> QED  BY <1>1, <2>1 DEF QMoves
<1>7. ASSUME NEW S \in SUBSET Keys, Queue!Evict(S) PROVE QMoves(k)
  <2>1. /\ k \in S => QPhase[k] = "working"
        /\ QPhase' = [j \in Keys |-> IF j \in S THEN "queued" ELSE QPhase[j]]
        /\ QHolder' = [j \in Keys |-> IF j \in S THEN NoProc ELSE QHolder[j]] /\ QTries' = QTries
    BY <1>7 DEF Queue!Evict, QPhase, QHolder, QTries
  <2> QED  BY <2>1 DEF QMoves
<1>8. ASSUME NEW S \in SUBSET Keys, Queue!Discard(S) PROVE QMoves(k)
  <2>1. /\ k \in S => QPhase[k] = "queued"
        /\ QPhase' = [j \in Keys |-> IF j \in S THEN "done" ELSE QPhase[j]]
        /\ QHolder' = QHolder /\ QTries' = QTries
    BY <1>8 DEF Queue!Discard, QPhase, QHolder, QTries
  <2> QED  BY <2>1 DEF QMoves
<1>9. ASSUME NEW S \in SUBSET Keys, Queue!Reopen(S) PROVE QMoves(k)
  BY <1>9 DEF Queue!Reopen
<1> QED
  BY <1>2, <1>3, <1>4, <1>5, <1>6, <1>7, <1>8, <1>9 DEF Queue!Next

LEMMA QueueKept ==
    ASSUME [Queue!Next]_(Queue!vars), \A k \in Keys : QRow(k)
    PROVE  (\A k \in Keys : QRow(k))'
<1> SUFFICES ASSUME NEW k \in Keys PROVE QRow(k)'
  OBVIOUS
<1>1. QMoves(k) /\ QRow(k)
  BY QueueMoves
<1>2. MaxAttempts \in Nat /\ NoProc \notin Procs
  BY DecisionAssumption
<1> QED
  BY <1>1, <1>2 DEF QMoves, QRow, Queue!Phases

LEMMA QueueRows == Spec => [](\A k \in Keys : QRow(k))
<1>1. Queue!Init => \A k \in Keys : QRow(k)
  <2> SUFFICES ASSUME Queue!Init, NEW k \in Keys PROVE QRow(k)
    OBVIOUS
  <2>1. QPhase[k] = "absent" /\ QHolder[k] = NoProc /\ QTries[k] = 0
    BY DEF Queue!Init, QPhase, QHolder, QTries
  <2> QED  BY <2>1, DecisionAssumption DEF QRow, Queue!Phases
<1>2. (\A k \in Keys : QRow(k)) /\ [Queue!Next]_(Queue!vars)
         => (\A k \in Keys : QRow(k))'
  BY QueueKept
<1> QED
  BY <1>1, <1>2, DecisionImplementsLeaseQueue, PTL DEF ImplementsLeaseQueue, Queue!Spec

\* LeaseQueue's invariants, for decision_results: no row is handed out more often than its
\* budget allows, and it has a holder exactly while it is worked on, and only
\* after it was handed out.
THEOREM DecisionQueueHeld == Spec => [](Queue!TypeOK /\ Queue!HeldExactlyWhileWorking)
<1>1. (\A k \in Keys : QRow(k)) => Queue!TypeOK /\ Queue!HeldExactlyWhileWorking
  <2> SUFFICES ASSUME \A k \in Keys : QRow(k)
               PROVE  Queue!TypeOK /\ Queue!HeldExactlyWhileWorking
    OBVIOUS
  <2>1. /\ QPhase \in [Keys -> Queue!Phases] /\ QHolder \in [Keys -> Procs \cup {NoProc}]
        /\ QTries \in [Keys -> 0..MaxAttempts]
    <3>1. /\ QPhase = [j \in Keys |-> QPhase[j]] /\ QHolder = [j \in Keys |-> QHolder[j]]
          /\ QTries = [j \in Keys |-> QTries[j]]
      BY DEF QPhase, QHolder, QTries
    <3> QED  BY <3>1 DEF QRow
  <2>2. \A k \in Keys :
           /\ (QHolder[k] # NoProc) <=> (QPhase[k] = "working")
           /\ QPhase[k] = "working" => QTries[k] > 0
    BY DEF QRow
  <2> QED
    BY <2>1, <2>2 DEF Queue!TypeOK, Queue!HeldExactlyWhileWorking, QPhase, QHolder, QTries
<1> QED
  BY <1>1, QueueRows, PTL

\* LeaseQueue's action property: once settled, a row is never handed out or held
\* again.
THEOREM DecisionQueueDoneIsFinal == Spec => Queue!DoneIsFinal
<1> DEFINE A == \A k \in Keys : QPhase[k] = "done" =>
                   /\ QHolder'[k] = NoProc
                   /\ \/ QPhase'[k] = "done" /\ QTries'[k] = QTries[k]
                      \/ FALSE /\ QPhase'[k] = "queued" /\ QTries'[k] = 0
<1>1. (\A k \in Keys : QRow(k)) /\ [Queue!Next]_(Queue!vars) => A
  <2> SUFFICES ASSUME \A k \in Keys : QRow(k), [Queue!Next]_(Queue!vars),
                      NEW k \in Keys, QPhase[k] = "done"
               PROVE  /\ QHolder'[k] = NoProc
                      /\ \/ QPhase'[k] = "done" /\ QTries'[k] = QTries[k]
                         \/ FALSE /\ QPhase'[k] = "queued" /\ QTries'[k] = 0
    OBVIOUS
  <2>1. QMoves(k) /\ QRow(k)
    BY QueueMoves
  <2> QED  BY <2>1 DEF QMoves, QRow
<1>2. Spec => [][A]_(Queue!vars)
  BY <1>1, QueueRows, DecisionImplementsLeaseQueue, PTL DEF ImplementsLeaseQueue, Queue!Spec
<1> QED
  BY <1>2 DEF Queue!DoneIsFinal, QPhase, QHolder, QTries
=============================================================================
