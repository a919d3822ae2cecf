---------------------------- MODULE AiRunProofs -----------------------------
(***************************************************************************)
(* Proofs about the AI stage, for any number of articles, versions and     *)
(* runs, any budget and either database.                                   *)
(***************************************************************************)
EXTENDS AiRun, TLAPS

\* The first component of a row's key is its article.
LEMMA RowArticle == \A k \in Rows : k[1] \in Articles
BY DEF Rows

\* A page of candidates becomes a set of row keys.
LEMMA PageIsRows == \A v \in Versions : TaskGenPage \X {v} \subseteq Rows
BY DEF Rows, TaskGenPage

\* NULL is not a score.
LEMMA NoScoreIsNone == NoScore \notin Scores
BY AiRunAssumption DEF NoScore

\* The stages around ai-run, the passing of time and the crash of a run keep
\* every variable within its type.
LEMMA TypeOKOutside ==
    ASSUME TypeOK,
           \/ \E a \in Articles : PersistArticle(a) \/ PublishArticle(a)
           \/ \E a \in Articles, v \in Versions : BackfillInsert(a, v)
           \/ \E k \in Rows : LeaseExpires(k)
           \/ \E r \in Runs : Crash(r)
    PROVE  TypeOK'
<1>1. ASSUME NEW a \in Articles, PersistArticle(a) \/ PublishArticle(a) PROVE TypeOK'
  BY <1>1 DEF TypeOK, PersistArticle, PublishArticle, proc, ArticleStates
<1>2. ASSUME NEW a \in Articles, NEW v \in Versions, BackfillInsert(a, v) PROVE TypeOK'
  <2>1. <<a, v>> \in Rows
    BY DEF Rows
  <2>2. PendingRow \in Row
    BY DEF PendingRow, Unleased, AbsentRow, Row, RowStates
  <2> QED
    BY <1>2, <2>1, <2>2 DEF TypeOK, BackfillInsert, proc
<1>3. ASSUME NEW k \in Rows, LeaseExpires(k) PROVE TypeOK'
  BY <1>3 DEF TypeOK, LeaseExpires, proc, Row
<1>4. ASSUME NEW r \in Runs, Crash(r) PROVE TypeOK'
  <2>1. Closed \in Tx
    BY DEF Closed, Tx, Advances
  <2> QED
    BY <1>4, <2>1 DEF TypeOK, Crash
<1> QED
  BY <1>1, <1>2, <1>3, <1>4

\* So does every step of task generation and of the claim loop.
LEMMA TypeOKGen ==
    ASSUME TypeOK, NEW r \in Runs,
           \/ TaskGenList(r) \/ TaskGenListFails(r) \/ TaskGenDone(r)
           \/ \E k \in Rows : TaskGenInsert(r, k) \/ TaskGenInsertFails(r, k)
           \/ ReclaimLeases(r) \/ SweepLeases(r) \/ MaintenanceFails(r)
           \/ \E S \in SUBSET Rows : ClaimPending(r, S)
           \/ EndRun(r) \/ EndBatch(r)
    PROVE  TypeOK'
<1>1. CASE TaskGenList(r)
  <2>1. PICK v \in Versions : todo' = [todo EXCEPT ![r] = TaskGenPage \X {v}]
    BY <1>1 DEF TaskGenList
  <2>2. TaskGenPage \X {v} \in SUBSET Rows
    BY PageIsRows
  <2> QED
    BY <1>1, <2>1, <2>2 DEF TypeOK, TaskGenList, db
<1>2. CASE TaskGenListFails(r) \/ TaskGenDone(r) \/ MaintenanceFails(r) \/ EndRun(r) \/ EndBatch(r)
  BY <1>2 DEF TypeOK, TaskGenListFails, TaskGenDone, MaintenanceFails, EndRun, EndBatch, db
<1>3. ASSUME NEW k \in Rows, TaskGenInsert(r, k) \/ TaskGenInsertFails(r, k) PROVE TypeOK'
  <2>1. PendingRow \in Row /\ "ai_pending" \in ArticleStates
    BY DEF PendingRow, Unleased, AbsentRow, Row, RowStates, ArticleStates
  <2> QED
    BY <1>3, <2>1, RowArticle
    DEF TypeOK, TaskGenInsert, TaskGenInsertFails, InsertAndAdvance, db
<1>4. CASE ReclaimLeases(r)
  <2>1. res' \in [Rows -> Row]
    BY <1>4 DEF TypeOK, ReclaimLeases, ReclaimExpired, Unleased, Row, RowStates
  <2> QED
    BY <1>4, <2>1 DEF TypeOK, ReclaimLeases
<1>5. CASE SweepLeases(r)
  <2>1. res' \in [Rows -> Row]
    BY <1>5 DEF TypeOK, SweepLeases, SweepExhausted, Unleased, Row, RowStates
  <2> QED
    BY <1>5, <2>1 DEF TypeOK, SweepLeases
<1>6. ASSUME NEW S \in SUBSET Rows, ClaimPending(r, S) PROVE TypeOK'
  <2>1. res' \in [Rows -> Row]
    BY <1>6 DEF TypeOK, ClaimPending, ClaimRows, Claimed, Row, RowStates
  <2> QED
    BY <1>6, <2>1 DEF TypeOK, ClaimPending
<1> QED
  BY <1>1, <1>2, <1>3, <1>4, <1>5, <1>6

\* So does the end of a task.
LEMMA TypeOKTask ==
    ASSUME TypeOK, NEW r \in Runs, NEW k \in Rows, Release(r, k) \/ TaskLost(r, k)
    PROVE  TypeOK'
<1>a. k[1] \in Articles
  BY RowArticle
<1>b. Closed \in Tx
  BY DEF Closed, Tx, Advances
<1>c. ASSUME NEW s \in Scores \cup {NoScore}, CompleteRow(k, s) PROVE res' \in [Rows -> Row]
  BY <1>c DEF TypeOK, CompleteRow, Completed, Row, RowStates
<1>d. ASSUME NEW adv \in Advances, AdvanceArticle(k[1], adv)
      PROVE art' \in [Articles -> ArticleStates]
  BY <1>d, <1>a DEF TypeOK, AdvanceArticle, Advances, ArticleStates
<1>e. ASSUME NEW s \in Scores \cup {NoScore} PROVE ComputeAdvance(k, s) \in Advances
  BY DEF ComputeAdvance, Advances
<1>1. ASSUME NEW s \in Scores \cup {NoScore}, ReleaseSuccess(r, k, s) PROVE TypeOK'
  <2>1. res' \in [Rows -> Row] /\ art' \in [Articles -> ArticleStates]
    BY <1>1, <1>c, <1>d, <1>e DEF TypeOK, ReleaseSuccess
  <2> QED
    BY <1>1, <2>1 DEF TypeOK, ReleaseSuccess, TaskEnds
<1>2. ASSUME NEW s \in Scores \cup {NoScore}, BeginRelease(r, k, s) PROVE TypeOK'
  <2>1. [open |-> TRUE, score |-> s, advance |-> ComputeAdvance(k, s)] \in Tx
    BY <1>e DEF Tx
  <2>2. tx' \in [Rows -> Tx]
    BY <1>2, <2>1 DEF TypeOK, BeginRelease
  <2> QED
    BY <1>2, <2>2 DEF TypeOK, BeginRelease, TaskEnds
<1>3. CASE CommitRelease(r, k)
  <2>1. tx[k].score \in Scores \cup {NoScore} /\ tx[k].advance \in Advances
    BY DEF TypeOK, Tx
  <2>2. res' \in [Rows -> Row] /\ art' \in [Articles -> ArticleStates]
    BY <1>3, <1>c, <1>d, <2>1 DEF CommitRelease
  <2> QED
    BY <1>3, <1>b, <2>2 DEF TypeOK, CommitRelease, TaskEnds
<1>4. CASE ReleaseRetryable(r, k)
  <2>1. res' \in [Rows -> Row]
    BY <1>4 DEF TypeOK, ReleaseRetryable, Unleased, Row, RowStates
  <2> QED
    BY <1>4, <2>1 DEF TypeOK, ReleaseRetryable, TaskEnds
<1>5. CASE ReleasePermanent(r, k)
  <2>1. res' \in [Rows -> Row]
    BY <1>5 DEF TypeOK, ReleasePermanent, Unleased, Row, RowStates
  <2> QED
    BY <1>5, <2>1 DEF TypeOK, ReleasePermanent, TaskEnds
<1>6. CASE TaskLost(r, k)
  BY <1>6, <1>b DEF TypeOK, TaskLost, TaskEnds
<1> QED
  BY <1>1, <1>2, <1>3, <1>4, <1>5, <1>6 DEF Release

\* Every variable of the AI stage keeps its type.
THEOREM AiRunTyped == Spec => []TypeOK
<1>1. Init => TypeOK
  BY DEF Init, TypeOK, AbsentRow, Row, RowStates, ArticleStates, Closed, Tx, Advances
<1>2. TypeOK /\ [Next]_vars => TypeOK'
  <2> SUFFICES ASSUME TypeOK, [Next]_vars PROVE TypeOK'
    OBVIOUS
  <2>1. CASE UNCHANGED vars
    BY <2>1 DEF TypeOK, vars
  <2>2. CASE Next
    BY <2>2, TypeOKOutside, TypeOKGen, TypeOKTask DEF Next, RunStep
  <2> QED
    BY <2>1, <2>2
<1> QED
  BY <1>1, <1>2, PTL DEF Spec

-----------------------------------------------------------------------------
(* What a step can do to a row, and what to an article.  Everything below  *)
(* follows from these two summaries of the next-state relation.            *)

RowStep(k) ==
    \/ res'[k] = res[k]
    \/ /\ res[k].state = "absent" /\ art[k[1]] # "absent"
       /\ res'[k] = PendingRow
    \/ /\ Claimable(k)
       /\ \E r \in Runs : res'[k] = Claimed(res[k], r)
    \/ /\ Expired(k) /\ ~tx[k].open
       /\ \E r \in Runs : pc[r] = "reclaim" /\ pc'[r] = "sweep"
       /\ res'[k] = Unleased(res[k], "pending")
    \/ Exhausted(k) /\ res'[k] = Unleased(res[k], "permanent_failed")
    \/ /\ res[k].owner \in Runs
       /\ \/ res[k].attempts < MaxAttempts /\ res'[k] = Unleased(res[k], "pending")
          \/ res'[k] = Unleased(res[k], "permanent_failed")
          \/ \E s \in Scores \cup {NoScore} : res'[k] = Completed(res[k], s)
    \/ res[k].lease = "live" /\ res'[k] = [res[k] EXCEPT !.lease = "expired"]

\* Every step does to every row one of the things RowStep lists.
LEMMA RowSteps == ASSUME TypeOK, [Next]_vars PROVE \A k \in Rows : RowStep(k)
<1> SUFFICES ASSUME NEW k \in Rows PROVE RowStep(k)
  OBVIOUS
<1> USE DEF RowStep
<1>0. CASE res' = res
  BY <1>0
<1>1. CASE \E a \in Articles, v \in Versions : BackfillInsert(a, v)
  <2>1. PICK a \in Articles, v \in Versions : BackfillInsert(a, v)
    BY <1>1
  <2>2. <<a, v>> \in Rows /\ <<a, v>>[1] = a
    BY DEF Rows
  <2> QED
    BY <2>1, <2>2 DEF BackfillInsert, TypeOK
<1>2. CASE \E j \in Rows : LeaseExpires(j)
  BY <1>2 DEF LeaseExpires, TypeOK
<1>3. ASSUME NEW r \in Runs, NEW j \in Rows, TaskGenInsert(r, j) PROVE RowStep(k)
  BY <1>3 DEF TaskGenInsert, InsertAndAdvance, TypeOK
<1>4. ASSUME NEW r \in Runs, ReclaimLeases(r) PROVE RowStep(k)
  BY <1>4 DEF ReclaimLeases, ReclaimExpired, TypeOK
<1>5. ASSUME NEW r \in Runs, SweepLeases(r) PROVE RowStep(k)
  BY <1>5 DEF SweepLeases, SweepExhausted
<1>6. ASSUME NEW r \in Runs, NEW S \in SUBSET Rows, ClaimPending(r, S) PROVE RowStep(k)
  BY <1>6 DEF ClaimPending, ClaimRows
<1>7. ASSUME NEW r \in Runs, NEW j \in Rows, Release(r, j) PROVE RowStep(k)
  <2>1. ASSUME NEW s \in Scores \cup {NoScore}, ReleaseSuccess(r, j, s) PROVE RowStep(k)
    BY <2>1 DEF ReleaseSuccess, CompleteRow, Owns, TypeOK
  <2>2. ASSUME NEW s \in Scores \cup {NoScore}, BeginRelease(r, j, s) PROVE RowStep(k)
    BY <2>2 DEF BeginRelease
  <2>3. CASE CommitRelease(r, j)
    <3>1. tx[j].score \in Scores \cup {NoScore}
      BY DEF TypeOK, Tx
    <3> QED
      BY <2>3, <3>1 DEF CommitRelease, CompleteRow, Releasing, Owns, TypeOK
  <2>4. CASE ReleaseRetryable(r, j)
    <3>1. res[k].attempts \in Nat
      BY DEF TypeOK, Row
    <3>2. CASE res[j].attempts >= MaxAttempts
      BY <2>4, <3>2 DEF ReleaseRetryable, Owns, TypeOK
    <3>3. CASE ~(res[j].attempts >= MaxAttempts)
      <4>1. res' = res \/ (res[j].owner = r /\ res' = [res EXCEPT ![j] = Unleased(@, "pending")])
        BY <2>4, <3>3 DEF ReleaseRetryable, Owns
      <4>2. j = k => res[k].attempts < MaxAttempts
        BY <3>1, <3>3, AiRunAssumption
      <4> QED
        BY <4>1, <4>2 DEF TypeOK
    <3> QED
      BY <3>2, <3>3
  <2>5. CASE ReleasePermanent(r, j)
    BY <2>5 DEF ReleasePermanent, Owns, TypeOK
  <2> QED
    BY <1>7, <2>1, <2>2, <2>3, <2>4, <2>5 DEF Release
<1>8. CASE UNCHANGED vars
  BY <1>8, <1>0 DEF vars
<1>9. ASSUME NEW r \in Runs, RunStep(r) PROVE RowStep(k)
  <2>1. ASSUME NEW j \in Rows, TaskGenInsertFails(r, j) \/ TaskLost(r, j) PROVE res' = res
    BY <2>1 DEF TaskGenInsertFails, TaskLost, db
  <2>2. CASE \/ TaskGenList(r) \/ TaskGenListFails(r) \/ TaskGenDone(r)
             \/ MaintenanceFails(r) \/ EndRun(r) \/ EndBatch(r) \/ Crash(r)
    BY <2>2, <1>0 DEF TaskGenList, TaskGenListFails, TaskGenDone, MaintenanceFails,
                      EndRun, EndBatch, Crash, db
  <2> QED
    BY <1>9, <2>1, <2>2, <1>0, <1>3, <1>4, <1>5, <1>6, <1>7 DEF RunStep
<1>10. ASSUME NEW a \in Articles, PersistArticle(a) \/ PublishArticle(a) PROVE res' = res
  BY <1>10 DEF PersistArticle, PublishArticle
<1> QED
  BY <1>0, <1>1, <1>2, <1>8, <1>9, <1>10 DEF Next

\* A row's owner, lease, score and budget stay coherent, whatever the overlap
\* of runs: the owner guard and the budget are enough.
THEOREM AiRunLeaseCoherent == Spec => []LeaseCoherent
<1>1. Init => LeaseCoherent
  BY AiRunAssumption DEF Init, LeaseCoherent, AbsentRow
<1>2. TypeOK /\ LeaseCoherent /\ [Next]_vars => LeaseCoherent'
  <2> SUFFICES ASSUME TypeOK, LeaseCoherent, [Next]_vars, NEW k \in Rows
               PROVE /\ (res'[k].owner # NoRun) <=> (res'[k].state = "running")
                     /\ (res'[k].lease # "none") <=> (res'[k].state = "running")
                     /\ (res'[k].score # NoScore) <=> (res'[k].state = "succeeded")
                     /\ res'[k].attempts <= MaxAttempts
    BY DEF LeaseCoherent
  <2>1. RowStep(k)
    BY RowSteps
  <2>2. res[k] \in Row
    BY DEF TypeOK
  <2>3. /\ (res[k].owner # NoRun) <=> (res[k].state = "running")
        /\ (res[k].lease # "none") <=> (res[k].state = "running")
        /\ (res[k].score # NoScore) <=> (res[k].state = "succeeded")
        /\ res[k].attempts <= MaxAttempts
    BY DEF LeaseCoherent
  <2>4. CASE \E s \in Scores \cup {NoScore} : res'[k] = Completed(res[k], s)
    BY <2>2, <2>3, <2>4, NoScoreIsNone DEF Completed
  <2>5. CASE \/ res'[k] = PendingRow /\ res[k].state = "absent"
             \/ Expired(k) /\ res'[k] = Unleased(res[k], "pending")
             \/ Exhausted(k) /\ res'[k] = Unleased(res[k], "permanent_failed")
             \/ res[k].owner \in Runs /\ (\/ res'[k] = Unleased(res[k], "pending")
                                         \/ res'[k] = Unleased(res[k], "permanent_failed"))
    BY <2>2, <2>3, <2>5, AiRunAssumption
    DEF PendingRow, AbsentRow, Unleased, Expired, Exhausted, Row
  <2>6. CASE /\ Claimable(k)
             /\ \E r \in Runs : res'[k] = Claimed(res[k], r)
    BY <2>2, <2>3, <2>6, AiRunAssumption DEF Claimable, Claimed, Row
  <2>7. CASE res[k].lease = "live" /\ res'[k] = [res[k] EXCEPT !.lease = "expired"]
    BY <2>2, <2>3, <2>7 DEF Row
  <2> QED
    BY <2>1, <2>3, <2>4, <2>5, <2>6, <2>7 DEF RowStep
<1> QED
  BY <1>1, <1>2, AiRunTyped, PTL DEF Spec

\* A row in a terminal state is never written again.
THEOREM AiRunResultIsFinal == Spec => ResultIsFinal
<1>1. TypeOK /\ LeaseCoherent /\ [Next]_vars
        => [\A k \in Rows : res[k].state \in Terminal => res'[k] = res[k]]_vars
  <2> SUFFICES ASSUME TypeOK, LeaseCoherent, [Next]_vars,
                      NEW k \in Rows, res[k].state \in Terminal
               PROVE  res'[k] = res[k]
    OBVIOUS
  <2>1. RowStep(k)
    BY RowSteps
  <2> QED
    BY <2>1, AiRunAssumption DEF RowStep, LeaseCoherent, Terminal, Claimable, Expired, Exhausted
<1> QED
  BY <1>1, AiRunTyped, AiRunLeaseCoherent, PTL DEF Spec, ResultIsFinal

\* Only the reclaim of an expired lease leaves a pending row without budget.
THEOREM AiRunExhaustedOnlyByReclaim == Spec => ExhaustedOnlyByReclaim
<1> DEFINE A == \A k \in Rows :
                  /\ res'[k].state = "pending" /\ res'[k].attempts >= MaxAttempts
                  /\ res[k].state # "pending"
                  => res[k].lease = "expired"
                     /\ \E r \in Runs : pc[r] = "reclaim" /\ pc'[r] = "sweep"
<1>1. TypeOK /\ [Next]_vars => [A]_vars
  <2> SUFFICES ASSUME TypeOK, [Next]_vars, NEW k \in Rows,
                      res'[k].state = "pending", res'[k].attempts >= MaxAttempts,
                      res[k].state # "pending"
               PROVE  /\ res[k].lease = "expired"
                      /\ \E r \in Runs : pc[r] = "reclaim" /\ pc'[r] = "sweep"
    OBVIOUS
  <2>1. RowStep(k) /\ res[k] \in Row
    BY RowSteps DEF TypeOK
  <2>2. res'[k] # PendingRow
    BY AiRunAssumption DEF PendingRow, Unleased, AbsentRow
  <2>3. ASSUME NEW s \in Scores \cup {NoScore} PROVE res'[k] # Completed(res[k], s)
    BY DEF Completed
  <2>4. res'[k] = Unleased(res[k], "pending") => ~(res[k].attempts < MaxAttempts)
    BY <2>1, AiRunAssumption DEF Unleased, Row
  <2>5. res'[k] # [res[k] EXCEPT !.lease = "expired"]
    BY <2>1 DEF Row
  <2>6. ASSUME NEW r \in Runs PROVE res'[k] # Claimed(res[k], r)
    <3>1. Claimed(res[k], r).state = "running"
      BY DEF Claimed
    <3> QED
      BY <3>1
  <2>7. res'[k] # Unleased(res[k], "permanent_failed")
    BY DEF Unleased
  <2>8. res'[k] # res[k]
    OBVIOUS
  <2> QED
    BY <2>1, <2>2, <2>3, <2>4, <2>5, <2>6, <2>7, <2>8 DEF RowStep, Expired
<1> QED
  BY <1>1, AiRunTyped, PTL DEF Spec, ExhaustedOnlyByReclaim

-----------------------------------------------------------------------------
(* Open transactions.                                                      *)

HoldsItsRow(k) ==
    tx[k].open =>
        /\ ReadCommitted
        /\ res[k].state = "running"
        /\ pc[res[k].owner] = "work" /\ k \in tasks[res[k].owner]
        /\ tx[k].advance \in {"no_change", Verdict(tx[k].score)}

\* A step that leaves a row and its transaction alone, and its owner in its
\* batch with that row, leaves the row held.
LEMMA StillHeld ==
    ASSUME NEW k \in Rows, HoldsItsRow(k),
           tx[k].open =>
               /\ res'[k].state = res[k].state /\ res'[k].owner = res[k].owner
               /\ pc[res[k].owner] = "work" /\ k \in tasks[res[k].owner]
                    => pc'[res[k].owner] = "work" /\ k \in tasks'[res[k].owner],
           tx'[k] = tx[k] \/ ~tx'[k].open
    PROVE  HoldsItsRow(k)'
BY DEF HoldsItsRow, Verdict

\* While a release transaction is open its row cannot be taken away from it.
THEOREM AiRunOpenReleaseHoldsItsRow == Spec => []OpenReleaseHoldsItsRow
<1>1. Init => OpenReleaseHoldsItsRow
  BY DEF Init, OpenReleaseHoldsItsRow, Closed
<1>2. TypeOK /\ LeaseCoherent /\ OpenReleaseHoldsItsRow /\ [Next]_vars
        => OpenReleaseHoldsItsRow'
  <2> SUFFICES ASSUME TypeOK, LeaseCoherent, OpenReleaseHoldsItsRow, [Next]_vars,
                      NEW k \in Rows
               PROVE  HoldsItsRow(k)'
    BY DEF OpenReleaseHoldsItsRow, HoldsItsRow
  <2>a. HoldsItsRow(k)
    BY DEF OpenReleaseHoldsItsRow, HoldsItsRow
  <2>b. tx[k].open => res[k].owner \in Runs /\ res[k].state = "running"
    BY <2>a DEF HoldsItsRow, LeaseCoherent, TypeOK, Row
  <2>c. pc \in [Runs -> {"idle", "gen", "reclaim", "sweep", "claim", "work"}]
        /\ tasks \in [Runs -> SUBSET Rows]
    BY DEF TypeOK
  <2>1. CASE UNCHANGED vars
    BY <2>1, <2>a, StillHeld DEF vars
  <2>2. ASSUME NEW a \in Articles, PersistArticle(a) \/ PublishArticle(a)
        PROVE HoldsItsRow(k)'
    BY <2>2, <2>a, StillHeld DEF PersistArticle, PublishArticle, proc
  <2>3. ASSUME NEW a \in Articles, NEW v \in Versions, BackfillInsert(a, v)
        PROVE HoldsItsRow(k)'
    <3>1. tx[k].open => res'[k] = res[k]
      BY <2>3, <2>b DEF BackfillInsert, TypeOK
    <3> QED
      BY <2>3, <3>1, <2>a, StillHeld DEF BackfillInsert, proc
  <2>4. ASSUME NEW j \in Rows, LeaseExpires(j) PROVE HoldsItsRow(k)'
    <3>1. res'[k].state = res[k].state /\ res'[k].owner = res[k].owner
      BY <2>4 DEF LeaseExpires, TypeOK, Row
    <3> QED
      BY <2>4, <3>1, <2>a, StillHeld DEF LeaseExpires, proc
  <2>5. ASSUME NEW r \in Runs, RunStep(r) PROVE HoldsItsRow(k)'
    <3>1. CASE TaskGenList(r) \/ TaskGenListFails(r) \/ TaskGenDone(r)
               \/ MaintenanceFails(r) \/ EndRun(r)
      <4>1. UNCHANGED <<res, tx, tasks>> /\ pc[r] # "work"
            /\ \A q \in Runs : q # r => pc'[q] = pc[q]
        BY <3>1, <2>c DEF TaskGenList, TaskGenListFails, TaskGenDone, MaintenanceFails, EndRun, db
      <4> QED
        BY <4>1, <2>a, <2>b, StillHeld
    <3>2. CASE EndBatch(r)
      <4>1. UNCHANGED <<res, tx, tasks>> /\ tasks[r] = {}
            /\ \A q \in Runs : q # r => pc'[q] = pc[q]
        BY <3>2, <2>c DEF EndBatch, db
      <4> QED
        BY <4>1, <2>a, <2>b, StillHeld
    <3>3. ASSUME NEW j \in Rows, TaskGenInsert(r, j) \/ TaskGenInsertFails(r, j)
          PROVE HoldsItsRow(k)'
      <4>1. UNCHANGED <<tx, pc, tasks>>
        BY <3>3 DEF TaskGenInsert, TaskGenInsertFails, db
      <4>2. tx[k].open => res'[k] = res[k]
        BY <3>3, <2>b DEF TaskGenInsert, TaskGenInsertFails, InsertAndAdvance, db, TypeOK
      <4> QED
        BY <4>1, <4>2, <2>a, StillHeld
    <3>4. CASE ReclaimLeases(r)
      <4>1. UNCHANGED <<tx, tasks>> /\ pc[r] # "work"
            /\ \A q \in Runs : q # r => pc'[q] = pc[q]
        BY <3>4, <2>c DEF ReclaimLeases
      <4>2. tx[k].open => res'[k] = res[k]
        BY <3>4 DEF ReclaimLeases, ReclaimExpired
      <4> QED
        BY <4>1, <4>2, <2>a, <2>b, StillHeld
    <3>5. CASE SweepLeases(r)
      <4>1. UNCHANGED <<tx, tasks>> /\ pc[r] # "work"
            /\ \A q \in Runs : q # r => pc'[q] = pc[q]
        BY <3>5, <2>c DEF SweepLeases
      <4>2. tx[k].open => res'[k] = res[k]
        BY <3>5, <2>b DEF SweepLeases, SweepExhausted, Exhausted
      <4> QED
        BY <4>1, <4>2, <2>a, <2>b, StillHeld
    <3>6. ASSUME NEW S \in SUBSET Rows, ClaimPending(r, S) PROVE HoldsItsRow(k)'
      <4>1. UNCHANGED tx /\ pc[r] # "work"
            /\ \A q \in Runs : q # r => pc'[q] = pc[q] /\ tasks'[q] = tasks[q]
        BY <3>6, <2>c DEF ClaimPending
      <4>2. tx[k].open => res'[k] = res[k]
        BY <3>6, <2>b DEF ClaimPending, ClaimRows, Claimable
      <4> QED
        BY <4>1, <4>2, <2>a, <2>b, StillHeld
    <3>7. ASSUME NEW j \in Rows, Release(r, j) \/ TaskLost(r, j) PROVE HoldsItsRow(k)'
      <4>1. /\ UNCHANGED pc
            /\ \A q \in Runs : tasks[q] \ {j} \subseteq tasks'[q]
            /\ \A q \in Runs : q # r => tasks'[q] = tasks[q]
        BY <3>7, <2>c DEF Release, ReleaseSuccess, BeginRelease, CommitRelease,
                          ReleaseRetryable, ReleasePermanent, TaskLost, TaskEnds
      <4>2. CASE j # k
        <5>1. res'[k] = res[k] /\ tx'[k] = tx[k]
          BY <3>7, <4>2 DEF Release, ReleaseSuccess, BeginRelease, CommitRelease, CompleteRow,
                            ReleaseRetryable, ReleasePermanent, TaskLost, TypeOK
        <5> QED
          BY <4>1, <4>2, <5>1, <2>a, <2>b, StillHeld
      <4>3. CASE j = k /\ tx[k].open /\ Owns(r, k)
        <5>1. ~tx'[k].open
          BY <3>7, <4>3, <2>a, <2>c DEF Release, ReleaseSuccess, BeginRelease, CommitRelease,
             ReleaseRetryable, ReleasePermanent, TaskLost, InFlight, Releasing, HoldsItsRow,
             Closed, TypeOK
        <5> QED
          BY <5>1 DEF HoldsItsRow
      <4>4. CASE j = k /\ tx[k].open /\ ~Owns(r, k)
        <5>1. res' = res /\ tx' = tx
          BY <3>7, <4>4, <2>a DEF Release, ReleaseSuccess, BeginRelease, CommitRelease,
             ReleaseRetryable, ReleasePermanent, TaskLost, Releasing, HoldsItsRow
        <5>2. res[k].owner # r
          BY <4>4 DEF Owns
        <5> QED
          BY <4>1, <5>1, <5>2, <2>a, <2>b, StillHeld
      <4>5. CASE j = k /\ ~tx[k].open
        <5>1. ASSUME NEW s \in Scores \cup {NoScore}, BeginRelease(r, k, s), Owns(r, k)
              PROVE  HoldsItsRow(k)'
          <6>1. tx'[k] = [open |-> TRUE, score |-> s, advance |-> ComputeAdvance(k, s)]
                /\ UNCHANGED <<res, tasks>> /\ pc[r] = "work" /\ k \in tasks[r] /\ ReadCommitted
            BY <5>1 DEF BeginRelease, InFlight, TypeOK
          <6>2. res[k].owner = r /\ res[k].state = "running"
            BY <5>1, AiRunAssumption DEF Owns, LeaseCoherent
          <6>3. ComputeAdvance(k, s) \in {"no_change", Verdict(s)}
            BY DEF ComputeAdvance, Verdict
          <6> QED
            BY <6>1, <6>2, <6>3, <4>1 DEF HoldsItsRow, Verdict
        <5>2. CASE ~\E s \in Scores \cup {NoScore} : BeginRelease(r, k, s) /\ Owns(r, k)
          <6>1. ~tx'[k].open
            BY <3>7, <4>5, <5>2 DEF Release, ReleaseSuccess, BeginRelease, CommitRelease,
               ReleaseRetryable, ReleasePermanent, TaskLost, Releasing
          <6> QED
            BY <6>1 DEF HoldsItsRow
        <5> QED
          BY <5>1, <5>2
      <4> QED
        BY <4>2, <4>3, <4>4, <4>5
    <3>8. CASE Crash(r)
      <4>1. CASE Releasing(r, k)
        <5>1. ~tx'[k].open
          BY <3>8, <4>1 DEF Crash, Closed
        <5> QED
          BY <5>1 DEF HoldsItsRow
      <4>2. CASE ~Releasing(r, k)
        <5>1. tx[k].open => res[k].owner # r
          BY <4>2 DEF Releasing, Owns
        <5>2. tx'[k] = tx[k] /\ UNCHANGED res
              /\ \A q \in Runs : q # r => pc'[q] = pc[q] /\ tasks'[q] = tasks[q]
          BY <3>8, <4>2, <2>c DEF Crash
        <5> QED
          BY <5>1, <5>2, <2>a, <2>b, StillHeld
      <4> QED
        BY <4>1, <4>2
    <3> QED
      BY <2>5, <3>1, <3>2, <3>3, <3>4, <3>5, <3>6, <3>7, <3>8 DEF RunStep
  <2> QED
    BY <2>1, <2>2, <2>3, <2>4, <2>5 DEF Next
<1> QED
  BY <1>1, <1>2, AiRunTyped, AiRunLeaseCoherent, PTL DEF Spec

-----------------------------------------------------------------------------
(* Articles.                                                               *)

\* Some row of the article is settled by this step, with that verdict.
JudgedBy(a, k, s) ==
    /\ k[1] = a
    /\ res'[k] = Completed(res[k], s)
    /\ art'[a] = Verdict(s)

ArticleStep(a) ==
    \/ art'[a] = art[a]
    \/ art[a] = "absent" /\ art'[a] = "persisted" /\ res' = res
    \/ art[a] = "ready_for_publish" /\ art'[a] = "published" /\ res' = res
    \/ /\ art[a] = "persisted" /\ art'[a] = "ai_pending"
       /\ \E k \in Rows : k[1] = a /\ res[k].state = "absent" /\ res'[k] = PendingRow
    \/ /\ art[a] \in AiPhase
       /\ \E k \in Rows, s \in Scores \cup {NoScore} : JudgedBy(a, k, s)

\* A result stored with an article update that is its verdict or nothing does
\* to every article one of the things ArticleStep lists.
LEMMA VerdictStep ==
    ASSUME TypeOK, NEW k \in Rows, NEW s \in Scores \cup {NoScore}, NEW adv,
           adv \in {"no_change", Verdict(s)},
           CompleteRow(k, s), AdvanceArticle(k[1], adv), NEW a \in Articles
    PROVE  ArticleStep(a)
<1>1. res'[k] = Completed(res[k], s)
  BY DEF CompleteRow, TypeOK
<1>2. CASE art'[a] = art[a]
  BY <1>2 DEF ArticleStep
<1>3. CASE art'[a] # art[a]
  <2>1. a = k[1] /\ art[a] \in AiPhase /\ art'[a] = adv /\ adv # "no_change"
    BY <1>3, RowArticle DEF AdvanceArticle, TypeOK
  <2> QED
    BY <1>1, <2>1 DEF ArticleStep, JudgedBy
<1> QED
  BY <1>2, <1>3

\* Every step does to every article one of the things ArticleStep lists.
LEMMA ArticlesStep ==
    ASSUME TypeOK, OpenReleaseHoldsItsRow, [Next]_vars
    PROVE  \A a \in Articles : ArticleStep(a)
<1> SUFFICES ASSUME NEW a \in Articles PROVE ArticleStep(a)
  OBVIOUS
<1>0. CASE art' = art
  BY <1>0 DEF ArticleStep
<1>1. ASSUME NEW b \in Articles, PersistArticle(b) \/ PublishArticle(b) PROVE ArticleStep(a)
  BY <1>1 DEF PersistArticle, PublishArticle, ArticleStep, TypeOK
<1>2. ASSUME NEW r \in Runs, NEW k \in Rows, TaskGenInsert(r, k) PROVE ArticleStep(a)
  BY <1>2, RowArticle DEF TaskGenInsert, InsertAndAdvance, ArticleStep, TypeOK
<1>3. ASSUME NEW r \in Runs, NEW k \in Rows, Release(r, k) PROVE ArticleStep(a)
  <2>1. ASSUME NEW s \in Scores \cup {NoScore}, ReleaseSuccess(r, k, s) PROVE ArticleStep(a)
    <3>1. ComputeAdvance(k, s) \in {"no_change", Verdict(s)}
      BY DEF ComputeAdvance, Verdict
    <3> QED
      BY <2>1, <3>1, <1>0, VerdictStep DEF ReleaseSuccess
  <2>2. CASE CommitRelease(r, k)
    <3>1. tx[k].score \in Scores \cup {NoScore} /\ tx[k].advance \in {"no_change", Verdict(tx[k].score)}
      BY <2>2 DEF CommitRelease, Releasing, OpenReleaseHoldsItsRow, TypeOK, Tx
    <3> QED
      BY <2>2, <3>1, VerdictStep DEF CommitRelease
  <2>3. ASSUME NEW s \in Scores \cup {NoScore}, BeginRelease(r, k, s) PROVE art' = art
    BY <2>3 DEF BeginRelease
  <2>4. CASE ReleaseRetryable(r, k) \/ ReleasePermanent(r, k)
    BY <2>4, <1>0 DEF ReleaseRetryable, ReleasePermanent
  <2> QED
    BY <1>0, <1>3, <2>1, <2>2, <2>3, <2>4 DEF Release
<1>4. ASSUME NEW r \in Runs, RunStep(r) PROVE ArticleStep(a)
  <2>1. ASSUME NEW k \in Rows, TaskGenInsertFails(r, k) \/ TaskLost(r, k) PROVE art' = art
    BY <2>1 DEF TaskGenInsertFails, TaskLost, db
  <2>2. ASSUME NEW S \in SUBSET Rows, ClaimPending(r, S) PROVE art' = art
    BY <2>2 DEF ClaimPending
  <2>3. CASE \/ TaskGenList(r) \/ TaskGenListFails(r) \/ TaskGenDone(r)
             \/ MaintenanceFails(r) \/ EndRun(r) \/ EndBatch(r) \/ Crash(r)
             \/ ReclaimLeases(r) \/ SweepLeases(r)
    BY <2>3, <1>0 DEF TaskGenList, TaskGenListFails, TaskGenDone, MaintenanceFails,
                      EndRun, EndBatch, Crash, ReclaimLeases, SweepLeases, db
  <2> QED
    BY <1>0, <1>2, <1>3, <1>4, <2>1, <2>2, <2>3 DEF RunStep
<1>5. ASSUME NEW k \in Rows, LeaseExpires(k) PROVE art' = art
  BY <1>5 DEF LeaseExpires
<1>6. ASSUME NEW b \in Articles, NEW v \in Versions, BackfillInsert(b, v) PROVE art' = art
  BY <1>6 DEF BackfillInsert
<1>7. CASE UNCHANGED vars
  BY <1>7, <1>0 DEF vars
<1> QED
  BY <1>0, <1>1, <1>4, <1>5, <1>6, <1>7 DEF Next

\* Articles only take the transitions of their state machine; an article that
\* is ready, published or skipped is never taken back by a late AI result.
THEOREM AiRunArticleMovesForward == Spec => ArticleMovesForward
<1>1. TypeOK /\ OpenReleaseHoldsItsRow /\ [Next]_vars
        => [\A a \in Articles : art'[a] # art[a] => <<art[a], art'[a]>> \in ArticleSteps]_vars
  <2> SUFFICES ASSUME TypeOK, OpenReleaseHoldsItsRow, [Next]_vars,
                      NEW a \in Articles, art'[a] # art[a]
               PROVE  <<art[a], art'[a]>> \in ArticleSteps
    OBVIOUS
  <2>1. ArticleStep(a)
    BY ArticlesStep
  <2>2. \A s : Verdict(s) \in {"ai_done", "ready_for_publish", "publish_skipped"}
    BY DEF Verdict
  <2>3. art[a] \in AiPhase /\ art'[a] \in {"ai_done", "ready_for_publish", "publish_skipped"}
          => <<art[a], art'[a]>> \in ArticleSteps
    BY DEF ArticleSteps
  <2> QED
    BY <2>1, <2>2, <2>3 DEF ArticleStep, JudgedBy, ArticleSteps
<1> QED
  BY <1>1, AiRunTyped, AiRunOpenReleaseHoldsItsRow, PTL DEF Spec, ArticleMovesForward

-----------------------------------------------------------------------------
(* The state of an article and the states of its rows.                     *)

\* A row appears only under an article that exists, never disappears, and is
\* frozen once it is terminal.
LEMMA RowsPersist ==
    ASSUME TypeOK, LeaseCoherent, [Next]_vars, NEW k \in Rows
    PROVE  /\ res[k].state # "absent" => res'[k].state # "absent"
           /\ res[k].state = "absent" =>
                \/ res'[k] = res[k]
                \/ art[k[1]] # "absent" /\ res'[k] = PendingRow
           /\ res[k].state \in Terminal => res'[k] = res[k]
<1>1. RowStep(k) /\ res[k] \in Row
  BY RowSteps DEF TypeOK
<1>2. res[k].owner \in Runs => res[k].state = "running"
  BY AiRunAssumption DEF LeaseCoherent
<1>3. res[k].lease = "live" => res[k].state = "running"
  BY DEF LeaseCoherent
<1>4. PendingRow.state = "pending"
  BY DEF PendingRow, Unleased
<1>5. \A st : Unleased(res[k], st).state = st
  BY DEF Unleased
<1>6. \A s : Completed(res[k], s).state \in {"filtered", "succeeded"}
  BY DEF Completed
<1>7. \A r : Claimed(res[k], r).state = "running"
  BY DEF Claimed
<1>8. [res[k] EXCEPT !.lease = "expired"].state = res[k].state
  BY <1>1 DEF Row
<1>9. res[k].state # "absent" => res'[k].state # "absent"
  BY <1>1, <1>2, <1>3, <1>4, <1>5, <1>6, <1>7, <1>8 DEF RowStep
<1>10. res[k].state = "absent" => res'[k] = res[k] \/ (art[k[1]] # "absent" /\ res'[k] = PendingRow)
  BY <1>1, <1>2, <1>3 DEF RowStep, Claimable, Expired, Exhausted
<1>11. res[k].state \in Terminal => res'[k] = res[k]
  BY <1>1, <1>2, <1>3 DEF RowStep, Claimable, Expired, Exhausted, Terminal
<1> QED
  BY <1>9, <1>10, <1>11

\* An article's state is always backed by a row that justifies it.
THEOREM AiRunArticleStateJustified == Spec => []ArticleStateJustified
<1>1. Init => ArticleStateJustified
  BY DEF Init, ArticleStateJustified, RowsOf, AbsentRow
<1>2. /\ TypeOK /\ LeaseCoherent /\ OpenReleaseHoldsItsRow
      /\ ArticleStateJustified /\ [Next]_vars
      => ArticleStateJustified'
  <2> SUFFICES ASSUME TypeOK, LeaseCoherent, OpenReleaseHoldsItsRow,
                      ArticleStateJustified, [Next]_vars, NEW a \in Articles
      PROVE /\ art'[a] = "absent" => RowsOf(a)' = {}
            /\ art'[a] = "ai_pending" => RowsOf(a)' # {}
            /\ art'[a] = "ai_done" => \E k \in RowsOf(a)' : res'[k].state = "succeeded"
            /\ art'[a] \in {"ready_for_publish", "published"} =>
                 \E k \in RowsOf(a)' : res'[k].state = "succeeded" /\ res'[k].score >= MinScore
            /\ art'[a] = "publish_skipped" => \E k \in RowsOf(a)' : res'[k].state = "filtered"
    BY DEF ArticleStateJustified
  <2>1. ArticleStep(a)
    BY ArticlesStep
  <2>2. \A k \in RowsOf(a) : k \in RowsOf(a)' /\ (res[k].state \in Terminal => res'[k] = res[k])
    BY RowsPersist DEF RowsOf
  <2>3. /\ art[a] = "absent" => RowsOf(a) = {}
        /\ art[a] = "ai_pending" => RowsOf(a) # {}
        /\ art[a] = "ai_done" => \E k \in RowsOf(a) : res[k].state = "succeeded"
        /\ art[a] \in {"ready_for_publish", "published"} =>
             \E k \in RowsOf(a) : res[k].state = "succeeded" /\ res[k].score >= MinScore
        /\ art[a] = "publish_skipped" => \E k \in RowsOf(a) : res[k].state = "filtered"
    BY DEF ArticleStateJustified
  <2>4. "succeeded" \in Terminal /\ "filtered" \in Terminal
    BY DEF Terminal
  <2>5. CASE art'[a] = art[a]
    <3>1. art[a] = "absent" => RowsOf(a)' = {}
      BY <2>3, RowsPersist DEF RowsOf
    <3> QED
      BY <2>2, <2>3, <2>4, <2>5, <3>1
  <2>6. CASE art'[a] = "persisted"
    BY <2>6
  <2>7. CASE art[a] = "ready_for_publish" /\ art'[a] = "published"
    BY <2>2, <2>3, <2>4, <2>7
  <2>8. ASSUME NEW k \in Rows, k[1] = a, res'[k] = PendingRow, art'[a] = "ai_pending"
        PROVE  RowsOf(a)' # {}
    BY <2>8 DEF RowsOf, PendingRow, Unleased
  <2>9. ASSUME NEW k \in Rows, NEW s \in Scores \cup {NoScore}, JudgedBy(a, k, s)
        PROVE  /\ k \in RowsOf(a)' /\ art'[a] = Verdict(s) /\ res'[k].score = s
               /\ res'[k].state = IF s = NoScore THEN "filtered" ELSE "succeeded"
    BY <2>9 DEF JudgedBy, RowsOf, Completed
  <2>10. CASE \E k \in Rows, s \in Scores \cup {NoScore} : JudgedBy(a, k, s)
    BY <2>9, <2>10 DEF Verdict
  <2> QED
    BY <2>1, <2>5, <2>6, <2>7, <2>8, <2>10 DEF ArticleStep
<1> QED
  BY <1>1, <1>2, AiRunTyped, AiRunLeaseCoherent, AiRunOpenReleaseHoldsItsRow, PTL DEF Spec

\* On SQLite a kept article is never skipped: the check for another succeeded
\* row and the article's update are one step.
THEOREM AiRunKeptArticleNeverSkipped == ~ReadCommitted => (Spec => KeptArticleNeverSkipped)
<1> SUFFICES ASSUME ~ReadCommitted PROVE Spec => KeptArticleNeverSkipped
  OBVIOUS
<1>1. /\ TypeOK /\ LeaseCoherent /\ OpenReleaseHoldsItsRow /\ ArticleStateJustified
      /\ [Next]_vars
      => [\A a \in Articles : art[a] = "ai_done" => art'[a] # "publish_skipped"]_vars
  <2> SUFFICES ASSUME TypeOK, LeaseCoherent, OpenReleaseHoldsItsRow, ArticleStateJustified,
                      Next, NEW a \in Articles, art[a] = "ai_done",
                      art'[a] = "publish_skipped"
               PROVE  FALSE
    BY DEF vars
  <2>1. PICK j \in Rows : j[1] = a /\ res[j].state = "succeeded"
    BY DEF ArticleStateJustified, RowsOf
  <2>2. ASSUME NEW r \in Runs, NEW k \in Rows, NEW s \in Scores \cup {NoScore},
               ReleaseSuccess(r, k, s)
        PROVE  FALSE
    <3>1. Owns(r, k) /\ AdvanceArticle(k[1], ComputeAdvance(k, s))
      BY <2>2 DEF ReleaseSuccess
    <3>2. a = k[1] /\ ComputeAdvance(k, s) = "publish_skipped"
      BY <3>1, RowArticle DEF AdvanceArticle, TypeOK
    <3>3. j # k
      BY <2>1, <3>1, AiRunAssumption DEF Owns, LeaseCoherent
    <3> QED
      BY <2>1, <3>2, <3>3 DEF ComputeAdvance
  <2>3. ASSUME NEW r \in Runs, NEW k \in Rows, CommitRelease(r, k) PROVE FALSE
    BY <2>3 DEF CommitRelease, Releasing, OpenReleaseHoldsItsRow
  <2>4. art' # art
    OBVIOUS
  <2>5. ASSUME NEW r \in Runs, NEW k \in Rows, TaskGenInsert(r, k) PROVE FALSE
    BY <2>5, RowArticle DEF TaskGenInsert, InsertAndAdvance, TypeOK
  <2>6. ASSUME NEW b \in Articles, PersistArticle(b) \/ PublishArticle(b) PROVE FALSE
    BY <2>6 DEF PersistArticle, PublishArticle, TypeOK
  <2>7. ASSUME NEW r \in Runs, RunStep(r) PROVE FALSE
    <3>1. ASSUME NEW k \in Rows, TaskGenInsertFails(r, k) \/ TaskLost(r, k) PROVE FALSE
      BY <3>1, <2>4 DEF TaskGenInsertFails, TaskLost, db
    <3>2. ASSUME NEW S \in SUBSET Rows, ClaimPending(r, S) PROVE FALSE
      BY <3>2, <2>4 DEF ClaimPending
    <3>3. CASE \/ TaskGenList(r) \/ TaskGenListFails(r) \/ TaskGenDone(r)
               \/ MaintenanceFails(r) \/ EndRun(r) \/ EndBatch(r) \/ Crash(r)
               \/ ReclaimLeases(r) \/ SweepLeases(r)
      BY <3>3, <2>4 DEF TaskGenList, TaskGenListFails, TaskGenDone, MaintenanceFails,
                        EndRun, EndBatch, Crash, ReclaimLeases, SweepLeases, db
    <3>4. ASSUME NEW k \in Rows, Release(r, k) PROVE FALSE
      BY <3>4, <2>2, <2>3, <2>4 DEF Release, BeginRelease, ReleaseRetryable, ReleasePermanent
    <3> QED
      BY <2>7, <3>1, <3>2, <3>3, <3>4, <2>5 DEF RunStep
  <2> QED
    BY <2>4, <2>6, <2>7 DEF Next, BackfillInsert, LeaseExpires
<1> QED
  BY <1>1, AiRunTyped, AiRunLeaseCoherent, AiRunOpenReleaseHoldsItsRow,
     AiRunArticleStateJustified, PTL DEF Spec, KeptArticleNeverSkipped

-----------------------------------------------------------------------------
(* Without backfill: one row per article, and the state it gives.          *)

Derived(a) ==
    IF art[a] \in {"absent", "persisted"} THEN RowsOf(a) = {}
    ELSE \E k \in RowsOf(a) :
            /\ RowsOf(a) = {k}
            /\ IF art[a] = "published" THEN DerivedFrom(k) = "ready_for_publish"
                                       ELSE art[a] = DerivedFrom(k)

\* The inductive form: what an open transaction will do is the verdict.
OpenReleaseJudges == \A k \in Rows : tx[k].open => tx[k].advance = Verdict(tx[k].score)

DerivedInv == \A a \in Articles : Derived(a)

\* A change of a row that is not its result.
Quiet(k) ==
    \/ res'[k] = res[k]
    \/ /\ res[k].state \in {"pending", "running"}
       /\ res'[k].state \in {"pending", "running", "permanent_failed"}

\* A step that leaves the article and the state and score of its rows alone keeps it derived.
LEMMA QuietKeepsDerived ==
    ASSUME NEW a \in Articles, Derived(a),
           \A k \in Rows : k[1] = a => Quiet(k),
           \/ art'[a] = art[a]
           \/ art[a] = "absent" /\ art'[a] = "persisted"
           \/ art[a] = "ready_for_publish" /\ art'[a] = "published"
    PROVE  Derived(a)'
<1>1. RowsOf(a)' = RowsOf(a)
  BY DEF RowsOf, Quiet
<1>2. ASSUME NEW k \in RowsOf(a) PROVE DerivedFrom(k)' = DerivedFrom(k)
  <2>1. k \in Rows /\ Quiet(k)
    BY DEF RowsOf
  <2> QED
    BY <2>1 DEF Quiet, DerivedFrom, Verdict
<1> QED
  BY <1>1, <1>2 DEF Derived

\* A running row is the only row of its article, which waits for it.
LEMMA RunningIsAlone ==
    ASSUME DerivedInv, NEW k \in Rows, res[k].state = "running"
    PROVE  /\ art[k[1]] = "ai_pending"
           /\ \A j \in Rows : j[1] = k[1] /\ j # k => res[j].state = "absent"
           /\ \A s : ComputeAdvance(k, s) = Verdict(s)
<1>1. k[1] \in Articles /\ k \in RowsOf(k[1])
  BY RowArticle DEF RowsOf
<1>2. Derived(k[1])
  BY <1>1 DEF DerivedInv
<1>3. RowsOf(k[1]) = {k} /\ DerivedFrom(k) = "ai_pending" /\ art[k[1]] = "ai_pending"
  BY <1>1, <1>2 DEF Derived, DerivedFrom
<1>4. \A j \in Rows : j[1] = k[1] /\ j # k => res[j].state = "absent"
  BY <1>3 DEF RowsOf
<1>5. \A s : ComputeAdvance(k, s) = Verdict(s)
  BY <1>3, <1>4 DEF ComputeAdvance, Verdict, AiPhase
<1> QED
  BY <1>3, <1>4, <1>5

\* Storing a result and applying its verdict keeps the article derived.
LEMMA ResultKeepsDerived ==
    ASSUME TypeOK, DerivedInv, NEW k \in Rows, res[k].state = "running",
           NEW s \in Scores \cup {NoScore},
           CompleteRow(k, s), AdvanceArticle(k[1], Verdict(s)), NEW a \in Articles
    PROVE  Derived(a)'
<1>1. CASE a # k[1]
  <2>1. art'[a] = art[a]
    BY <1>1, RowArticle DEF AdvanceArticle, TypeOK
  <2>2. \A j \in Rows : j[1] = a => res'[j] = res[j]
    BY <1>1 DEF CompleteRow, TypeOK
  <2> QED
    BY <2>1, <2>2, QuietKeepsDerived DEF Quiet, DerivedInv
<1>2. CASE a = k[1]
  <2>1. /\ art[a] = "ai_pending"
        /\ \A j \in Rows : j[1] = a /\ j # k => res[j].state = "absent"
    BY <1>2, RunningIsAlone
  <2>2. Verdict(s) # "no_change" /\ Verdict(s) \notin {"absent", "persisted", "published"}
    BY DEF Verdict
  <2>3. art'[a] = Verdict(s)
    BY <1>2, <2>1, <2>2 DEF AdvanceArticle, AiPhase, TypeOK
  <2>4. res'[k] = Completed(res[k], s) /\ \A j \in Rows : j # k => res'[j] = res[j]
    BY DEF CompleteRow, TypeOK
  <2>5. RowsOf(a)' = {k}
    BY <1>2, <2>1, <2>4 DEF RowsOf, Completed
  <2>6. DerivedFrom(k)' = Verdict(s)
    BY <2>4 DEF DerivedFrom, Completed, Verdict
  <2> QED
    BY <2>2, <2>3, <2>5, <2>6 DEF Derived
<1> QED
  BY <1>1, <1>2

\* Task generation gives a persisted article its first and only row.
LEMMA InsertKeepsDerived ==
    ASSUME TypeOK, DerivedInv, NEW k \in Rows, InsertAndAdvance(k), NEW a \in Articles
    PROVE  Derived(a)'
<1>1. CASE art'[a] = art[a] /\ \A j \in Rows : j[1] = a => res'[j] = res[j]
  BY <1>1, QuietKeepsDerived DEF Quiet, DerivedInv
<1>2. CASE ~(art'[a] = art[a] /\ \A j \in Rows : j[1] = a => res'[j] = res[j])
  <2>1. /\ art[k[1]] = "persisted"
        /\ res' = [res EXCEPT ![k] = PendingRow]
        /\ art' = [art EXCEPT ![k[1]] = "ai_pending"]
    BY <1>2 DEF InsertAndAdvance
  <2>2. a = k[1]
    BY <1>2, <2>1 DEF TypeOK
  <2>3. RowsOf(a) = {}
    BY <2>1, <2>2 DEF DerivedInv, Derived
  <2>4. art'[a] = "ai_pending" /\ res'[k].state = "pending"
        /\ \A j \in Rows : j # k => res'[j] = res[j]
    BY <2>1, <2>2 DEF TypeOK, PendingRow, Unleased
  <2>5. RowsOf(a)' = {k}
    BY <2>2, <2>3, <2>4 DEF RowsOf
  <2>6. DerivedFrom(k)' = "ai_pending"
    BY <2>4 DEF DerivedFrom
  <2> QED
    BY <2>4, <2>5, <2>6 DEF Derived
<1> QED
  BY <1>1, <1>2

\* Every step of a run but task generation and results leaves the articles
\* alone and is quiet.
LEMMA QuietSteps ==
    ASSUME TypeOK, LeaseCoherent, NEW r \in Runs,
           \/ TaskGenList(r) \/ TaskGenListFails(r) \/ TaskGenDone(r)
           \/ MaintenanceFails(r) \/ EndRun(r) \/ EndBatch(r) \/ Crash(r)
           \/ ReclaimLeases(r) \/ SweepLeases(r)
           \/ \E S \in SUBSET Rows : ClaimPending(r, S)
           \/ \E k \in Rows : \/ TaskGenInsertFails(r, k) \/ TaskLost(r, k)
                              \/ ReleaseRetryable(r, k) \/ ReleasePermanent(r, k)
                              \/ \E s \in Scores \cup {NoScore} : BeginRelease(r, k, s)
    PROVE  art' = art /\ \A k \in Rows : Quiet(k)
<1>1. CASE res' = res /\ art' = art
  BY <1>1 DEF Quiet
<1>2. CASE ReclaimLeases(r)
  BY <1>2 DEF ReclaimLeases, ReclaimExpired, Expired, Unleased, Quiet
<1>3. CASE SweepLeases(r)
  BY <1>3 DEF SweepLeases, SweepExhausted, Exhausted, Unleased, Quiet
<1>4. ASSUME NEW S \in SUBSET Rows, ClaimPending(r, S)
      PROVE  art' = art /\ \A k \in Rows : Quiet(k)
  <2>1. \A k \in Rows : Claimed(res[k], r).state = "running"
    BY DEF Claimed
  <2> QED
    BY <1>4, <2>1 DEF ClaimPending, ClaimRows, Claimable, Quiet
<1>5. ASSUME NEW j \in Rows, ReleaseRetryable(r, j) \/ ReleasePermanent(r, j)
      PROVE  art' = art /\ \A k \in Rows : Quiet(k)
  <2>1. Owns(r, j) => res[j].state = "running"
    BY AiRunAssumption DEF Owns, LeaseCoherent
  <2>2. Unleased(res[j], "pending").state = "pending"
        /\ Unleased(res[j], "permanent_failed").state = "permanent_failed"
    BY DEF Unleased
  <2>3. \/ res' = res
        \/ Owns(r, j) /\ res' = [res EXCEPT ![j] = Unleased(@, "pending")]
        \/ Owns(r, j) /\ res' = [res EXCEPT ![j] = Unleased(@, "permanent_failed")]
    BY <1>5 DEF ReleaseRetryable, ReleasePermanent
  <2>4. art' = art
    BY <1>5 DEF ReleaseRetryable, ReleasePermanent
  <2> QED
    BY <2>1, <2>2, <2>3, <2>4 DEF Quiet, TypeOK
<1>6. ASSUME NEW j \in Rows, \/ TaskGenInsertFails(r, j) \/ TaskLost(r, j)
                             \/ \E s \in Scores \cup {NoScore} : BeginRelease(r, j, s)
      PROVE  res' = res /\ art' = art
  BY <1>6 DEF TaskGenInsertFails, TaskLost, BeginRelease, db
<1>7. CASE \/ TaskGenList(r) \/ TaskGenListFails(r) \/ TaskGenDone(r)
           \/ MaintenanceFails(r) \/ EndRun(r) \/ EndBatch(r) \/ Crash(r)
  BY <1>7, <1>1 DEF TaskGenList, TaskGenListFails, TaskGenDone, MaintenanceFails,
                    EndRun, EndBatch, Crash, db
<1> QED
  BY <1>1, <1>2, <1>3, <1>4, <1>5, <1>6, <1>7

\* A transaction that is open after a step was open before it, or was begun by
\* the step with the advance computed there.
LEMMA OpenedBy ==
    ASSUME TypeOK, LeaseCoherent, Next, NEW k \in Rows, tx'[k].open
    PROVE  \/ tx'[k] = tx[k]
           \/ /\ res[k].state = "running"
              /\ tx'[k].advance = ComputeAdvance(k, tx'[k].score)
<1>1. CASE tx' = tx
  BY <1>1
<1>2. ASSUME NEW r \in Runs, NEW j \in Rows, NEW s \in Scores \cup {NoScore},
             BeginRelease(r, j, s)
      PROVE  \/ tx'[k] = tx[k]
             \/ /\ res[k].state = "running"
                /\ tx'[k].advance = ComputeAdvance(k, tx'[k].score)
  <2>1. CASE Owns(r, j)
    <3>1. res[j].state = "running"
      BY <2>1, AiRunAssumption DEF Owns, LeaseCoherent
    <3>2. tx' = [tx EXCEPT ![j] = [open |-> TRUE, score |-> s, advance |-> ComputeAdvance(j, s)]]
      BY <1>2, <2>1 DEF BeginRelease
    <3> QED
      BY <3>1, <3>2 DEF TypeOK
  <2>2. CASE ~Owns(r, j)
    BY <1>2, <2>2 DEF BeginRelease
  <2> QED
    BY <2>1, <2>2
<1>3. ASSUME NEW r \in Runs, NEW j \in Rows, CommitRelease(r, j) \/ TaskLost(r, j)
      PROVE  tx'[k] = tx[k]
  BY <1>3 DEF CommitRelease, TaskLost, Closed, TypeOK
<1>4. ASSUME NEW r \in Runs, Crash(r) PROVE tx'[k] = tx[k]
  BY <1>4 DEF Crash, Closed, TypeOK
<1>5. ASSUME NEW r \in Runs, RunStep(r) PROVE \/ tx'[k] = tx[k]
             \/ /\ res[k].state = "running"
                /\ tx'[k].advance = ComputeAdvance(k, tx'[k].score)
  <2>1. ASSUME NEW j \in Rows, \/ TaskGenInsert(r, j) \/ TaskGenInsertFails(r, j)
                               \/ ReleaseRetryable(r, j) \/ ReleasePermanent(r, j)
                               \/ \E s \in Scores \cup {NoScore} : ReleaseSuccess(r, j, s)
        PROVE  tx' = tx
    BY <2>1 DEF TaskGenInsert, TaskGenInsertFails, ReleaseRetryable, ReleasePermanent,
                ReleaseSuccess, db
  <2>2. ASSUME NEW S \in SUBSET Rows, ClaimPending(r, S) PROVE tx' = tx
    BY <2>2 DEF ClaimPending
  <2>3. CASE \/ TaskGenList(r) \/ TaskGenListFails(r) \/ TaskGenDone(r)
             \/ MaintenanceFails(r) \/ EndRun(r) \/ EndBatch(r)
             \/ ReclaimLeases(r) \/ SweepLeases(r)
    BY <2>3, <1>1 DEF TaskGenList, TaskGenListFails, TaskGenDone, MaintenanceFails,
                      EndRun, EndBatch, ReclaimLeases, SweepLeases, db
  <2> QED
    BY <1>5, <1>2, <1>3, <1>4, <2>1, <2>2, <2>3 DEF RunStep, Release
<1> QED
  BY <1>5 DEF Next, PersistArticle, PublishArticle, BackfillInsert, LeaseExpires

\* Without backfill an article never has two rows and its state is exactly what
\* its row says, on either database and however runs overlap.
THEOREM AiRunArticleIsDerived == Spec => []ArticleIsDerived
<1>1. CASE Backfill
  <2>1. ArticleIsDerived
    BY <1>1 DEF ArticleIsDerived
  <2> QED
    BY <2>1, PTL
<1>2. CASE ~Backfill
  <2> DEFINE J == DerivedInv /\ OpenReleaseJudges
  <2>1. Init => J
    BY DEF Init, DerivedInv, Derived, OpenReleaseJudges, RowsOf, AbsentRow, Closed
  <2>2. TypeOK /\ LeaseCoherent /\ OpenReleaseHoldsItsRow /\ J /\ [Next]_vars => J'
    <3> SUFFICES ASSUME TypeOK, LeaseCoherent, OpenReleaseHoldsItsRow, J, [Next]_vars
                 PROVE  J'
      OBVIOUS
    <3>1. CASE UNCHANGED vars
      BY <3>1 DEF vars, DerivedInv, Derived, OpenReleaseJudges, RowsOf, DerivedFrom, Verdict
    <3>2. CASE Next
      <4>1. OpenReleaseJudges'
        <5> SUFFICES ASSUME NEW k \in Rows, tx'[k].open
                     PROVE  tx'[k].advance = Verdict(tx'[k].score)
          BY DEF OpenReleaseJudges, Verdict
        <5>1. res[k].state = "running" => \A s : ComputeAdvance(k, s) = Verdict(s)
          BY RunningIsAlone
        <5> QED
          BY <3>2, <5>1, OpenedBy DEF OpenReleaseJudges
      <4>2. ASSUME NEW a \in Articles PROVE Derived(a)'
        <5>a. Derived(a)
          BY DEF DerivedInv
        <5>b. CASE art' = art /\ \A k \in Rows : Quiet(k)
          BY <5>a, <5>b, QuietKeepsDerived
        <5>1. ASSUME NEW b \in Articles, PersistArticle(b) \/ PublishArticle(b)
              PROVE  Derived(a)'
          <6>1. \A k \in Rows : Quiet(k)
            BY <5>1 DEF PersistArticle, PublishArticle, Quiet
          <6>2. \/ art'[a] = art[a]
                \/ art[a] = "absent" /\ art'[a] = "persisted"
                \/ art[a] = "ready_for_publish" /\ art'[a] = "published"
            BY <5>1 DEF PersistArticle, PublishArticle, TypeOK
          <6> QED
            BY <5>a, <6>1, <6>2, QuietKeepsDerived
        <5>2. ASSUME NEW k \in Rows, LeaseExpires(k) PROVE Derived(a)'
          <6>1. \A j \in Rows : Quiet(j)
            <7>1. res[k].state = "running" /\ res[k] \in Row
              BY <5>2 DEF LeaseExpires, LeaseCoherent, TypeOK
            <7>2. res'[k].state = "running" /\ \A j \in Rows : j # k => res'[j] = res[j]
              BY <5>2, <7>1 DEF LeaseExpires, TypeOK, Row
            <7> QED
              BY <7>1, <7>2 DEF Quiet
          <6>2. art' = art
            BY <5>2 DEF LeaseExpires
          <6> QED
            BY <6>1, <6>2, <5>b
        <5>3. ASSUME NEW r \in Runs, NEW k \in Rows, TaskGenInsert(r, k) PROVE Derived(a)'
          BY <5>3, InsertKeepsDerived DEF TaskGenInsert
        <5>4. ASSUME NEW r \in Runs, NEW k \in Rows, NEW s \in Scores \cup {NoScore},
                     ReleaseSuccess(r, k, s)
              PROVE  Derived(a)'
          <6>1. CASE Owns(r, k)
            <7>1. res[k].state = "running"
              BY <6>1, AiRunAssumption DEF Owns, LeaseCoherent
            <7>2. ComputeAdvance(k, s) = Verdict(s)
              BY <7>1, RunningIsAlone
            <7> QED
              BY <5>4, <6>1, <7>1, <7>2, ResultKeepsDerived DEF ReleaseSuccess
          <6>2. CASE ~Owns(r, k)
            BY <5>4, <6>2, <5>b DEF ReleaseSuccess, Quiet
          <6> QED
            BY <6>1, <6>2
        <5>5. ASSUME NEW r \in Runs, NEW k \in Rows, CommitRelease(r, k) PROVE Derived(a)'
          <6>1. /\ tx[k].open /\ tx[k].score \in Scores \cup {NoScore}
                /\ res[k].state = "running"
            BY <5>5 DEF CommitRelease, Releasing, OpenReleaseHoldsItsRow, TypeOK, Tx
          <6>2. tx[k].advance = Verdict(tx[k].score)
            BY <6>1 DEF OpenReleaseJudges
          <6> QED
            BY <5>5, <6>1, <6>2, ResultKeepsDerived DEF CommitRelease
        <5>6. ASSUME NEW r \in Runs, RunStep(r) PROVE Derived(a)'
          BY <5>6, <5>b, <5>3, <5>4, <5>5, QuietSteps DEF RunStep, Release
        <5> QED
          BY <3>2, <1>2, <5>1, <5>2, <5>6 DEF Next, BackfillInsert
      <4> QED
        BY <4>1, <4>2 DEF DerivedInv
    <3> QED
      BY <3>1, <3>2
  <2>3. J => ArticleIsDerived
    BY DEF DerivedInv, Derived, ArticleIsDerived
  <2> QED
    BY <2>1, <2>2, <2>3, AiRunTyped, AiRunLeaseCoherent, AiRunOpenReleaseHoldsItsRow, PTL DEF Spec
<1> QED
  BY <1>1, <1>2

-----------------------------------------------------------------------------
(* article_ai_results implements the leased queue.                         *)

\* The phase of a row is its state up to renaming, the terminal states being one.
LEMMA PhaseOf ==
    /\ Phase(PendingRow) = "queued" /\ PendingRow.owner = NoRun /\ PendingRow.attempts = 0
    /\ \A row : /\ Phase(Unleased(row, "pending")) = "queued"
                /\ Phase(Unleased(row, "permanent_failed")) = "done"
                /\ \A st : Unleased(row, st).owner = NoRun
                           /\ Unleased(row, st).attempts = row.attempts
                /\ \A s : /\ Phase(Completed(row, s)) = "done"
                          /\ Completed(row, s).owner = NoRun
                          /\ Completed(row, s).attempts = row.attempts
                /\ \A r : /\ Phase(Claimed(row, r)) = "working"
                          /\ Claimed(row, r).owner = r
                          /\ Claimed(row, r).attempts = row.attempts + 1
BY DEF Phase, PendingRow, AbsentRow, Unleased, Completed, Claimed

QPhase  == [k \in Rows |-> Phase(res[k])]
QHolder == [k \in Rows |-> res[k].owner]
QTries  == [k \in Rows |-> res[k].attempts]

\* The queue's variables at one row, before the step ...
LEMMA QPoint == \A k \in Rows : /\ QPhase[k] = Phase(res[k])
                                /\ QHolder[k] = res[k].owner
                                /\ QTries[k] = res[k].attempts
BY DEF QPhase, QHolder, QTries

\* ... and after it.
LEMMA QPointNext == \A k \in Rows : /\ QPhase'[k] = Phase(res'[k])
                                    /\ QHolder'[k] = res'[k].owner
                                    /\ QTries'[k] = res'[k].attempts
BY DEF QPhase, QHolder, QTries

\* A function that differs from another at one point, or nowhere.
LEMMA ExceptAt ==
    ASSUME NEW S, NEW f, NEW g, NEW k \in S, NEW x,
           f = [j \in S |-> f[j]], g = [j \in S |-> g[j]],
           \A j \in S : g[j] = IF j = k THEN x ELSE f[j]
    PROVE  g = [f EXCEPT ![k] = x]
OBVIOUS

\* Functions over the rows that agree everywhere are equal.
LEMMA SameFunction ==
    ASSUME NEW S, NEW f, NEW g,
           f = [j \in S |-> f[j]], g = [j \in S |-> g[j]],
           \A j \in S : g[j] = f[j]
    PROVE  g = f
OBVIOUS

\* The queue's variables are functions over the rows.
LEMMA QFunctions ==
    /\ QPhase  = [k \in Rows |-> QPhase[k]]  /\ QPhase'  = [k \in Rows |-> QPhase'[k]]
    /\ QHolder = [k \in Rows |-> QHolder[k]] /\ QHolder' = [k \in Rows |-> QHolder'[k]]
    /\ QTries  = [k \in Rows |-> QTries[k]]  /\ QTries'  = [k \in Rows |-> QTries'[k]]
BY DEF QPhase, QHolder, QTries

\* One row changes: the queue's variables change at that row only.
LEMMA OneRow ==
    ASSUME NEW k \in Rows, \A j \in Rows : j # k => res'[j] = res[j]
    PROVE  /\ QPhase'  = [QPhase EXCEPT ![k] = Phase(res'[k])]
           /\ QHolder' = [QHolder EXCEPT ![k] = res'[k].owner]
           /\ res'[k].owner = res[k].owner => QHolder' = QHolder
           /\ res'[k].attempts = res[k].attempts => QTries' = QTries
<1>1. QPhase' = [QPhase EXCEPT ![k] = Phase(res'[k])]
  <2>1. \A j \in Rows : QPhase'[j] = IF j = k THEN Phase(res'[k]) ELSE QPhase[j]
    BY QPoint, QPointNext
  <2> QED
    BY <2>1, QFunctions, ExceptAt
<1>2. QHolder' = [QHolder EXCEPT ![k] = res'[k].owner]
  <2>1. \A j \in Rows : QHolder'[j] = IF j = k THEN res'[k].owner ELSE QHolder[j]
    BY QPoint, QPointNext
  <2> QED
    BY <2>1, QFunctions, ExceptAt
<1>3. ASSUME res'[k].owner = res[k].owner PROVE QHolder' = QHolder
  <2>1. \A j \in Rows : QHolder'[j] = QHolder[j]
    BY <1>3, QPoint, QPointNext
  <2> QED
    BY <2>1, QFunctions, SameFunction
<1>4. ASSUME res'[k].attempts = res[k].attempts PROVE QTries' = QTries
  <2>1. \A j \in Rows : QTries'[j] = QTries[j]
    BY <1>4, QPoint, QPointNext
  <2> QED
    BY <2>1, QFunctions, SameFunction
<1> QED
  BY <1>1, <1>2, <1>3, <1>4

\* Rows the code has not inserted yet have never been claimed.
AbsentUnclaimed == \A k \in Rows : res[k].state = "absent" => res[k].attempts = 0

\* Inserting a row enqueues it.
LEMMA InsertEnqueues ==
    ASSUME TypeOK, LeaseCoherent, AbsentUnclaimed, NEW k \in Rows,
           res[k].state = "absent", res' = [res EXCEPT ![k] = PendingRow]
    PROVE  Queue!Enqueue({k})
<1>1. res'[k] = PendingRow /\ \A j \in Rows : j # k => res'[j] = res[j]
  BY DEF TypeOK
<1>2. res[k].owner = NoRun /\ Phase(res[k]) = "absent" /\ res[k].attempts = 0
  BY DEF LeaseCoherent, AbsentUnclaimed, Phase
<1>3. /\ QPhase[k] = "absent" /\ QPhase' = [QPhase EXCEPT ![k] = "queued"]
      /\ QHolder' = QHolder /\ QTries' = QTries
  BY <1>1, <1>2, OneRow, PhaseOf, QPoint
<1>4. QPhase' = [j \in Rows |-> IF j \in {k} THEN "queued" ELSE QPhase[j]]
  BY <1>3 DEF QPhase
<1> QED
  BY <1>3, <1>4 DEF Queue!Enqueue, QPhase, QHolder, QTries

\* The owner's release settles its row, or gives it back while there is budget.
LEMMA ReleaseSettles ==
    ASSUME TypeOK, LeaseCoherent, NEW r \in Runs, NEW k \in Rows, Owns(r, k),
           \A j \in Rows : j # k => res'[j] = res[j],
           res'[k].owner = NoRun, res'[k].attempts = res[k].attempts
    PROVE  /\ Phase(res'[k]) = "done" => Queue!Settle(r, k)
           /\ Phase(res'[k]) = "queued" /\ res[k].attempts < MaxAttempts => Queue!GiveBack(r, k)
<1>1. /\ QPhase' = [QPhase EXCEPT ![k] = Phase(res'[k])]
      /\ QHolder' = [QHolder EXCEPT ![k] = NoRun] /\ QTries' = QTries
  BY OneRow
<1>2. QPhase[k] = "working" /\ QHolder[k] = r /\ QTries[k] = res[k].attempts
  BY QPoint, AiRunAssumption DEF Owns, LeaseCoherent, Phase
<1>3. Phase(res'[k]) = "done" => Queue!Settle(r, k)
  BY <1>1, <1>2 DEF Queue!Settle, QPhase, QHolder, QTries
<1>4. Phase(res'[k]) = "queued" /\ res[k].attempts < MaxAttempts => Queue!GiveBack(r, k)
  BY <1>1, <1>2 DEF Queue!GiveBack, QPhase, QHolder, QTries
<1> QED
  BY <1>3, <1>4

\* A step that leaves phase, owner and attempts of every row alone stutters.
LEMMA QueueStutters ==
    ASSUME \A k \in Rows : /\ Phase(res'[k]) = Phase(res[k])
                           /\ res'[k].owner = res[k].owner
                           /\ res'[k].attempts = res[k].attempts
    PROVE  UNCHANGED Queue!vars
<1>1. QPhase' = QPhase
  BY QPoint, QPointNext, QFunctions, SameFunction
<1>2. QHolder' = QHolder
  BY QPoint, QPointNext, QFunctions, SameFunction
<1>3. QTries' = QTries
  BY QPoint, QPointNext, QFunctions, SameFunction
<1> QED
  BY <1>1, <1>2, <1>3 DEF Queue!vars, QPhase, QHolder, QTries

\* The three statements that change a set of rows.
LEMMA ClaimTakes ==
    ASSUME NEW r \in Runs, NEW S \in SUBSET Rows, ClaimPending(r, S)
    PROVE  Queue!Take(r, S)
<1>1. \A k \in S : k \in Rows /\ QPhase[k] = "queued" /\ QTries[k] < MaxAttempts
  BY QPoint DEF ClaimPending, Claimable, Phase
<1>2. \A k \in Rows : res'[k] = IF k \in S THEN Claimed(res[k], r) ELSE res[k]
  BY DEF ClaimPending, ClaimRows
<1>3. QPhase' = [k \in Rows |-> IF k \in S THEN "working" ELSE QPhase[k]]
  <2>1. \A k \in Rows : QPhase'[k] = IF k \in S THEN "working" ELSE QPhase[k]
    BY <1>2, QPoint, QPointNext, PhaseOf
  <2> QED
    BY <2>1, QFunctions
<1>4. QHolder' = [k \in Rows |-> IF k \in S THEN r ELSE QHolder[k]]
  <2>1. \A k \in Rows : QHolder'[k] = IF k \in S THEN r ELSE QHolder[k]
    BY <1>2, QPoint, QPointNext, PhaseOf
  <2> QED
    BY <2>1, QFunctions
<1>5. QTries' = [k \in Rows |-> IF k \in S THEN QTries[k] + 1 ELSE QTries[k]]
  <2>1. \A k \in Rows : QTries'[k] = IF k \in S THEN QTries[k] + 1 ELSE QTries[k]
    BY <1>2, QPoint, QPointNext, PhaseOf
  <2> QED
    BY <2>1, QFunctions
<1> QED
  BY <1>1, <1>3, <1>4, <1>5 DEF Queue!Take, QPhase, QHolder, QTries

\* Reclaiming expired leases evicts their holders.
LEMMA ReclaimEvicts ==
    ASSUME ReclaimExpired
    PROVE  Queue!Evict({k \in Rows : Expired(k)})
<1> DEFINE S == {k \in Rows : Expired(k)}
<1>1. \A k \in S : QPhase[k] = "working"
  BY QPoint DEF Expired, Phase
<1>2. \A k \in Rows : res'[k] = IF k \in S THEN Unleased(res[k], "pending") ELSE res[k]
  BY DEF ReclaimExpired
<1> HIDE DEF S
<1>3. QPhase' = [k \in Rows |-> IF k \in S THEN "queued" ELSE QPhase[k]]
  <2>1. \A k \in Rows : QPhase'[k] = IF k \in S THEN "queued" ELSE QPhase[k]
    BY <1>2, QPoint, QPointNext, PhaseOf
  <2> QED
    BY <2>1, QFunctions
<1>4. QHolder' = [k \in Rows |-> IF k \in S THEN NoRun ELSE QHolder[k]]
  <2>1. \A k \in Rows : QHolder'[k] = IF k \in S THEN NoRun ELSE QHolder[k]
    BY <1>2, QPoint, QPointNext, PhaseOf
  <2> QED
    BY <2>1, QFunctions
<1>5. QTries' = QTries
  <2>1. \A k \in Rows : QTries'[k] = QTries[k]
    BY <1>2, QPoint, QPointNext, PhaseOf
  <2> QED
    BY <2>1, QFunctions, SameFunction
<1>6. Queue!Evict(S)
  BY <1>1, <1>3, <1>4, <1>5 DEF Queue!Evict, QPhase, QHolder, QTries
<1> QED
  BY <1>6 DEF S

\* The sweep discards the pending rows without budget.
LEMMA SweepDiscards ==
    ASSUME LeaseCoherent, SweepExhausted
    PROVE  Queue!Discard({k \in Rows : Exhausted(k)})
<1> DEFINE S == {k \in Rows : Exhausted(k)}
<1>1. \A k \in S : QPhase[k] = "queued" /\ QTries[k] >= MaxAttempts
  BY QPoint DEF Exhausted, Phase
<1>2. \A k \in S : k \in Rows /\ res[k].owner = NoRun
  BY DEF Exhausted, LeaseCoherent
<1>3. \A k \in Rows : res'[k] = IF k \in S THEN Unleased(res[k], "permanent_failed") ELSE res[k]
  BY DEF SweepExhausted
<1> HIDE DEF S
<1>4. QPhase' = [k \in Rows |-> IF k \in S THEN "done" ELSE QPhase[k]]
  <2>1. \A k \in Rows : QPhase'[k] = IF k \in S THEN "done" ELSE QPhase[k]
    BY <1>3, QPoint, QPointNext, PhaseOf
  <2> QED
    BY <2>1, QFunctions
<1>5. QHolder' = QHolder
  <2>1. \A k \in Rows : QHolder'[k] = QHolder[k]
    BY <1>2, <1>3, QPoint, QPointNext, PhaseOf
  <2> QED
    BY <2>1, QFunctions, SameFunction
<1>6. QTries' = QTries
  <2>1. \A k \in Rows : QTries'[k] = QTries[k]
    BY <1>3, QPoint, QPointNext, PhaseOf
  <2> QED
    BY <2>1, QFunctions, SameFunction
<1>7. Queue!Discard(S)
  BY <1>1, <1>4, <1>5, <1>6 DEF Queue!Discard, QPhase, QHolder, QTries
<1> QED
  BY <1>7 DEF S

\* A task's end settles its row, gives it back, or leaves the queue alone.
LEMMA ReleaseIsQueueStep ==
    ASSUME TypeOK, LeaseCoherent, NEW r \in Runs, NEW k \in Rows, Release(r, k)
    PROVE  res' = res \/ Queue!Settle(r, k) \/ Queue!GiveBack(r, k)
<1>1. CASE res' = res
  BY <1>1
<1>2. ASSUME NEW s \in Scores \cup {NoScore}, CompleteRow(k, s), Owns(r, k)
      PROVE  Queue!Settle(r, k)
  <2>1. res'[k] = Completed(res[k], s) /\ \A j \in Rows : j # k => res'[j] = res[j]
    BY <1>2 DEF CompleteRow, TypeOK
  <2>2. /\ res'[k].owner = NoRun /\ res'[k].attempts = res[k].attempts
        /\ Phase(res'[k]) = "done"
    BY <2>1, PhaseOf
  <2> QED
    BY <1>2, <2>1, <2>2, ReleaseSettles
<1>3. ASSUME NEW st \in {"pending", "permanent_failed"}, Owns(r, k),
             res' = [res EXCEPT ![k] = Unleased(@, st)],
             st = "pending" => res[k].attempts < MaxAttempts
      PROVE  Queue!Settle(r, k) \/ Queue!GiveBack(r, k)
  <2>1. res'[k] = Unleased(res[k], st) /\ \A j \in Rows : j # k => res'[j] = res[j]
    BY <1>3 DEF TypeOK
  <2>2. /\ res'[k].owner = NoRun /\ res'[k].attempts = res[k].attempts
        /\ Phase(res'[k]) = IF st = "pending" THEN "queued" ELSE "done"
    BY <2>1, PhaseOf
  <2> QED
    BY <1>3, <2>1, <2>2, ReleaseSettles
<1>4. CASE ReleaseRetryable(r, k)
  <2>1. CASE Owns(r, k) /\ res[k].attempts >= MaxAttempts
    BY <1>3, <1>4, <2>1 DEF ReleaseRetryable
  <2>2. CASE Owns(r, k) /\ ~(res[k].attempts >= MaxAttempts)
    <3>1. res[k].attempts < MaxAttempts
      BY <2>2, AiRunAssumption DEF TypeOK, Row
    <3>2. res' = [res EXCEPT ![k] = Unleased(@, "pending")]
      BY <1>4, <2>2 DEF ReleaseRetryable
    <3> QED
      BY <1>3, <2>2, <3>1, <3>2
  <2>3. CASE ~Owns(r, k)
    BY <1>4, <2>3 DEF ReleaseRetryable
  <2> QED
    BY <2>1, <2>2, <2>3
<1>5. CASE ReleasePermanent(r, k)
  BY <1>1, <1>3, <1>5 DEF ReleasePermanent
<1>6. CASE CommitRelease(r, k)
  <2>1. tx[k].score \in Scores \cup {NoScore}
    BY DEF TypeOK, Tx
  <2> QED
    BY <1>2, <1>6, <2>1 DEF CommitRelease, Releasing
<1>7. ASSUME NEW s \in Scores \cup {NoScore}, ReleaseSuccess(r, k, s) \/ BeginRelease(r, k, s)
      PROVE  res' = res \/ Queue!Settle(r, k)
  BY <1>2, <1>7 DEF ReleaseSuccess, BeginRelease
<1> QED
  BY <1>1, <1>4, <1>5, <1>6, <1>7 DEF Release

\* A row that does not exist was never claimed.
LEMMA UnclaimedInvariant == Spec => []AbsentUnclaimed
<1>1. Init => AbsentUnclaimed
  BY DEF Init, AbsentUnclaimed, AbsentRow
<1>2. TypeOK /\ LeaseCoherent /\ AbsentUnclaimed /\ [Next]_vars => AbsentUnclaimed'
  <2> SUFFICES ASSUME TypeOK, LeaseCoherent, AbsentUnclaimed, [Next]_vars, NEW k \in Rows,
                      res'[k].state = "absent"
               PROVE  res'[k].attempts = 0
    BY DEF AbsentUnclaimed
  <2>1. res[k].state = "absent" /\ (res'[k] = res[k] \/ res'[k] = PendingRow)
    BY RowsPersist
  <2> QED
    BY <2>1, PhaseOf DEF AbsentUnclaimed
<1> QED
  BY <1>1, <1>2, AiRunTyped, AiRunLeaseCoherent, PTL DEF Spec

\* Every step of the AI stage is a step of the leased queue or invisible to it.
THEOREM AiRunImplementsLeaseQueue == Spec => ImplementsLeaseQueue
<1>1. Init => Queue!Init
  <2>1. ASSUME Init
        PROVE  /\ QPhase = [k \in Rows |-> "absent"]
               /\ QHolder = [k \in Rows |-> NoRun] /\ QTries = [k \in Rows |-> 0]
    BY <2>1 DEF Init, AbsentRow, Phase, QPhase, QHolder, QTries
  <2> QED
    BY <2>1 DEF Queue!Init, QPhase, QHolder, QTries
<1>2. TypeOK /\ LeaseCoherent /\ AbsentUnclaimed /\ [Next]_vars => [Queue!Next]_(Queue!vars)
  <2> SUFFICES ASSUME TypeOK, LeaseCoherent, AbsentUnclaimed, [Next]_vars
               PROVE  Queue!Next \/ UNCHANGED Queue!vars
    OBVIOUS
  <2>1. CASE res' = res
    BY <2>1, QueueStutters
  <2>2. ASSUME NEW a \in Articles, NEW v \in Versions, BackfillInsert(a, v) PROVE Queue!Next
    <3>1. <<a, v>> \in Rows
      BY DEF Rows
    <3> QED
      BY <2>2, <3>1, {<<a, v>>} \in SUBSET Rows, InsertEnqueues DEF BackfillInsert, Queue!Next
  <2>3. ASSUME NEW r \in Runs, NEW k \in Rows, TaskGenInsert(r, k)
        PROVE  Queue!Next \/ UNCHANGED Queue!vars
    BY <2>1, <2>3, {k} \in SUBSET Rows, InsertEnqueues
    DEF TaskGenInsert, InsertAndAdvance, Queue!Next
  <2>4. ASSUME NEW k \in Rows, LeaseExpires(k) PROVE UNCHANGED Queue!vars
    <3>1. \A j \in Rows : /\ res'[j].state = res[j].state
                          /\ res'[j].owner = res[j].owner
                          /\ res'[j].attempts = res[j].attempts
      BY <2>4 DEF LeaseExpires, TypeOK, Row
    <3>2. \A j \in Rows : Phase(res'[j]) = Phase(res[j])
      BY <3>1 DEF Phase
    <3> QED
      BY <3>1, <3>2, QueueStutters
  <2>5. ASSUME NEW r \in Runs, NEW S \in SUBSET Rows, ClaimPending(r, S) PROVE Queue!Next
    BY <2>5, ClaimTakes DEF Queue!Next
  <2>6. ASSUME NEW r \in Runs, ReclaimLeases(r) PROVE Queue!Next
    <3> DEFINE S == {k \in Rows : Expired(k)}
    <3>1. Queue!Evict(S)
      BY <2>6, ReclaimEvicts DEF ReclaimLeases
    <3>2. S \in SUBSET Rows
      OBVIOUS
    <3> HIDE DEF S
    <3>3. \E T \in SUBSET Rows : Queue!Evict(T)
      BY <3>1, <3>2 DEF Queue!Evict
    <3> QED
      BY <3>3 DEF Queue!Next
  <2>7. ASSUME NEW r \in Runs, SweepLeases(r) PROVE Queue!Next
    <3> DEFINE S == {k \in Rows : Exhausted(k)}
    <3>1. Queue!Discard(S)
      BY <2>7, SweepDiscards DEF SweepLeases
    <3>2. S \in SUBSET Rows
      OBVIOUS
    <3> HIDE DEF S
    <3> QED
      BY <3>1, <3>2 DEF Queue!Next
  <2>8. ASSUME NEW r \in Runs, NEW k \in Rows, Release(r, k)
        PROVE  Queue!Next \/ UNCHANGED Queue!vars
    BY <2>1, <2>8, ReleaseIsQueueStep DEF Queue!Next
  <2>9. ASSUME NEW r \in Runs, RunStep(r) PROVE Queue!Next \/ UNCHANGED Queue!vars
    <3>1. ASSUME NEW k \in Rows, TaskGenInsertFails(r, k) \/ TaskLost(r, k) PROVE res' = res
      BY <3>1 DEF TaskGenInsertFails, TaskLost, db
    <3>2. CASE \/ TaskGenList(r) \/ TaskGenListFails(r) \/ TaskGenDone(r)
               \/ MaintenanceFails(r) \/ EndRun(r) \/ EndBatch(r) \/ Crash(r)
      BY <3>2, <2>1 DEF TaskGenList, TaskGenListFails, TaskGenDone, MaintenanceFails,
                        EndRun, EndBatch, Crash, db
    <3> QED
      BY <2>9, <3>1, <3>2, <2>1, <2>3, <2>5, <2>6, <2>7, <2>8 DEF RunStep
  <2>10. ASSUME NEW a \in Articles, PersistArticle(a) \/ PublishArticle(a) PROVE res' = res
    BY <2>10 DEF PersistArticle, PublishArticle
  <2>11. CASE UNCHANGED vars
    BY <2>11, <2>1 DEF vars
  <2> QED
    BY <2>1, <2>2, <2>4, <2>9, <2>10, <2>11 DEF Next
<1> QED
  BY <1>1, <1>2, AiRunTyped, AiRunLeaseCoherent, UnclaimedInvariant, PTL
  DEF Spec, ImplementsLeaseQueue, Queue!Spec

-----------------------------------------------------------------------------
(* What the implemented queue promises its users, read off its steps.      *)

\* What the promise says of one row, and what a step of the queue may do to it.
QRow(k) ==
    /\ QPhase[k] \in Queue!Phases /\ QHolder[k] \in Runs \cup {NoRun}
    /\ QTries[k] \in 0..MaxAttempts
    /\ QHolder[k] # NoRun <=> QPhase[k] = "working"
    /\ QPhase[k] = "working" => QTries[k] > 0

QMoves(k) ==
    \/ QPhase'[k] = QPhase[k] /\ QHolder'[k] = QHolder[k] /\ QTries'[k] = QTries[k]
    \/ /\ QPhase[k] = "absent" /\ QPhase'[k] = "queued"
       /\ QHolder'[k] = QHolder[k] /\ QTries'[k] = QTries[k]
    \/ /\ QPhase[k] = "queued" /\ QPhase'[k] = "working" /\ QHolder'[k] \in Runs
       /\ QTries[k] < MaxAttempts /\ QTries'[k] = QTries[k] + 1
    \/ /\ QPhase[k] = "working" /\ QPhase'[k] \in {"queued", "done"} /\ QHolder'[k] = NoRun
       /\ QTries'[k] = QTries[k]
    \/ /\ QPhase[k] = "queued" /\ QPhase'[k] = "done"
       /\ QHolder'[k] = QHolder[k] /\ QTries'[k] = QTries[k]

LEMMA QueueMoves ==
    ASSUME [Queue!Next]_(Queue!vars), NEW k \in Rows
    PROVE  QMoves(k)
<1>1. /\ QPhase = [j \in Rows |-> QPhase[j]] /\ QHolder = [j \in Rows |-> QHolder[j]]
      /\ QTries = [j \in Rows |-> QTries[j]]
  BY DEF QPhase, QHolder, QTries
<1>2. CASE UNCHANGED Queue!vars
  <2>1. QPhase' = QPhase /\ QHolder' = QHolder /\ QTries' = QTries
    BY <1>2 DEF Queue!vars, QPhase, QHolder, QTries
  <2> QED  BY <2>1 DEF QMoves
<1>3. ASSUME NEW S \in SUBSET Rows, Queue!Enqueue(S) PROVE QMoves(k)
  <2>1. /\ k \in S => QPhase[k] = "absent"
        /\ QPhase' = [j \in Rows |-> IF j \in S THEN "queued" ELSE QPhase[j]]
        /\ QHolder' = QHolder /\ QTries' = QTries
    BY <1>3 DEF Queue!Enqueue, QPhase, QHolder, QTries
  <2> QED  BY <2>1 DEF QMoves
<1>4. ASSUME NEW r \in Runs, NEW S \in SUBSET Rows, Queue!Take(r, S) PROVE QMoves(k)
  <2>1. /\ k \in S => QPhase[k] = "queued" /\ QTries[k] < MaxAttempts
        /\ QPhase' = [j \in Rows |-> IF j \in S THEN "working" ELSE QPhase[j]]
        /\ QHolder' = [j \in Rows |-> IF j \in S THEN r ELSE QHolder[j]]
        /\ QTries' = [j \in Rows |-> IF j \in S THEN QTries[j] + 1 ELSE QTries[j]]
    BY <1>4 DEF Queue!Take, QPhase, QHolder, QTries
  <2> QED  BY <2>1 DEF QMoves
<1>5. ASSUME NEW r \in Runs, NEW j \in Rows, Queue!Settle(r, j) \/ Queue!GiveBack(r, j)
      PROVE  QMoves(k)
  <2>1. /\ QPhase[j] = "working" /\ QHolder' = [QHolder EXCEPT ![j] = NoRun] /\ QTries' = QTries
        /\ \/ QPhase' = [QPhase EXCEPT ![j] = "done"]
           \/ QPhase' = [QPhase EXCEPT ![j] = "queued"]
    BY <1>5 DEF Queue!Settle, Queue!GiveBack, QPhase, QHolder, QTries
  <2> QED  BY <1>1, <2>1 DEF QMoves
<1>6. ASSUME NEW r \in Runs, NEW j \in Rows, Queue!Refund(r, j) PROVE QMoves(k)
  BY <1>6 DEF Queue!Refund
<1>7. ASSUME NEW S \in SUBSET Rows, Queue!Evict(S) PROVE QMoves(k)
  <2>1. /\ k \in S => QPhase[k] = "working"
        /\ QPhase' = [j \in Rows |-> IF j \in S THEN "queued" ELSE QPhase[j]]
        /\ QHolder' = [j \in Rows |-> IF j \in S THEN NoRun ELSE QHolder[j]] /\ QTries' = QTries
    BY <1>7 DEF Queue!Evict, QPhase, QHolder, QTries
  <2> QED  BY <2>1 DEF QMoves
<1>8. ASSUME NEW S \in SUBSET Rows, Queue!Discard(S) PROVE QMoves(k)
  <2>1. /\ k \in S => QPhase[k] = "queued"
        /\ QPhase' = [j \in Rows |-> IF j \in S THEN "done" ELSE QPhase[j]]
        /\ QHolder' = QHolder /\ QTries' = QTries
    BY <1>8 DEF Queue!Discard, QPhase, QHolder, QTries
  <2> QED  BY <2>1 DEF QMoves
<1>9. ASSUME NEW S \in SUBSET Rows, Queue!Reopen(S) PROVE QMoves(k)
  BY <1>9 DEF Queue!Reopen
<1> QED
  BY <1>2, <1>3, <1>4, <1>5, <1>6, <1>7, <1>8, <1>9 DEF Queue!Next

LEMMA QueueKept ==
    ASSUME [Queue!Next]_(Queue!vars), \A k \in Rows : QRow(k)
    PROVE  (\A k \in Rows : QRow(k))'
<1> SUFFICES ASSUME NEW k \in Rows PROVE QRow(k)'
  OBVIOUS
<1>1. QMoves(k) /\ QRow(k)
  BY QueueMoves
<1>2. MaxAttempts \in Nat /\ NoRun \notin Runs
  BY AiRunAssumption
<1> QED
  BY <1>1, <1>2 DEF QMoves, QRow, Queue!Phases

LEMMA QueueRows == Spec => [](\A k \in Rows : QRow(k))
<1>1. Queue!Init => \A k \in Rows : QRow(k)
  <2> SUFFICES ASSUME Queue!Init, NEW k \in Rows PROVE QRow(k)
    OBVIOUS
  <2>1. QPhase[k] = "absent" /\ QHolder[k] = NoRun /\ QTries[k] = 0
    BY DEF Queue!Init, QPhase, QHolder, QTries
  <2> QED  BY <2>1, AiRunAssumption DEF QRow, Queue!Phases
<1>2. (\A k \in Rows : QRow(k)) /\ [Queue!Next]_(Queue!vars)
         => (\A k \in Rows : QRow(k))'
  BY QueueKept
<1> QED
  BY <1>1, <1>2, AiRunImplementsLeaseQueue, PTL DEF ImplementsLeaseQueue, Queue!Spec

\* LeaseQueue's invariants, for article_ai_results: no row is handed out more often than its
\* budget allows, and it has a holder exactly while it is worked on, and only
\* after it was handed out.
THEOREM AiRunQueueHeld == Spec => [](Queue!TypeOK /\ Queue!HeldExactlyWhileWorking)
<1>1. (\A k \in Rows : QRow(k)) => Queue!TypeOK /\ Queue!HeldExactlyWhileWorking
  <2> SUFFICES ASSUME \A k \in Rows : QRow(k)
               PROVE  Queue!TypeOK /\ Queue!HeldExactlyWhileWorking
    OBVIOUS
  <2>1. /\ QPhase \in [Rows -> Queue!Phases] /\ QHolder \in [Rows -> Runs \cup {NoRun}]
        /\ QTries \in [Rows -> 0..MaxAttempts]
    <3>1. /\ QPhase = [j \in Rows |-> QPhase[j]] /\ QHolder = [j \in Rows |-> QHolder[j]]
          /\ QTries = [j \in Rows |-> QTries[j]]
      BY DEF QPhase, QHolder, QTries
    <3> QED  BY <3>1 DEF QRow
  <2>2. \A k \in Rows :
           /\ (QHolder[k] # NoRun) <=> (QPhase[k] = "working")
           /\ QPhase[k] = "working" => QTries[k] > 0
    BY DEF QRow
  <2> QED
    BY <2>1, <2>2 DEF Queue!TypeOK, Queue!HeldExactlyWhileWorking, QPhase, QHolder, QTries
<1> QED
  BY <1>1, QueueRows, PTL

\* LeaseQueue's action property: once settled, a row is never handed out or held
\* again.
THEOREM AiRunQueueDoneIsFinal == Spec => Queue!DoneIsFinal
<1> DEFINE A == \A k \in Rows : QPhase[k] = "done" =>
                   /\ QHolder'[k] = NoRun
                   /\ \/ QPhase'[k] = "done" /\ QTries'[k] = QTries[k]
                      \/ FALSE /\ QPhase'[k] = "queued" /\ QTries'[k] = 0
<1>1. (\A k \in Rows : QRow(k)) /\ [Queue!Next]_(Queue!vars) => A
  <2> SUFFICES ASSUME \A k \in Rows : QRow(k), [Queue!Next]_(Queue!vars),
                      NEW k \in Rows, QPhase[k] = "done"
               PROVE  /\ QHolder'[k] = NoRun
                      /\ \/ QPhase'[k] = "done" /\ QTries'[k] = QTries[k]
                         \/ FALSE /\ QPhase'[k] = "queued" /\ QTries'[k] = 0
    OBVIOUS
  <2>1. QMoves(k) /\ QRow(k)
    BY QueueMoves
  <2> QED  BY <2>1 DEF QMoves, QRow
<1>2. Spec => [][A]_(Queue!vars)
  BY <1>1, QueueRows, AiRunImplementsLeaseQueue, PTL DEF ImplementsLeaseQueue, Queue!Spec
<1> QED
  BY <1>2 DEF Queue!DoneIsFinal, QPhase, QHolder, QTries
=============================================================================
