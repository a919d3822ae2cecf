---------------------------- MODULE ExtractProofs ----------------------------
(***************************************************************************)
(* Proofs about the extract stage, for any number of entries, contents and *)
(* runs and any budget.                                                    *)
(***************************************************************************)
EXTENDS Extract, TLAPS

\* Rows built without a lease, or for a run that claims them, are rows.
LEMMA UnleasedTyped ==
    ASSUME NEW st \in States, NEW n \in 0..MaxAttempts, NEW h \in Hashes \cup {NoHash}
    PROVE  Unleased(st, n, h) \in Entry
BY DEF Unleased, Entry

\* The same for a row that moves to another state.
LEMMA MovedTyped ==
    ASSUME NEW row \in Entry, NEW st \in States PROVE Moved(row, st) \in Entry
BY UnleasedTyped DEF Moved, Entry

\* The same for a row that is claimed.
LEMMA ClaimedTyped ==
    ASSUME NEW row \in Entry, row.attempts < MaxAttempts, NEW r \in Runs
    PROVE  Claimed(row, r) \in Entry
BY ExtractAssumption DEF Claimed, Entry, States

\* A finding made by a task is a finding.
LEMMA FindingTyped ==
    ASSUME NEW to \in Outcomes, NEW h \in Hashes
    PROVE  [to |-> to, hash |-> h] \in Finding
BY DEF Finding

\* A fresh row is a row.
LEMMA PendingTyped == Pending \in Entry /\ Absent \in Entry
BY UnleasedTyped, ExtractAssumption DEF Pending, Absent, States

\* Ending a task keeps the type of the run's bookkeeping.
LEMMA TaskEndsTyped ==
    ASSUME TypeOK, NEW r \in Runs, NEW e \in Entries, TaskEnds(r, e)
    PROVE  tasks' \in [Runs -> SUBSET Entries] /\ found' \in [Runs -> [Entries -> Finding]]
<1>1. Nothing \in Finding
  BY DEF Nothing, Finding
<1> QED
  BY <1>1 DEF TaskEnds, TypeOK

\* Every step of a task keeps every variable within its type.
LEMMA TypeOKTask ==
    ASSUME TypeOK, NEW r \in Runs, NEW e \in Entries, TaskStep(r, e)
    PROVE  TypeOK'
<1>a. entry[e] \in Entry
  BY DEF TypeOK
<1>b. \A st \in States : Moved(entry[e], st) \in Entry
  BY <1>a, MovedTyped
<1>1. ASSUME NEW h \in Hashes, NEW to \in Stored, PersistArticle(r, e, h, to) PROVE TypeOK'
  <2>1. [to |-> to, hash |-> h] \in Finding /\ [to |-> "dedup_skipped", hash |-> h] \in Finding
    BY FindingTyped DEF Outcomes
  <2>2. PICK f \in Finding : found' = [found EXCEPT ![r][e] = f]
    BY <1>1, <2>1 DEF PersistArticle, InsertOrGet
  <2>3. found' \in [Runs -> [Entries -> Finding]]
    BY <2>2 DEF TypeOK
  <2>4. origin' \in [Hashes -> Entries \cup {NoEntry}]
    BY <1>1 DEF PersistArticle, InsertOrGet, TypeOK
  <2> QED
    BY <1>1, <2>3, <2>4 DEF PersistArticle, TypeOK
<1>2. CASE ReleaseArticle(r, e)
  <2>1. found[r][e].to \in States /\ found[r][e].hash \in Hashes
    BY <1>2 DEF TypeOK, ReleaseArticle, Finding, Outcomes, Stored, States
  <2>2. Unleased(found[r][e].to, entry[e].attempts, found[r][e].hash) \in Entry
    BY <1>a, <2>1, UnleasedTyped DEF Entry
  <2> QED
    BY <1>2, <2>2, TaskEndsTyped DEF ReleaseArticle, TypeOK
<1>3. CASE ReleaseRetryable(r, e)
  BY <1>3, <1>b, TaskEndsTyped DEF ReleaseRetryable, TypeOK, States
<1>4. CASE ReleasePermanent(r, e)
  BY <1>4, <1>b, TaskEndsTyped DEF ReleasePermanent, TypeOK, States
<1>5. CASE TaskLost(r, e)
  BY <1>5, TaskEndsTyped DEF TaskLost, TypeOK
<1> QED
  BY <1>1, <1>2, <1>3, <1>4, <1>5 DEF TaskStep

\* So does every other step.
LEMMA TypeOKOutside ==
    ASSUME TypeOK,
           \/ \E e \in Entries : InsertEntry(e) \/ LeaseExpires(e)
           \/ \E S \in SUBSET Entries : ResetFailed(S)
           \/ \E r \in Runs :
                \/ StartRun(r) \/ ReclaimLeases(r) \/ SweepLeases(r) \/ MaintenanceFails(r)
                \/ \E S \in SUBSET Entries : ClaimPendingFetch(r, S)
                \/ EndRun(r) \/ EndBatch(r) \/ Crash(r)
    PROVE  TypeOK'
<1>a. \A e \in Entries : entry[e] \in Entry
  BY DEF TypeOK
<1>b. \A e \in Entries, st \in States : Moved(entry[e], st) \in Entry
  BY <1>a, MovedTyped
<1>c. \A e \in Entries, r \in Runs : Claimable(e) => Claimed(entry[e], r) \in Entry
  BY <1>a, ClaimedTyped DEF Claimable
<1>1. ASSUME NEW e \in Entries, InsertEntry(e) PROVE TypeOK'
  BY <1>1, PendingTyped DEF InsertEntry, TypeOK, proc
<1>2. ASSUME NEW e \in Entries, LeaseExpires(e) PROVE TypeOK'
  BY <1>2 DEF LeaseExpires, TypeOK, proc, Entry
<1>3. ASSUME NEW S \in SUBSET Entries, ResetFailed(S) PROVE TypeOK'
  BY <1>3, PendingTyped DEF ResetFailed, TypeOK, proc
<1>4. ASSUME NEW r \in Runs, StartRun(r) \/ MaintenanceFails(r) \/ EndRun(r) \/ EndBatch(r)
      PROVE  TypeOK'
  BY <1>4 DEF StartRun, MaintenanceFails, EndRun, EndBatch, TypeOK
<1>5. ASSUME NEW r \in Runs, ReclaimLeases(r) PROVE TypeOK'
  BY <1>5, <1>b DEF ReclaimLeases, Reclaimed, TypeOK, States
<1>6. ASSUME NEW r \in Runs, SweepLeases(r) PROVE TypeOK'
  BY <1>6, <1>b DEF SweepLeases, TypeOK, States
<1>7. ASSUME NEW r \in Runs, NEW S \in SUBSET Entries, ClaimPendingFetch(r, S) PROVE TypeOK'
  BY <1>7, <1>c DEF ClaimPendingFetch, TypeOK
<1>8. ASSUME NEW r \in Runs, Crash(r) PROVE TypeOK'
  BY <1>8 DEF Crash, TypeOK, Finding
<1> QED
  BY <1>1, <1>2, <1>3, <1>4, <1>5, <1>6, <1>7, <1>8

\* Every variable of the extract stage keeps its type.
THEOREM ExtractTyped == Spec => []TypeOK
<1>1. Init => TypeOK
  BY PendingTyped DEF Init, TypeOK, Finding
<1>2. TypeOK /\ [Next]_vars => TypeOK'
  <2> SUFFICES ASSUME TypeOK, [Next]_vars PROVE TypeOK'
    OBVIOUS
  <2>1. CASE UNCHANGED vars
    BY <2>1 DEF TypeOK, vars
  <2>2. CASE Next
    BY <2>2, TypeOKOutside, TypeOKTask DEF Next
  <2> QED
    BY <2>1, <2>2
<1> QED
  BY <1>1, <1>2, PTL DEF Spec

-----------------------------------------------------------------------------
(* What a step can do to an entry, to the articles and to a task's         *)
(* finding.  Everything below follows from these summaries.                *)

EntryStep(e) ==
    \/ entry'[e] = entry[e]
    \/ entry[e].state \in {"absent", "failed"} /\ entry'[e] = Pending
    \/ /\ Claimable(e)
       /\ \E r \in Runs : entry'[e] = Claimed(entry[e], r)
    \/ /\ Expired(e)
       /\ \E r \in Runs : pc[r] = "reclaim" /\ pc'[r] = "sweep"
       /\ entry'[e] = Moved(entry[e], "pending_fetch")
    \/ Exhausted(e) /\ entry'[e] = Moved(entry[e], "failed")
    \/ /\ entry[e].owner \in Runs
       /\ \/ /\ entry[e].attempts < MaxAttempts
             /\ entry'[e] = Moved(entry[e], "pending_fetch")
          \/ entry'[e] = Moved(entry[e], "failed")
          \/ \E r \in Runs :
                /\ found[r][e] # Nothing
                /\ entry'[e] = Unleased(found[r][e].to, entry[e].attempts, found[r][e].hash)
    \/ entry[e].lease = "live" /\ entry'[e] = [entry[e] EXCEPT !.lease = "expired"]

\* Every step does to every entry one of the things EntryStep lists.
LEMMA EntrySteps == ASSUME TypeOK, [Next]_vars PROVE \A e \in Entries : EntryStep(e)
<1> SUFFICES ASSUME NEW e \in Entries PROVE EntryStep(e)
  OBVIOUS
<1> USE DEF EntryStep
<1>0. CASE entry' = entry
  BY <1>0
<1>1. ASSUME NEW j \in Entries, InsertEntry(j) PROVE EntryStep(e)
  BY <1>1 DEF InsertEntry, TypeOK
<1>2. ASSUME NEW j \in Entries, LeaseExpires(j) PROVE EntryStep(e)
  BY <1>2 DEF LeaseExpires, TypeOK
<1>3. ASSUME NEW S \in SUBSET Entries, ResetFailed(S) PROVE EntryStep(e)
  BY <1>3 DEF ResetFailed, Resettable
<1>4. ASSUME NEW r \in Runs, ReclaimLeases(r) PROVE EntryStep(e)
  BY <1>4 DEF ReclaimLeases, Reclaimed, TypeOK
<1>5. ASSUME NEW r \in Runs, SweepLeases(r) PROVE EntryStep(e)
  BY <1>5 DEF SweepLeases
<1>6. ASSUME NEW r \in Runs, NEW S \in SUBSET Entries, ClaimPendingFetch(r, S) PROVE EntryStep(e)
  BY <1>6 DEF ClaimPendingFetch
<1>7. ASSUME NEW r \in Runs, NEW j \in Entries, TaskStep(r, j) PROVE EntryStep(e)
  <2>1. ASSUME NEW h \in Hashes, NEW to \in Stored, PersistArticle(r, j, h, to) PROVE EntryStep(e)
    BY <2>1 DEF PersistArticle
  <2>2. CASE ReleaseArticle(r, j)
    BY <2>2 DEF ReleaseArticle, Owns, TypeOK
  <2>3. CASE ReleaseRetryable(r, j)
    <3>1. entry[e].attempts \in Nat
      BY DEF TypeOK, Entry
    <3>2. CASE entry[j].attempts >= MaxAttempts
      BY <2>3, <3>2 DEF ReleaseRetryable, Owns, TypeOK
    <3>3. CASE ~(entry[j].attempts >= MaxAttempts)
      <4>1. \/ entry' = entry
            \/ entry[j].owner = r /\ entry' = [entry EXCEPT ![j] = Moved(@, "pending_fetch")]
        BY <2>3, <3>3 DEF ReleaseRetryable, Owns
      <4>2. j = e => entry[e].attempts < MaxAttempts
        BY <3>1, <3>3, ExtractAssumption
      <4> QED
        BY <4>1, <4>2 DEF TypeOK
    <3> QED
      BY <3>2, <3>3
  <2>4. CASE ReleasePermanent(r, j)
    BY <2>4 DEF ReleasePermanent, Owns, TypeOK
  <2>5. CASE TaskLost(r, j)
    BY <2>5 DEF TaskLost
  <2> QED
    BY <1>7, <2>1, <2>2, <2>3, <2>4, <2>5 DEF TaskStep
<1>8. ASSUME NEW r \in Runs,
             StartRun(r) \/ MaintenanceFails(r) \/ EndRun(r) \/ EndBatch(r) \/ Crash(r)
      PROVE  entry' = entry
  BY <1>8 DEF StartRun, MaintenanceFails, EndRun, EndBatch, Crash
<1>9. CASE UNCHANGED vars
  BY <1>9, <1>0 DEF vars
<1> QED
  BY <1>0, <1>1, <1>2, <1>3, <1>4, <1>5, <1>6, <1>7, <1>8, <1>9 DEF Next

\* The articles table only grows: a hash that is taken stays with its entry.
LEMMA ArticlesStay ==
    ASSUME TypeOK, [Next]_vars
    PROVE  \A h \in Hashes : origin[h] # NoEntry => origin'[h] = origin[h]
<1>1. ASSUME NEW r \in Runs, NEW e \in Entries, TaskStep(r, e)
      PROVE  \A h \in Hashes : origin[h] # NoEntry => origin'[h] = origin[h]
  BY <1>1 DEF TaskStep, PersistArticle, InsertOrGet, ReleaseArticle, ReleaseRetryable,
              ReleasePermanent, TaskLost, TypeOK
<1>2. CASE origin' = origin
  BY <1>2
<1>3. ASSUME NEW e \in Entries, InsertEntry(e) \/ LeaseExpires(e) PROVE origin' = origin
  BY <1>3 DEF InsertEntry, LeaseExpires
<1>4. ASSUME NEW S \in SUBSET Entries, ResetFailed(S) PROVE origin' = origin
  BY <1>4 DEF ResetFailed
<1>5. ASSUME NEW r \in Runs,
             \/ StartRun(r) \/ ReclaimLeases(r) \/ SweepLeases(r) \/ MaintenanceFails(r)
             \/ \E S \in SUBSET Entries : ClaimPendingFetch(r, S)
             \/ EndRun(r) \/ EndBatch(r) \/ Crash(r)
      PROVE  origin' = origin
  BY <1>5 DEF StartRun, ReclaimLeases, SweepLeases, MaintenanceFails, ClaimPendingFetch,
              EndRun, EndBatch, Crash
<1>6. CASE UNCHANGED vars
  BY <1>6, <1>2 DEF vars
<1> QED
  BY <1>1, <1>2, <1>3, <1>4, <1>5, <1>6 DEF Next

\* A finding is new, or dropped, or stays as it was.
LEMMA FindingSteps ==
    ASSUME TypeOK, [Next]_vars, NEW r \in Runs, NEW e \in Entries
    PROVE  \/ found'[r][e] \in {found[r][e], Nothing}
           \/ \E h \in Hashes, to \in Stored : InsertOrGet(r, e, h, to)
<1> DEFINE Goal == \/ found'[r][e] \in {found[r][e], Nothing}
                   \/ \E h \in Hashes, to \in Stored : InsertOrGet(r, e, h, to)
<1>1. CASE found' = found
  BY <1>1
<1>2. ASSUME NEW q \in Runs, NEW j \in Entries, TaskEnds(q, j) PROVE Goal
  BY <1>2 DEF TaskEnds, TypeOK
<1>3. ASSUME NEW q \in Runs, NEW j \in Entries, NEW h \in Hashes, NEW to \in Stored,
             PersistArticle(q, j, h, to)
      PROVE  Goal
  <2>1. CASE q = r /\ j = e
    BY <1>3, <2>1 DEF PersistArticle
  <2>2. CASE q # r \/ j # e
    <3>1. PICK f : found' = [found EXCEPT ![q][j] = f]
      BY <1>3 DEF PersistArticle, InsertOrGet
    <3>2. found'[r][e] = found[r][e]
      BY <2>2, <3>1 DEF TypeOK
    <3> QED
      BY <3>2
  <2> QED
    BY <2>1, <2>2
<1>4. ASSUME NEW q \in Runs, NEW j \in Entries, TaskStep(q, j) PROVE Goal
  BY <1>2, <1>3, <1>4
  DEF TaskStep, ReleaseArticle, ReleaseRetryable, ReleasePermanent, TaskLost
<1>5. ASSUME NEW q \in Runs, Crash(q) PROVE Goal
  BY <1>5 DEF Crash, TypeOK
<1>6. ASSUME NEW j \in Entries, InsertEntry(j) \/ LeaseExpires(j) PROVE found' = found
  BY <1>6 DEF InsertEntry, LeaseExpires, proc
<1>7. ASSUME NEW S \in SUBSET Entries, ResetFailed(S) PROVE found' = found
  BY <1>7 DEF ResetFailed, proc
<1>8. ASSUME NEW q \in Runs,
             \/ StartRun(q) \/ ReclaimLeases(q) \/ SweepLeases(q) \/ MaintenanceFails(q)
             \/ \E S \in SUBSET Entries : ClaimPendingFetch(q, S)
             \/ EndRun(q) \/ EndBatch(q)
      PROVE  found' = found
  BY <1>8 DEF StartRun, ReclaimLeases, SweepLeases, MaintenanceFails, ClaimPendingFetch,
              EndRun, EndBatch
<1>9. CASE UNCHANGED vars
  BY <1>9, <1>1 DEF vars
<1> HIDE DEF Goal
<1>10. found' = found => Goal
  BY <1>1 DEF Goal
<1>11. Goal
  BY <1>4, <1>5, <1>6, <1>7, <1>8, <1>9, <1>10 DEF Next, Goal
<1> QED
  BY <1>11 DEF Goal

-----------------------------------------------------------------------------
(* The strengthening behind the cross-table invariant: what a task holds in *)
(* its hands between the two transactions stays true until it is written,   *)
(* whoever else stores articles in between.                                 *)

\* f describes an article that exists and, unless it was found, is e's own.
Sound(f, e) == /\ f.to \in Stored => origin[f.hash] = e
               /\ f.to = "dedup_skipped" => origin[f.hash] # NoEntry

FindingsSound == \A r \in Runs, e \in Entries : found[r][e] # Nothing => Sound(found[r][e], e)

\* An article that makes a finding sound keeps making it sound.
LEMMA SoundStays ==
    ASSUME TypeOK, [Next]_vars, NEW e \in Entries, NEW f \in Finding, f # Nothing, Sound(f, e)
    PROVE  /\ f.to \in Stored => origin'[f.hash] = e
           /\ f.to = "dedup_skipped" => origin'[f.hash] # NoEntry
<1>1. f.hash \in Hashes
  BY DEF Finding
<1>2. e # NoEntry
  BY ExtractAssumption
<1> QED
  BY <1>1, <1>2, ArticlesStay DEF Sound

\* Findings are sound at every moment.
LEMMA FindingsInvariant == Spec => []FindingsSound
<1>1. Init => FindingsSound
  BY DEF Init, FindingsSound
<1>2. TypeOK /\ FindingsSound /\ [Next]_vars => FindingsSound'
  <2> SUFFICES ASSUME TypeOK, FindingsSound, [Next]_vars, NEW r \in Runs, NEW e \in Entries,
                      found'[r][e] # Nothing
               PROVE  /\ found'[r][e].to \in Stored => origin'[found'[r][e].hash] = e
                      /\ found'[r][e].to = "dedup_skipped" => origin'[found'[r][e].hash] # NoEntry
    BY DEF FindingsSound, Sound
  <2>1. CASE found'[r][e] = found[r][e]
    <3>1. found[r][e] \in Finding /\ found[r][e] # Nothing /\ Sound(found[r][e], e)
      BY <2>1 DEF TypeOK, FindingsSound
    <3> QED
      BY <2>1, <3>1, SoundStays
  <2>2. ASSUME NEW h \in Hashes, NEW to \in Stored, InsertOrGet(r, e, h, to)
        PROVE  /\ found'[r][e].to \in Stored => origin'[found'[r][e].hash] = e
               /\ found'[r][e].to = "dedup_skipped" => origin'[found'[r][e].hash] # NoEntry
    <3>1. CASE origin[h] = NoEntry
      <4>1. found'[r][e] = [to |-> to, hash |-> h] /\ origin'[h] = e
        BY <2>2, <3>1 DEF InsertOrGet, TypeOK
      <4> QED
        BY <4>1 DEF Stored
    <3>2. CASE origin[h] # NoEntry
      <4>1. found'[r][e] = [to |-> "dedup_skipped", hash |-> h] /\ origin' = origin
        BY <2>2, <3>2 DEF InsertOrGet, TypeOK
      <4> QED
        BY <3>2, <4>1 DEF Stored
    <3> QED
      BY <3>1, <3>2
  <2> QED
    BY <2>1, <2>2, FindingSteps
<1> QED
  BY <1>1, <1>2, ExtractTyped, PTL DEF Spec

-----------------------------------------------------------------------------
\* An entry's owner, lease, article and budget stay coherent: every release and
\* every statement of the maintenance gives up all three together.
THEOREM ExtractEntryCoherent == Spec => []EntryCoherent
<1>1. Init => EntryCoherent
  BY ExtractAssumption DEF Init, EntryCoherent, Absent, Unleased, Outcomes, Stored
<1>2. TypeOK /\ EntryCoherent /\ [Next]_vars => EntryCoherent'
  <2> SUFFICES ASSUME TypeOK, EntryCoherent, [Next]_vars, NEW e \in Entries
               PROVE /\ (entry'[e].owner # NoRun) <=> (entry'[e].state = "fetching")
                     /\ (entry'[e].lease # "none") <=> (entry'[e].state = "fetching")
                     /\ (entry'[e].article # NoHash) <=> (entry'[e].state \in Outcomes)
    BY DEF EntryCoherent
  <2>1. EntryStep(e)
    BY EntrySteps
  <2>2. entry[e] \in Entry
    BY DEF TypeOK
  <2>3. /\ (entry[e].owner # NoRun) <=> (entry[e].state = "fetching")
        /\ (entry[e].lease # "none") <=> (entry[e].state = "fetching")
        /\ (entry[e].article # NoHash) <=> (entry[e].state \in Outcomes)
    BY DEF EntryCoherent
  <2>4. CASE entry'[e] = Pending
    BY <2>4, ExtractAssumption DEF Pending, Unleased, Outcomes, Stored
  <2>5. CASE \/ Expired(e) /\ entry'[e] = Moved(entry[e], "pending_fetch")
             \/ Exhausted(e) /\ entry'[e] = Moved(entry[e], "failed")
             \/ entry[e].owner \in Runs /\ (\/ entry'[e] = Moved(entry[e], "pending_fetch")
                                           \/ entry'[e] = Moved(entry[e], "failed"))
    BY <2>2, <2>3, <2>5, ExtractAssumption
    DEF Moved, Unleased, Expired, Exhausted, Entry, Outcomes, Stored
  <2>6. CASE /\ Claimable(e)
             /\ \E r \in Runs : entry'[e] = Claimed(entry[e], r)
    BY <2>2, <2>3, <2>6, ExtractAssumption DEF Claimable, Claimed, Entry, Outcomes, Stored
  <2>7. CASE entry[e].lease = "live" /\ entry'[e] = [entry[e] EXCEPT !.lease = "expired"]
    BY <2>2, <2>3, <2>7 DEF Entry
  <2>8. ASSUME NEW r \in Runs, found[r][e] # Nothing,
               entry'[e] = Unleased(found[r][e].to, entry[e].attempts, found[r][e].hash)
        PROVE  /\ (entry'[e].owner # NoRun) <=> (entry'[e].state = "fetching")
               /\ (entry'[e].lease # "none") <=> (entry'[e].state = "fetching")
               /\ (entry'[e].article # NoHash) <=> (entry'[e].state \in Outcomes)
    <3>1. found[r][e].to \in Outcomes /\ found[r][e].hash \in Hashes
      BY <2>8 DEF TypeOK, Finding
    <3> QED
      BY <2>3, <2>8, <3>1, ExtractAssumption DEF Unleased, Outcomes, Stored
  <2> QED
    BY <2>1, <2>3, <2>4, <2>5, <2>6, <2>7, <2>8 DEF EntryStep
<1> QED
  BY <1>1, <1>2, ExtractTyped, PTL DEF Spec

\* A stored entry is the origin of its article although another transaction
\* stored the article before, and no two entries share one.
THEOREM ExtractStoredEntryIsOrigin == Spec => []StoredEntryIsOrigin
<1>1. Init => StoredEntryIsOrigin
  BY DEF Init, StoredEntryIsOrigin, Absent, Unleased, Stored
<1>2. /\ TypeOK /\ EntryCoherent /\ FindingsSound /\ StoredEntryIsOrigin
      /\ [Next]_vars
      => StoredEntryIsOrigin'
  <2> SUFFICES ASSUME TypeOK, EntryCoherent, FindingsSound, StoredEntryIsOrigin, [Next]_vars,
                      NEW e \in Entries, entry'[e].state \in Outcomes
               PROVE  /\ entry'[e].state \in Stored => origin'[entry'[e].article] = e
                      /\ entry'[e].state = "dedup_skipped" => origin'[entry'[e].article] # NoEntry
    BY DEF StoredEntryIsOrigin, Outcomes
  <2>1. EntryStep(e) /\ entry[e] \in Entry
    BY EntrySteps DEF TypeOK
  <2>2. \/ entry'[e] = entry[e]
        \/ \E r \in Runs :
              /\ found[r][e] # Nothing
              /\ entry'[e] = Unleased(found[r][e].to, entry[e].attempts, found[r][e].hash)
    <3>1. /\ entry'[e] # Pending
          /\ entry'[e] # Moved(entry[e], "pending_fetch") /\ entry'[e] # Moved(entry[e], "failed")
      BY DEF Pending, Moved, Unleased, Outcomes, Stored
    <3>2. \A r \in Runs : entry'[e] # Claimed(entry[e], r)
      BY DEF Claimed, Outcomes, Stored
    <3>3. CASE entry[e].lease = "live" /\ entry'[e] = [entry[e] EXCEPT !.lease = "expired"]
      <4>1. entry'[e].state = entry[e].state
        BY <2>1, <3>3 DEF Entry
      <4>2. entry[e].state = "fetching"
        BY <3>3 DEF EntryCoherent
      <4> QED
        BY <4>1, <4>2 DEF Outcomes, Stored
    <3> QED
      BY <2>1, <3>1, <3>2, <3>3 DEF EntryStep
  <2>3. CASE entry'[e] = entry[e]
    <3>1. entry[e].article \in Hashes
      BY <2>1, <2>3 DEF Entry, EntryCoherent
    <3>2. e # NoEntry
      BY ExtractAssumption
    <3> QED
      BY <2>3, <3>1, <3>2, ArticlesStay DEF StoredEntryIsOrigin
  <2>4. ASSUME NEW r \in Runs, found[r][e] # Nothing,
               entry'[e] = Unleased(found[r][e].to, entry[e].attempts, found[r][e].hash)
        PROVE  /\ entry'[e].state \in Stored => origin'[entry'[e].article] = e
               /\ entry'[e].state = "dedup_skipped" => origin'[entry'[e].article] # NoEntry
    <3>1. found[r][e] \in Finding /\ Sound(found[r][e], e)
      BY <2>4 DEF TypeOK, FindingsSound
    <3>2. entry'[e].state = found[r][e].to /\ entry'[e].article = found[r][e].hash
      BY <2>4 DEF Unleased
    <3> QED
      BY <2>4, <3>1, <3>2, SoundStays
  <2> QED
    BY <2>2, <2>3, <2>4
<1> QED
  BY <1>1, <1>2, ExtractTyped, ExtractEntryCoherent, FindingsInvariant, PTL DEF Spec

\* A settled entry is written by nobody but a backfill of failed ones.
THEOREM ExtractSettledOnce == Spec => SettledOnce
<1> DEFINE A == \A e \in Entries : entry[e].state \in Settled /\ entry'[e] # entry[e] =>
                  entry[e].state = "failed" /\ entry'[e] = Pending
<1>1. TypeOK /\ EntryCoherent /\ [Next]_vars => [A]_vars
  <2> SUFFICES ASSUME TypeOK, EntryCoherent, [Next]_vars, NEW e \in Entries,
                      entry[e].state \in Settled, entry'[e] # entry[e]
               PROVE  entry[e].state = "failed" /\ entry'[e] = Pending
    OBVIOUS
  <2>1. EntryStep(e)
    BY EntrySteps
  <2>2. entry[e].state \notin {"absent", "pending_fetch", "fetching"}
    BY DEF Settled, Stored
  <2> QED
    BY <2>1, <2>2, ExtractAssumption DEF EntryStep, EntryCoherent, Claimable, Expired, Exhausted
<1> QED
  BY <1>1, ExtractTyped, ExtractEntryCoherent, PTL DEF Spec, SettledOnce

\* Only the reclaim of a lease that ran out leaves a pending entry without budget.
THEOREM ExtractExhaustedOnlyByReclaim == Spec => ExhaustedOnlyByReclaim
<1> DEFINE A == \A e \in Entries :
                  /\ entry'[e].state = "pending_fetch" /\ entry'[e].attempts >= MaxAttempts
                  /\ entry[e].state # "pending_fetch"
                  => entry[e].lease = "expired"
                     /\ \E r \in Runs : pc[r] = "reclaim" /\ pc'[r] = "sweep"
<1>1. TypeOK /\ [Next]_vars => [A]_vars
  <2> SUFFICES ASSUME TypeOK, [Next]_vars, NEW e \in Entries,
                      entry'[e].state = "pending_fetch", entry'[e].attempts >= MaxAttempts,
                      entry[e].state # "pending_fetch"
               PROVE  /\ entry[e].lease = "expired"
                      /\ \E r \in Runs : pc[r] = "reclaim" /\ pc'[r] = "sweep"
    OBVIOUS
  <2>1. EntryStep(e) /\ entry[e] \in Entry
    BY EntrySteps DEF TypeOK
  <2>2. entry'[e] # Pending
    BY ExtractAssumption DEF Pending, Unleased
  <2>3. entry'[e] = Moved(entry[e], "pending_fetch") => ~(entry[e].attempts < MaxAttempts)
    BY <2>1, ExtractAssumption DEF Moved, Unleased, Entry
  <2>4. entry'[e] # [entry[e] EXCEPT !.lease = "expired"]
    BY <2>1 DEF Entry
  <2>5. ASSUME NEW r \in Runs PROVE entry'[e] # Claimed(entry[e], r)
    <3>1. Claimed(entry[e], r).state = "fetching"
      BY DEF Claimed
    <3> QED
      BY <3>1
  <2>6. entry'[e] # Moved(entry[e], "failed")
    BY DEF Moved, Unleased
  <2>7. ASSUME NEW r \in Runs, found[r][e] # Nothing
        PROVE  entry'[e] # Unleased(found[r][e].to, entry[e].attempts, found[r][e].hash)
    BY <2>7 DEF TypeOK, Finding, Unleased, Outcomes, Stored
  <2>8. entry'[e] # entry[e]
    OBVIOUS
  <2> QED
    BY <2>1, <2>2, <2>3, <2>4, <2>5, <2>6, <2>7, <2>8 DEF EntryStep, Expired
<1> QED
  BY <1>1, ExtractTyped, PTL DEF Spec, ExhaustedOnlyByReclaim

-----------------------------------------------------------------------------
(* feed_entries implements the leased queue.  The three variables of the   *)
(* queue are named, so that the steps below are about functions of entries.*)

QPhase  == [e \in Entries |-> Phase(entry[e])]
QHolder == [e \in Entries |-> entry[e].owner]
QTries  == [e \in Entries |-> entry[e].attempts]

\* The phases of the rows the code builds.
LEMMA PhaseOf ==
    /\ \A st, n, h : /\ Unleased(st, n, h).owner = NoRun
                     /\ Unleased(st, n, h).attempts = n
                     /\ Unleased(st, n, h).state = st
    /\ \A row, r : /\ Phase(Claimed(row, r)) = "working"
                   /\ Claimed(row, r).owner = r
                   /\ Claimed(row, r).attempts = row.attempts + 1
    /\ Phase(Pending) = "queued" /\ Phase(Absent) = "absent"
BY DEF Unleased, Claimed, Phase, Pending, Absent

\* The phase of a row is the phase of its state.
LEMMA PhaseOfState ==
    ASSUME NEW row
    PROVE  /\ row.state = "absent" => Phase(row) = "absent"
           /\ row.state = "pending_fetch" => Phase(row) = "queued"
           /\ row.state = "fetching" => Phase(row) = "working"
           /\ row.state \in Settled => Phase(row) = "done"
BY DEF Phase, Settled, Stored

\* A row that only gives up its lease keeps its attempts.
LEMMA PhaseOfMoved ==
    \A row, st : /\ Moved(row, st).owner = NoRun
                 /\ Moved(row, st).attempts = row.attempts
                 /\ Phase(Moved(row, "pending_fetch")) = "queued"
                 /\ Phase(Moved(row, "failed")) = "done"
BY DEF Moved, Unleased, Phase

\* The queue's variables at an entry, before a step ...
LEMMA QPoint == \A e \in Entries : /\ QPhase[e] = Phase(entry[e])
                                   /\ QHolder[e] = entry[e].owner
                                   /\ QTries[e] = entry[e].attempts
BY DEF QPhase, QHolder, QTries

\* ... and after it.
LEMMA QPointNext == \A e \in Entries : /\ QPhase'[e] = Phase(entry'[e])
                                       /\ QHolder'[e] = entry'[e].owner
                                       /\ QTries'[e] = entry'[e].attempts
BY DEF QPhase, QHolder, QTries

\* Functions that agree everywhere are equal.
LEMMA SameFunction ==
    ASSUME NEW S, NEW f, NEW g,
           f = [j \in S |-> f[j]], g = [j \in S |-> g[j]],
           \A j \in S : g[j] = f[j]
    PROVE  g = f
OBVIOUS

\* A function that differs from another at one point, or nowhere.
LEMMA ExceptAt ==
    ASSUME NEW S, NEW f, NEW g, NEW k \in S, NEW x,
           f = [j \in S |-> f[j]], g = [j \in S |-> g[j]],
           \A j \in S : g[j] = IF j = k THEN x ELSE f[j]
    PROVE  g = [f EXCEPT ![k] = x]
OBVIOUS

\* The queue's variables are functions over the entries.
LEMMA QFunctions ==
    /\ QPhase  = [e \in Entries |-> QPhase[e]]  /\ QPhase'  = [e \in Entries |-> QPhase'[e]]
    /\ QHolder = [e \in Entries |-> QHolder[e]] /\ QHolder' = [e \in Entries |-> QHolder'[e]]
    /\ QTries  = [e \in Entries |-> QTries[e]]  /\ QTries'  = [e \in Entries |-> QTries'[e]]
BY DEF QPhase, QHolder, QTries

\* One entry changes: the queue's variables change at that entry only.
LEMMA OneEntry ==
    ASSUME NEW e \in Entries, \A j \in Entries : j # e => entry'[j] = entry[j]
    PROVE  /\ QPhase'  = [QPhase EXCEPT ![e] = Phase(entry'[e])]
           /\ QHolder' = [QHolder EXCEPT ![e] = entry'[e].owner]
           /\ entry'[e].owner = entry[e].owner => QHolder' = QHolder
           /\ entry'[e].attempts = entry[e].attempts => QTries' = QTries
<1>1. QPhase' = [QPhase EXCEPT ![e] = Phase(entry'[e])]
  <2>1. \A j \in Entries : QPhase'[j] = IF j = e THEN Phase(entry'[e]) ELSE QPhase[j]
    BY QPoint, QPointNext
  <2> QED
    BY <2>1, QFunctions, ExceptAt
<1>2. QHolder' = [QHolder EXCEPT ![e] = entry'[e].owner]
  <2>1. \A j \in Entries : QHolder'[j] = IF j = e THEN entry'[e].owner ELSE QHolder[j]
    BY QPoint, QPointNext
  <2> QED
    BY <2>1, QFunctions, ExceptAt
<1>3. ASSUME entry'[e].owner = entry[e].owner PROVE QHolder' = QHolder
  <2>1. \A j \in Entries : QHolder'[j] = QHolder[j]
    BY <1>3, QPoint, QPointNext
  <2> QED
    BY <2>1, QFunctions, SameFunction
<1>4. ASSUME entry'[e].attempts = entry[e].attempts PROVE QTries' = QTries
  <2>1. \A j \in Entries : QTries'[j] = QTries[j]
    BY <1>4, QPoint, QPointNext
  <2> QED
    BY <2>1, QFunctions, SameFunction
<1> QED
  BY <1>1, <1>2, <1>3, <1>4

\* Entries that have not been ingested were never claimed.
AbsentUnclaimed == \A e \in Entries : entry[e].state = "absent" => entry[e].attempts = 0

\* An entry that does not exist was never claimed, and no step removes one.
LEMMA UnclaimedInvariant == Spec => []AbsentUnclaimed
<1>1. Init => AbsentUnclaimed
  BY DEF Init, AbsentUnclaimed, Absent, Unleased
<1>2. TypeOK /\ EntryCoherent /\ AbsentUnclaimed /\ [Next]_vars => AbsentUnclaimed'
  <2> SUFFICES ASSUME TypeOK, EntryCoherent, AbsentUnclaimed, [Next]_vars, NEW e \in Entries,
                      entry'[e].state = "absent"
               PROVE  entry'[e].attempts = 0
    BY DEF AbsentUnclaimed
  <2>1. EntryStep(e) /\ entry[e] \in Entry
    BY EntrySteps DEF TypeOK
  <2>2. /\ entry'[e] # Pending
        /\ entry'[e] # Moved(entry[e], "pending_fetch") /\ entry'[e] # Moved(entry[e], "failed")
    BY DEF Pending, Moved, Unleased
  <2>3. \A r \in Runs : entry'[e] # Claimed(entry[e], r)
    BY DEF Claimed
  <2>4. ASSUME NEW r \in Runs, found[r][e] # Nothing
        PROVE  entry'[e] # Unleased(found[r][e].to, entry[e].attempts, found[r][e].hash)
    BY <2>4 DEF TypeOK, Finding, Unleased, Outcomes, Stored
  <2>5. CASE entry[e].lease = "live" /\ entry'[e] = [entry[e] EXCEPT !.lease = "expired"]
    <3>1. entry'[e].state = entry[e].state
      BY <2>1, <2>5 DEF Entry
    <3>2. entry[e].state = "fetching"
      BY <2>5 DEF EntryCoherent
    <3> QED
      BY <3>1, <3>2
  <2>6. CASE entry'[e] = entry[e]
    BY <2>6 DEF AbsentUnclaimed
  <2> QED
    BY <2>1, <2>2, <2>3, <2>4, <2>5, <2>6 DEF EntryStep
<1> QED
  BY <1>1, <1>2, ExtractTyped, ExtractEntryCoherent, PTL DEF Spec

\* Ingesting an entry enqueues it.
LEMMA InsertEnqueues ==
    ASSUME TypeOK, EntryCoherent, AbsentUnclaimed, NEW e \in Entries, InsertEntry(e)
    PROVE  Queue!Enqueue({e})
<1>1. entry'[e] = Pending /\ \A j \in Entries : j # e => entry'[j] = entry[j]
  BY DEF TypeOK, InsertEntry
<1>2. entry[e].owner = NoRun /\ Phase(entry[e]) = "absent" /\ entry[e].attempts = 0
  BY PhaseOfState DEF EntryCoherent, AbsentUnclaimed, InsertEntry
<1>3. Pending.owner = NoRun /\ Pending.attempts = 0
  BY DEF Pending, Unleased
<1>4. /\ QPhase[e] = "absent" /\ QPhase' = [QPhase EXCEPT ![e] = "queued"]
      /\ QHolder' = QHolder /\ QTries' = QTries
  BY <1>1, <1>2, <1>3, OneEntry, PhaseOf, QPoint
<1>5. QPhase' = [j \in Entries |-> IF j \in {e} THEN "queued" ELSE QPhase[j]]
  BY <1>4 DEF QPhase
<1> QED
  BY <1>4, <1>5 DEF Queue!Enqueue, QPhase, QHolder, QTries

\* The owner's release settles its entry, or gives it back while there is budget.
LEMMA ReleaseSettles ==
    ASSUME TypeOK, EntryCoherent, NEW r \in Runs, NEW e \in Entries, Owns(r, e),
           \A j \in Entries : j # e => entry'[j] = entry[j],
           entry'[e].owner = NoRun, entry'[e].attempts = entry[e].attempts
    PROVE  /\ Phase(entry'[e]) = "done" => Queue!Settle(r, e)
           /\ Phase(entry'[e]) = "queued" /\ entry[e].attempts < MaxAttempts => Queue!GiveBack(r, e)
<1>1. /\ QPhase' = [QPhase EXCEPT ![e] = Phase(entry'[e])]
      /\ QHolder' = [QHolder EXCEPT ![e] = NoRun] /\ QTries' = QTries
  BY OneEntry
<1>2. QPhase[e] = "working" /\ QHolder[e] = r /\ QTries[e] = entry[e].attempts
  BY QPoint, ExtractAssumption, PhaseOfState DEF Owns, EntryCoherent
<1>3. Phase(entry'[e]) = "done" => Queue!Settle(r, e)
  BY <1>1, <1>2 DEF Queue!Settle, QPhase, QHolder, QTries
<1>4. Phase(entry'[e]) = "queued" /\ entry[e].attempts < MaxAttempts => Queue!GiveBack(r, e)
  BY <1>1, <1>2 DEF Queue!GiveBack, QPhase, QHolder, QTries
<1> QED
  BY <1>3, <1>4

\* A step that leaves phase, owner and attempts of every entry alone stutters.
LEMMA QueueStutters ==
    ASSUME \A e \in Entries : /\ Phase(entry'[e]) = Phase(entry[e])
                              /\ entry'[e].owner = entry[e].owner
                              /\ entry'[e].attempts = entry[e].attempts
    PROVE  UNCHANGED Queue!vars
<1>1. QPhase' = QPhase /\ QHolder' = QHolder /\ QTries' = QTries
  BY QPoint, QPointNext, QFunctions, SameFunction
<1> QED
  BY <1>1 DEF Queue!vars, QPhase, QHolder, QTries

\* Claiming a batch takes its rows.
LEMMA ClaimTakes ==
    ASSUME NEW r \in Runs, NEW S \in SUBSET Entries, ClaimPendingFetch(r, S)
    PROVE  Queue!Take(r, S)
<1>1. \A e \in S : e \in Entries /\ QPhase[e] = "queued" /\ QTries[e] < MaxAttempts
  BY QPoint, PhaseOfState DEF ClaimPendingFetch, Claimable
<1>2. \A e \in Entries : entry'[e] = IF e \in S THEN Claimed(entry[e], r) ELSE entry[e]
  BY DEF ClaimPendingFetch
<1>3. QPhase' = [e \in Entries |-> IF e \in S THEN "working" ELSE QPhase[e]]
  <2>1. \A e \in Entries : QPhase'[e] = IF e \in S THEN "working" ELSE QPhase[e]
    BY <1>2, QPoint, QPointNext, PhaseOf
  <2> QED
    BY <2>1, QFunctions
<1>4. QHolder' = [e \in Entries |-> IF e \in S THEN r ELSE QHolder[e]]
  <2>1. \A e \in Entries : QHolder'[e] = IF e \in S THEN r ELSE QHolder[e]
    BY <1>2, QPoint, QPointNext, PhaseOf
  <2> QED
    BY <2>1, QFunctions
<1>5. QTries' = [e \in Entries |-> IF e \in S THEN QTries[e] + 1 ELSE QTries[e]]
  <2>1. \A e \in Entries : QTries'[e] = IF e \in S THEN QTries[e] + 1 ELSE QTries[e]
    BY <1>2, QPoint, QPointNext, PhaseOf
  <2> QED
    BY <2>1, QFunctions
<1> QED
  BY <1>1, <1>3, <1>4, <1>5 DEF Queue!Take, QPhase, QHolder, QTries

\* Reclaiming expired leases evicts their holders.
LEMMA ReclaimEvicts ==
    ASSUME NEW r \in Runs, ReclaimLeases(r)
    PROVE  Queue!Evict({e \in Entries : Expired(e)})
<1> DEFINE S == {e \in Entries : Expired(e)}
<1>1. \A e \in S : QPhase[e] = "working"
  BY QPoint, PhaseOfState DEF Expired
<1>2. \A e \in Entries :
        entry'[e] = IF e \in S THEN Moved(entry[e], "pending_fetch") ELSE entry[e]
  BY DEF ReclaimLeases, Reclaimed
<1> HIDE DEF S
<1>3. QPhase' = [e \in Entries |-> IF e \in S THEN "queued" ELSE QPhase[e]]
  <2>1. \A e \in Entries : QPhase'[e] = IF e \in S THEN "queued" ELSE QPhase[e]
    BY <1>2, QPoint, QPointNext, PhaseOfMoved
  <2> QED
    BY <2>1, QFunctions
<1>4. QHolder' = [e \in Entries |-> IF e \in S THEN NoRun ELSE QHolder[e]]
  <2>1. \A e \in Entries : QHolder'[e] = IF e \in S THEN NoRun ELSE QHolder[e]
    BY <1>2, QPoint, QPointNext, PhaseOfMoved
  <2> QED
    BY <2>1, QFunctions
<1>5. QTries' = QTries
  <2>1. \A e \in Entries : QTries'[e] = QTries[e]
    BY <1>2, QPoint, QPointNext, PhaseOfMoved
  <2> QED
    BY <2>1, QFunctions, SameFunction
<1>6. Queue!Evict(S)
  BY <1>1, <1>3, <1>4, <1>5 DEF Queue!Evict, QPhase, QHolder, QTries
<1> QED
  BY <1>6 DEF S

\* The sweep discards the pending entries without budget.
LEMMA SweepDiscards ==
    ASSUME EntryCoherent, NEW r \in Runs, SweepLeases(r)
    PROVE  Queue!Discard({e \in Entries : Exhausted(e)})
<1> DEFINE S == {e \in Entries : Exhausted(e)}
<1>1. \A e \in S : QPhase[e] = "queued" /\ QTries[e] >= MaxAttempts
  BY QPoint, PhaseOfState DEF Exhausted
<1>2. \A e \in S : e \in Entries /\ entry[e].owner = NoRun
  BY DEF Exhausted, EntryCoherent
<1>3. \A e \in Entries : entry'[e] = IF e \in S THEN Moved(entry[e], "failed") ELSE entry[e]
  BY DEF SweepLeases
<1> HIDE DEF S
<1>4. QPhase' = [e \in Entries |-> IF e \in S THEN "done" ELSE QPhase[e]]
  <2>1. \A e \in Entries : QPhase'[e] = IF e \in S THEN "done" ELSE QPhase[e]
    BY <1>3, QPoint, QPointNext, PhaseOfMoved
  <2> QED
    BY <2>1, QFunctions
<1>5. QHolder' = QHolder
  <2>1. \A e \in Entries : QHolder'[e] = QHolder[e]
    BY <1>2, <1>3, QPoint, QPointNext, PhaseOfMoved
  <2> QED
    BY <2>1, QFunctions, SameFunction
<1>6. QTries' = QTries
  <2>1. \A e \in Entries : QTries'[e] = QTries[e]
    BY <1>3, QPoint, QPointNext, PhaseOfMoved
  <2> QED
    BY <2>1, QFunctions, SameFunction
<1>7. Queue!Discard(S)
  BY <1>1, <1>4, <1>5, <1>6 DEF Queue!Discard, QPhase, QHolder, QTries
<1> QED
  BY <1>7 DEF S

\* A step of a task settles its entry, gives it back, or leaves the queue alone.
LEMMA TaskIsQueueStep ==
    ASSUME TypeOK, EntryCoherent, NEW r \in Runs, NEW e \in Entries, TaskStep(r, e)
    PROVE  entry' = entry \/ Queue!Settle(r, e) \/ Queue!GiveBack(r, e)
<1>1. ASSUME NEW h \in Hashes, NEW to \in Stored, PersistArticle(r, e, h, to) PROVE entry' = entry
  BY <1>1 DEF PersistArticle
<1>2. CASE ReleaseArticle(r, e)
  <2>1. CASE ~Owns(r, e)
    BY <1>2, <2>1 DEF ReleaseArticle
  <2>2. CASE Owns(r, e)
    <3>1. found[r][e].to \in Settled
      BY <1>2 DEF ReleaseArticle, TypeOK, Finding, Outcomes, Settled
    <3>2. /\ entry'[e] = Unleased(found[r][e].to, entry[e].attempts, found[r][e].hash)
          /\ \A j \in Entries : j # e => entry'[j] = entry[j]
      BY <1>2, <2>2 DEF ReleaseArticle, TypeOK
    <3>3. /\ entry'[e].owner = NoRun /\ entry'[e].attempts = entry[e].attempts
          /\ Phase(entry'[e]) = "done"
      BY <3>1, <3>2, PhaseOf, PhaseOfState
    <3> QED
      BY <2>2, <3>2, <3>3, ReleaseSettles
  <2> QED
    BY <2>1, <2>2
<1>3. ASSUME NEW st \in {"pending_fetch", "failed"}, Owns(r, e),
             entry' = [entry EXCEPT ![e] = Moved(@, st)],
             st = "pending_fetch" => entry[e].attempts < MaxAttempts
      PROVE  Queue!Settle(r, e) \/ Queue!GiveBack(r, e)
  <2>1. entry'[e] = Moved(entry[e], st) /\ \A j \in Entries : j # e => entry'[j] = entry[j]
    BY <1>3 DEF TypeOK
  <2>2. /\ entry'[e].owner = NoRun /\ entry'[e].attempts = entry[e].attempts
        /\ Phase(entry'[e]) = IF st = "pending_fetch" THEN "queued" ELSE "done"
    BY <2>1, PhaseOfMoved
  <2> QED
    BY <1>3, <2>1, <2>2, ReleaseSettles
<1>4. CASE ReleaseRetryable(r, e)
  <2>1. CASE Owns(r, e) /\ entry[e].attempts >= MaxAttempts
    BY <1>3, <1>4, <2>1 DEF ReleaseRetryable
  <2>2. CASE Owns(r, e) /\ ~(entry[e].attempts >= MaxAttempts)
    <3>1. entry[e].attempts < MaxAttempts
      BY <2>2, ExtractAssumption DEF TypeOK, Entry
    <3>2. entry' = [entry EXCEPT ![e] = Moved(@, "pending_fetch")]
      BY <1>4, <2>2 DEF ReleaseRetryable
    <3> QED
      BY <1>3, <2>2, <3>1, <3>2
  <2>3. CASE ~Owns(r, e)
    BY <1>4, <2>3 DEF ReleaseRetryable
  <2> QED
    BY <2>1, <2>2, <2>3
<1>5. CASE ReleasePermanent(r, e)
  BY <1>3, <1>5 DEF ReleasePermanent
<1>6. CASE TaskLost(r, e)
  BY <1>6 DEF TaskLost
<1> QED
  BY <1>1, <1>2, <1>4, <1>5, <1>6 DEF TaskStep

\* Backfill reopens the failed entries of its window.
LEMMA ResetReopens ==
    ASSUME EntryCoherent, NEW S \in SUBSET Entries, ResetFailed(S)
    PROVE  Queue!Reopen(S)
<1>0. /\ Pending.owner = NoRun /\ Pending.attempts = 0
      /\ Pending.state = "pending_fetch" /\ Phase(Pending) = "queued"
  <2>1. Pending.owner = NoRun /\ Pending.attempts = 0 /\ Pending.state = "pending_fetch"
    BY PhaseOf DEF Pending
  <2> QED
    BY <2>1 DEF Phase
<1>1. \A e \in S : entry[e].state = "failed" /\ entry[e].owner = NoRun
  BY DEF ResetFailed, Resettable, EntryCoherent
<1>2. \A e \in S : QPhase[e] = "done"
  BY <1>1, QPoint, PhaseOfState DEF Settled
<1>3. \A e \in Entries : entry'[e] = IF e \in S THEN Pending ELSE entry[e]
  BY DEF ResetFailed
<1>4. QPhase' = [e \in Entries |-> IF e \in S THEN "queued" ELSE QPhase[e]]
  <2>1. \A e \in Entries : QPhase'[e] = IF e \in S THEN "queued" ELSE QPhase[e]
    BY <1>0, <1>3, QPoint, QPointNext
  <2> QED
    BY <2>1, QFunctions
<1>5. QHolder' = QHolder
  <2>1. \A e \in Entries : QHolder'[e] = QHolder[e]
    BY <1>0, <1>1, <1>3, QPoint, QPointNext
  <2> QED
    BY <2>1, QFunctions, SameFunction
<1>6. QTries' = [e \in Entries |-> IF e \in S THEN 0 ELSE QTries[e]]
  <2>1. \A e \in Entries : QTries'[e] = IF e \in S THEN 0 ELSE QTries[e]
    BY <1>0, <1>3, QPoint, QPointNext
  <2> QED
    BY <2>1, QFunctions
<1>7. Backfill
  BY DEF ResetFailed
<1> QED
  BY <1>2, <1>4, <1>5, <1>6, <1>7 DEF Queue!Reopen, QPhase, QHolder, QTries

\* Every step of the extract stage is a step of the leased queue or invisible to
\* it; the reset of backfill is the reopening of settled rows.
THEOREM ExtractImplementsLeaseQueue == Spec => ImplementsLeaseQueue
<1>1. Init => Queue!Init
  <2>1. ASSUME Init
        PROVE  /\ QPhase = [e \in Entries |-> "absent"]
               /\ QHolder = [e \in Entries |-> NoRun] /\ QTries = [e \in Entries |-> 0]
    <3>1. Absent.owner = NoRun /\ Absent.attempts = 0
      BY DEF Absent, Unleased
    <3> QED
      BY <2>1, <3>1, PhaseOf DEF Init, QPhase, QHolder, QTries
  <2> QED
    BY <2>1 DEF Queue!Init, QPhase, QHolder, QTries
<1>2. TypeOK /\ EntryCoherent /\ AbsentUnclaimed /\ [Next]_vars => [Queue!Next]_(Queue!vars)
  <2> SUFFICES ASSUME TypeOK, EntryCoherent, AbsentUnclaimed, [Next]_vars
               PROVE  Queue!Next \/ UNCHANGED Queue!vars
    OBVIOUS
  <2>1. CASE entry' = entry
    BY <2>1, QueueStutters
  <2>2. ASSUME NEW e \in Entries, InsertEntry(e) PROVE Queue!Next
    BY <2>2, {e} \in SUBSET Entries, InsertEnqueues DEF Queue!Next
  <2>3. ASSUME NEW e \in Entries, LeaseExpires(e) PROVE UNCHANGED Queue!vars
    <3>1. \A j \in Entries : /\ entry'[j].state = entry[j].state
                             /\ entry'[j].owner = entry[j].owner
                             /\ entry'[j].attempts = entry[j].attempts
      BY <2>3 DEF LeaseExpires, TypeOK, Entry
    <3>2. \A j \in Entries : Phase(entry'[j]) = Phase(entry[j])
      BY <3>1 DEF Phase
    <3> QED
      BY <3>1, <3>2, QueueStutters
  <2>4. ASSUME NEW r \in Runs, NEW S \in SUBSET Entries, ClaimPendingFetch(r, S) PROVE Queue!Next
    BY <2>4, ClaimTakes DEF Queue!Next
  <2>5. ASSUME NEW r \in Runs, ReclaimLeases(r) PROVE Queue!Next
    <3> DEFINE S == {e \in Entries : Expired(e)}
    <3>1. Queue!Evict(S)
      BY <2>5, ReclaimEvicts
    <3>2. S \in SUBSET Entries
      OBVIOUS
    <3> HIDE DEF S
    <3>3. \E T \in SUBSET Entries : Queue!Evict(T)
      BY <3>1, <3>2 DEF Queue!Evict
    <3> QED
      BY <3>3 DEF Queue!Next
  <2>6. ASSUME NEW r \in Runs, SweepLeases(r) PROVE Queue!Next
    <3> DEFINE S == {e \in Entries : Exhausted(e)}
    <3>1. Queue!Discard(S)
      BY <2>6, SweepDiscards
    <3>2. S \in SUBSET Entries
      OBVIOUS
    <3> HIDE DEF S
    <3> QED
      BY <3>1, <3>2 DEF Queue!Next
  <2>7. ASSUME NEW r \in Runs, NEW e \in Entries, TaskStep(r, e)
        PROVE  Queue!Next \/ UNCHANGED Queue!vars
    BY <2>1, <2>7, TaskIsQueueStep DEF Queue!Next
  <2>8. ASSUME NEW r \in Runs,
               StartRun(r) \/ MaintenanceFails(r) \/ EndRun(r) \/ EndBatch(r) \/ Crash(r)
        PROVE  entry' = entry
    BY <2>8 DEF StartRun, MaintenanceFails, EndRun, EndBatch, Crash
  <2>9. ASSUME NEW S \in SUBSET Entries, ResetFailed(S) PROVE Queue!Next
    BY <2>9, ResetReopens DEF Queue!Next
  <2>10. CASE UNCHANGED vars
    BY <2>10, <2>1 DEF vars
  <2> QED
    BY <2>1, <2>2, <2>3, <2>4, <2>5, <2>6, <2>7, <2>8, <2>9, <2>10 DEF Next
<1> QED
  BY <1>1, <1>2, ExtractTyped, ExtractEntryCoherent, UnclaimedInvariant, PTL
  DEF Spec, ImplementsLeaseQueue, Queue!Spec

-----------------------------------------------------------------------------
(* What the implemented queue promises its users, read off its steps.      *)

\* What the promise says of one row, and what a step of the queue may do to it.
QRow(e) ==
    /\ QPhase[e] \in Queue!Phases /\ QHolder[e] \in Runs \cup {NoRun}
    /\ QTries[e] \in 0..MaxAttempts
    /\ QHolder[e] # NoRun <=> QPhase[e] = "working"
    /\ QPhase[e] = "working" => QTries[e] > 0

QMoves(e) ==
    \/ QPhase'[e] = QPhase[e] /\ QHolder'[e] = QHolder[e] /\ QTries'[e] = QTries[e]
    \/ /\ QPhase[e] = "absent" /\ QPhase'[e] = "queued"
       /\ QHolder'[e] = QHolder[e] /\ QTries'[e] = QTries[e]
    \/ /\ QPhase[e] = "queued" /\ QPhase'[e] = "working" /\ QHolder'[e] \in Runs
       /\ QTries[e] < MaxAttempts /\ QTries'[e] = QTries[e] + 1
    \/ /\ QPhase[e] = "working" /\ QPhase'[e] \in {"queued", "done"} /\ QHolder'[e] = NoRun
       /\ QTries'[e] = QTries[e]
    \/ /\ QPhase[e] = "queued" /\ QPhase'[e] = "done"
       /\ QHolder'[e] = QHolder[e] /\ QTries'[e] = QTries[e]
    \/ /\ Backfill /\ QPhase[e] = "done" /\ QPhase'[e] = "queued"
       /\ QHolder'[e] = QHolder[e] /\ QTries'[e] = 0

LEMMA QueueMoves ==
    ASSUME [Queue!Next]_(Queue!vars), NEW e \in Entries
    PROVE  QMoves(e)
<1>1. /\ QPhase = [f \in Entries |-> QPhase[f]] /\ QHolder = [f \in Entries |-> QHolder[f]]
      /\ QTries = [f \in Entries |-> QTries[f]]
  BY DEF QPhase, QHolder, QTries
<1>2. CASE UNCHANGED Queue!vars
  <2>1. QPhase' = QPhase /\ QHolder' = QHolder /\ QTries' = QTries
    BY <1>2 DEF Queue!vars, QPhase, QHolder, QTries
  <2> QED  BY <2>1 DEF QMoves
<1>3. ASSUME NEW S \in SUBSET Entries, Queue!Enqueue(S) PROVE QMoves(e)
  <2>1. /\ e \in S => QPhase[e] = "absent"
        /\ QPhase' = [f \in Entries |-> IF f \in S THEN "queued" ELSE QPhase[f]]
        /\ QHolder' = QHolder /\ QTries' = QTries
    BY <1>3 DEF Queue!Enqueue, QPhase, QHolder, QTries
  <2> QED  BY <2>1 DEF QMoves
<1>4. ASSUME NEW r \in Runs, NEW S \in SUBSET Entries, Queue!Take(r, S) PROVE QMoves(e)
  <2>1. /\ e \in S => QPhase[e] = "queued" /\ QTries[e] < MaxAttempts
        /\ QPhase' = [f \in Entries |-> IF f \in S THEN "working" ELSE QPhase[f]]
        /\ QHolder' = [f \in Entries |-> IF f \in S THEN r ELSE QHolder[f]]
        /\ QTries' = [f \in Entries |-> IF f \in S THEN QTries[f] + 1 ELSE QTries[f]]
    BY <1>4 DEF Queue!Take, QPhase, QHolder, QTries
  <2> QED  BY <2>1 DEF QMoves
<1>5. ASSUME NEW r \in Runs, NEW f \in Entries, Queue!Settle(r, f) \/ Queue!GiveBack(r, f)
      PROVE  QMoves(e)
  <2>1. /\ QPhase[f] = "working" /\ QHolder' = [QHolder EXCEPT ![f] = NoRun] /\ QTries' = QTries
        /\ \/ QPhase' = [QPhase EXCEPT ![f] = "done"]
           \/ QPhase' = [QPhase EXCEPT ![f] = "queued"]
    BY <1>5 DEF Queue!Settle, Queue!GiveBack, QPhase, QHolder, QTries
  <2> QED  BY <1>1, <2>1 DEF QMoves
<1>6. ASSUME NEW r \in Runs, NEW f \in Entries, Queue!Refund(r, f) PROVE QMoves(e)
  BY <1>6 DEF Queue!Refund
<1>7. ASSUME NEW S \in SUBSET Entries, Queue!Evict(S) PROVE QMoves(e)
  <2>1. /\ e \in S => QPhase[e] = "working"
        /\ QPhase' = [f \in Entries |-> IF f \in S THEN "queued" ELSE QPhase[f]]
        /\ QHolder' = [f \in Entries |-> IF f \in S THEN NoRun ELSE QHolder[f]] /\ QTries' = QTries
    BY <1>7 DEF Queue!Evict, QPhase, QHolder, QTries
  <2> QED  BY <2>1 DEF QMoves
<1>8. ASSUME NEW S \in SUBSET Entries, Queue!Discard(S) PROVE QMoves(e)
  <2>1. /\ e \in S => QPhase[e] = "queued"
        /\ QPhase' = [f \in Entries |-> IF f \in S THEN "done" ELSE QPhase[f]]
        /\ QHolder' = QHolder /\ QTries' = QTries
    BY <1>8 DEF Queue!Discard, QPhase, QHolder, QTries
  <2> QED  BY <2>1 DEF QMoves
<1>9. ASSUME NEW S \in SUBSET Entries, Queue!Reopen(S) PROVE QMoves(e)
  <2>1. /\ Backfill /\ (e \in S => QPhase[e] = "done")
        /\ QPhase' = [f \in Entries |-> IF f \in S THEN "queued" ELSE QPhase[f]]
        /\ QTries' = [f \in Entries |-> IF f \in S THEN 0 ELSE QTries[f]]
        /\ QHolder' = QHolder
    BY <1>9 DEF Queue!Reopen, QPhase, QHolder, QTries
  <2> QED  BY <2>1 DEF QMoves
<1> QED
  BY <1>2, <1>3, <1>4, <1>5, <1>6, <1>7, <1>8, <1>9 DEF Queue!Next

LEMMA QueueKept ==
    ASSUME [Queue!Next]_(Queue!vars), \A e \in Entries : QRow(e)
    PROVE  (\A e \in Entries : QRow(e))'
<1> SUFFICES ASSUME NEW e \in Entries PROVE QRow(e)'
  OBVIOUS
<1>1. QMoves(e) /\ QRow(e)
  BY QueueMoves
<1>2. MaxAttempts \in Nat /\ NoRun \notin Runs
  BY ExtractAssumption
<1> QED
  BY <1>1, <1>2 DEF QMoves, QRow, Queue!Phases

LEMMA QueueRows == Spec => [](\A e \in Entries : QRow(e))
<1>1. Queue!Init => \A e \in Entries : QRow(e)
  <2> SUFFICES ASSUME Queue!Init, NEW e \in Entries PROVE QRow(e)
    OBVIOUS
  <2>1. QPhase[e] = "absent" /\ QHolder[e] = NoRun /\ QTries[e] = 0
    BY DEF Queue!Init, QPhase, QHolder, QTries
  <2> QED  BY <2>1, ExtractAssumption DEF QRow, Queue!Phases
<1>2. (\A e \in Entries : QRow(e)) /\ [Queue!Next]_(Queue!vars)
         => (\A e \in Entries : QRow(e))'
  BY QueueKept
<1> QED
  BY <1>1, <1>2, ExtractImplementsLeaseQueue, PTL DEF ImplementsLeaseQueue, Queue!Spec

\* LeaseQueue's invariants, for feed_entries: no row is handed out more often than its
\* budget allows, and it has a holder exactly while it is worked on, and only
\* after it was handed out.
THEOREM ExtractQueueHeld == Spec => [](Queue!TypeOK /\ Queue!HeldExactlyWhileWorking)
<1>1. (\A e \in Entries : QRow(e)) => Queue!TypeOK /\ Queue!HeldExactlyWhileWorking
  <2> SUFFICES ASSUME \A e \in Entries : QRow(e)
               PROVE  Queue!TypeOK /\ Queue!HeldExactlyWhileWorking
    OBVIOUS
  <2>1. /\ QPhase \in [Entries -> Queue!Phases] /\ QHolder \in [Entries -> Runs \cup {NoRun}]
        /\ QTries \in [Entries -> 0..MaxAttempts]
    <3>1. /\ QPhase = [f \in Entries |-> QPhase[f]] /\ QHolder = [f \in Entries |-> QHolder[f]]
          /\ QTries = [f \in Entries |-> QTries[f]]
      BY DEF QPhase, QHolder, QTries
    <3> QED  BY <3>1 DEF QRow
  <2>2. \A e \in Entries :
           /\ (QHolder[e] # NoRun) <=> (QPhase[e] = "working")
           /\ QPhase[e] = "working" => QTries[e] > 0
    BY DEF QRow
  <2> QED
    BY <2>1, <2>2 DEF Queue!TypeOK, Queue!HeldExactlyWhileWorking, QPhase, QHolder, QTries
<1> QED
  BY <1>1, QueueRows, PTL

\* LeaseQueue's action property: once settled, a row is never handed out or held
\* again, unless a backfill reopens it with a fresh budget.
THEOREM ExtractQueueDoneIsFinal == Spec => Queue!DoneIsFinal
<1> DEFINE A == \A k \in Entries : QPhase[k] = "done" =>
                   /\ QHolder'[k] = NoRun
                   /\ \/ QPhase'[k] = "done" /\ QTries'[k] = QTries[k]
                      \/ Backfill /\ QPhase'[k] = "queued" /\ QTries'[k] = 0
<1>1. (\A e \in Entries : QRow(e)) /\ [Queue!Next]_(Queue!vars) => A
  <2> SUFFICES ASSUME \A e \in Entries : QRow(e), [Queue!Next]_(Queue!vars),
                      NEW e \in Entries, QPhase[e] = "done"
               PROVE  /\ QHolder'[e] = NoRun
                      /\ \/ QPhase'[e] = "done" /\ QTries'[e] = QTries[e]
                         \/ Backfill /\ QPhase'[e] = "queued" /\ QTries'[e] = 0
    OBVIOUS
  <2>1. QMoves(e) /\ QRow(e)
    BY QueueMoves
  <2> QED  BY <2>1 DEF QMoves, QRow
<1>2. Spec => [][A]_(Queue!vars)
  BY <1>1, QueueRows, ExtractImplementsLeaseQueue, PTL DEF ImplementsLeaseQueue, Queue!Spec
<1> QED
  BY <1>2 DEF Queue!DoneIsFinal, QPhase, QHolder, QTries
-----------------------------------------------------------------------------
(***************************************************************************)
(* The promise of LeaseQueue itself, for every table that keeps it: any    *)
(* rows, holders and retry budget, with or without refunds and reopening.  *)
(***************************************************************************)
CONSTANTS Rows, Holders, NoHolder, Budget, MayRefund, MayReopen
VARIABLES phase, holder, tries

Any == INSTANCE LeaseQueue WITH
                Runs <- Holders, NoRun <- NoHolder, MaxAttempts <- Budget

\* The two invariants need each other: a row is only refunded while it has a
\* holder, and it has one only after an attempt was counted.
LEMMA LeaseQueueStep ==
  ASSUME Any!LeaseQueueAssumption, Any!TypeOK, Any!HeldExactlyWhileWorking, [Any!Next]_Any!vars
  PROVE  Any!TypeOK' /\ Any!HeldExactlyWhileWorking'
<1> USE DEF Any!LeaseQueueAssumption
<1>1. ASSUME NEW S \in SUBSET Rows, Any!Enqueue(S)
      PROVE  Any!TypeOK' /\ Any!HeldExactlyWhileWorking'
  BY <1>1 DEF Any!TypeOK, Any!HeldExactlyWhileWorking, Any!Enqueue, Any!Phases
<1>2. ASSUME NEW r \in Holders, NEW S \in SUBSET Rows, Any!Take(r, S)
      PROVE  Any!TypeOK' /\ Any!HeldExactlyWhileWorking'
  <2>1. tries' \in [Rows -> 0..Budget]
    BY <1>2 DEF Any!TypeOK, Any!Take
  <2>2. Any!TypeOK'
    BY <1>2, <2>1 DEF Any!TypeOK, Any!Take, Any!Phases
  <2> QED
    BY <1>2, <2>2 DEF Any!TypeOK, Any!HeldExactlyWhileWorking, Any!Take
<1>3. ASSUME NEW r \in Holders, NEW k \in Rows, Any!Settle(r, k) \/ Any!GiveBack(r, k)
      PROVE  Any!TypeOK' /\ Any!HeldExactlyWhileWorking'
  BY <1>3 DEF Any!TypeOK, Any!HeldExactlyWhileWorking, Any!Settle, Any!GiveBack, Any!Phases
<1>4. ASSUME NEW r \in Holders, NEW k \in Rows, Any!Refund(r, k)
      PROVE  Any!TypeOK' /\ Any!HeldExactlyWhileWorking'
  <2>1. tries[k] - 1 \in 0..Budget
    BY <1>4 DEF Any!HeldExactlyWhileWorking, Any!TypeOK, Any!Refund
  <2>2. tries' = [tries EXCEPT ![k] = tries[k] - 1] /\ tries' \in [Rows -> 0..Budget]
    BY <1>4, <2>1 DEF Any!TypeOK, Any!Refund
  <2>3. Any!TypeOK'
    BY <1>4, <2>2 DEF Any!TypeOK, Any!Refund, Any!Phases
  <2> QED
    BY <1>4, <2>2, <2>3 DEF Any!TypeOK, Any!HeldExactlyWhileWorking, Any!Refund
<1>5. ASSUME NEW S \in SUBSET Rows, Any!Evict(S) \/ Any!Discard(S) \/ Any!Reopen(S)
      PROVE  Any!TypeOK' /\ Any!HeldExactlyWhileWorking'
  BY <1>5 DEF Any!TypeOK, Any!HeldExactlyWhileWorking, Any!Evict, Any!Discard,
              Any!Reopen, Any!Phases
<1>6. CASE UNCHANGED Any!vars
  BY <1>6 DEF Any!TypeOK, Any!HeldExactlyWhileWorking, Any!vars
<1> QED
  BY <1>1, <1>2, <1>3, <1>4, <1>5, <1>6 DEF Any!Next

\* At the start every row is absent, without a holder and unattempted.
LEMMA LeaseQueueInit ==
  ASSUME Any!LeaseQueueAssumption, Any!Init
  PROVE  Any!TypeOK /\ Any!HeldExactlyWhileWorking
BY DEF Any!LeaseQueueAssumption, Any!Init, Any!TypeOK, Any!HeldExactlyWhileWorking, Any!Phases

\* No row is handed out more often than its budget allows.
THEOREM LeaseQueueTyped ==
  ASSUME Any!LeaseQueueAssumption
  PROVE  Any!Spec => []Any!TypeOK
<1>1. Any!Init => Any!TypeOK /\ Any!HeldExactlyWhileWorking
  BY LeaseQueueInit
<1>2. Any!TypeOK /\ Any!HeldExactlyWhileWorking /\ [Any!Next]_Any!vars
        => Any!TypeOK' /\ Any!HeldExactlyWhileWorking'
  BY LeaseQueueStep
<1> QED
  BY <1>1, <1>2, PTL DEF Any!Spec

\* A row has a holder exactly while it is being worked on, and only after it
\* was handed out.
THEOREM LeaseQueueHeld ==
  ASSUME Any!LeaseQueueAssumption
  PROVE  Any!Spec => []Any!HeldExactlyWhileWorking
<1>1. Any!Init => Any!TypeOK /\ Any!HeldExactlyWhileWorking
  BY LeaseQueueInit
<1>2. Any!TypeOK /\ Any!HeldExactlyWhileWorking /\ [Any!Next]_Any!vars
        => Any!TypeOK' /\ Any!HeldExactlyWhileWorking'
  BY LeaseQueueStep
<1> QED
  BY <1>1, <1>2, PTL DEF Any!Spec

\* Once settled, a row is never handed out or held again; it stays settled or
\* is reopened with a fresh budget.
AnyFinal(k) ==
    /\ holder'[k] = NoHolder
    /\ \/ phase'[k] = "done" /\ tries'[k] = tries[k]
       \/ MayReopen /\ phase'[k] = "queued" /\ tries'[k] = 0

THEOREM LeaseQueueDoneIsFinal ==
  ASSUME Any!LeaseQueueAssumption
  PROVE  Any!Spec => Any!DoneIsFinal
<1>1. Any!TypeOK /\ Any!HeldExactlyWhileWorking /\ [Any!Next]_Any!vars
        => [\A k \in Rows : phase[k] = "done" => AnyFinal(k)]_Any!vars
  <2> SUFFICES ASSUME Any!TypeOK, Any!HeldExactlyWhileWorking, Any!Next,
                      NEW k \in Rows, phase[k] = "done"
               PROVE  AnyFinal(k)
    OBVIOUS
  <2>0. holder[k] = NoHolder
    BY DEF Any!HeldExactlyWhileWorking
  <2>1. ASSUME NEW S \in SUBSET Rows, Any!Enqueue(S)
        PROVE  AnyFinal(k)
    BY <2>0, <2>1 DEF Any!TypeOK, Any!Enqueue, AnyFinal
  <2>2. ASSUME NEW r \in Holders, NEW S \in SUBSET Rows, Any!Take(r, S)
        PROVE  AnyFinal(k)
    BY <2>0, <2>2 DEF Any!Take, AnyFinal
  <2>3. ASSUME NEW r \in Holders, NEW j \in Rows,
               Any!Settle(r, j) \/ Any!GiveBack(r, j) \/ Any!Refund(r, j)
        PROVE  AnyFinal(k)
    BY <2>0, <2>3 DEF Any!TypeOK, Any!Settle, Any!GiveBack, Any!Refund, AnyFinal
  <2>4. ASSUME NEW S \in SUBSET Rows, Any!Evict(S) \/ Any!Discard(S) \/ Any!Reopen(S)
        PROVE  AnyFinal(k)
    BY <2>0, <2>4 DEF Any!TypeOK, AnyFinal, Any!Evict, Any!Discard, Any!Reopen
  <2> QED
    BY <2>1, <2>2, <2>3, <2>4 DEF Any!Next
<1> QED
  BY <1>1, LeaseQueueTyped, LeaseQueueHeld, PTL DEF Any!Spec, Any!DoneIsFinal, AnyFinal
=============================================================================
