---------------------------- MODULE PublishProofs ----------------------------
(***************************************************************************)
(* Proofs about the publish stage, for any number of categories, articles, *)
(* editions and processes and any budget.                                  *)
(***************************************************************************)
EXTENDS Publish, TLAPS

-----------------------------------------------------------------------------
(* Rows.                                                                   *)

\* The states of a row.
RowStates == {"absent"} \cup StageStates \cup Terminal

\* Rows built without a lease are rows.
LEMMA UnleasedTyped ==
    ASSUME NEW st \in RowStates, NEW n \in 0..MaxAttempts, NEW b \in BOOLEAN
    PROVE  Unleased(st, n, b) \in Row
BY DEF Unleased, Row, RowStates

\* The fields of a row built without a lease.
LEMMA UnleasedFields ==
    ASSUME NEW st \in RowStates, NEW n \in 0..MaxAttempts, NEW b \in BOOLEAN
    PROVE  /\ Unleased(st, n, b).state = st /\ Unleased(st, n, b).owner = NoRun
           /\ Unleased(st, n, b).lease = "none" /\ Unleased(st, n, b).attempts = n
           /\ Unleased(st, n, b).remote = b
BY DEF Unleased

\* A new row.
LEMMA PendingRow ==
    ASSUME NEW b \in BOOLEAN
    PROVE  /\ Unleased("pending", 0, b) \in Row /\ Unleased("pending", 0, b).state = "pending"
           /\ Unleased("pending", 0, b).owner = NoRun
           /\ Unleased("pending", 0, b).lease = "none"
<1>1. "pending" \in RowStates /\ 0 \in 0..MaxAttempts
  BY PublishAssumption DEF RowStates, StageStates
<1> QED
  BY <1>1, UnleasedTyped, UnleasedFields

\* The same for a row that is released.
LEMMA MovedRow ==
    ASSUME TypeOK, NEW k \in Records, NEW st \in RowStates
    PROVE  /\ Moved(k, st) \in Row
           /\ Moved(k, st).state = st /\ Moved(k, st).owner = NoRun
           /\ Moved(k, st).lease = "none" /\ Moved(k, st).attempts = rec[k].attempts
           /\ Moved(k, st).remote = rec[k].remote
<1>1. rec[k] \in Row
  BY DEF TypeOK
<1>2. rec[k].attempts \in 0..MaxAttempts /\ rec[k].remote \in BOOLEAN
  BY <1>1 DEF Row
<1> QED
  BY <1>2, UnleasedTyped, UnleasedFields DEF Moved

\* The same for a row that is claimed.
LEMMA ClaimedRow ==
    ASSUME TypeOK, NEW k \in Records, NEW r \in Runs, NEW st \in StageStates, Claimable(k, st)
    PROVE  /\ Claimed(k, r) \in Row
           /\ Claimed(k, r).state = rec[k].state /\ Claimed(k, r).owner = r
           /\ Claimed(k, r).lease = "live" /\ Claimed(k, r).attempts = rec[k].attempts + 1
           /\ Claimed(k, r).remote = rec[k].remote
<1>1. rec[k] \in Row
  BY DEF TypeOK
<1>2. /\ rec[k].attempts \in 0..MaxAttempts /\ rec[k].attempts < MaxAttempts
      /\ rec[k].remote \in BOOLEAN /\ rec[k].state \in RowStates
  BY <1>1 DEF Row, Claimable, RowStates
<1>3. rec[k].attempts + 1 \in 0..MaxAttempts
  BY <1>2, PublishAssumption
<1> QED
  BY <1>2, <1>3 DEF Claimed, Row, RowStates

\* Replacing one row replaces no other.
LEMMA RowReplaced ==
    ASSUME TypeOK, NEW k \in Records, NEW row, rec' = [rec EXCEPT ![k] = row]
    PROVE  /\ rec' = [j \in Records |-> rec'[j]]
           /\ rec'[k] = row /\ \A j \in Records \ {k} : rec'[j] = rec[j]
BY DEF TypeOK

-----------------------------------------------------------------------------
(* What a step does to the records.                                        *)

\* The articles that have gone out.
Out == {a \in Articles : art[a] = "published"}

\* Row k stays in its state, and its lease is in order.
KeepsStage(k) ==
    /\ rec'[k] \in Row
    /\ rec'[k].state = rec[k].state /\ rec'[k].remote = rec[k].remote
    /\ (rec'[k].owner # NoRun) <=> (rec'[k].lease # "none")
    /\ rec'[k].lease # "none" => rec'[k].state \in StageStates /\ rec'[k].attempts > 0

\* Nothing but leases and attempts changes.
Quiet ==
    /\ rec' = [k \in Records |-> rec'[k]]
    /\ \A k \in Records : KeepsStage(k)
    /\ items' = items /\ Out' = Out

\* A record is created.
Created(k) ==
    /\ rec[k].state = "absent"
    /\ \E b \in BOOLEAN : rec' = [rec EXCEPT ![k] = Unleased("pending", 0, b)]
    /\ items' = items /\ Out' = Out

\* Records fail.
Lost(S) ==
    /\ \A k \in S : rec[k].state \in StageStates
    /\ rec' = [k \in Records |-> IF k \in S THEN Moved(k, "failed") ELSE rec[k]]
    /\ items' = items /\ Out' = Out

\* Process r has record k in its hands, at the stage of the record's state.
Hands(r, k) ==
    /\ Owns(r, k) /\ k \in held[r] /\ stage[r] = rec[k].state
    /\ pc[r] \in {"work", "release"}
    /\ stage[r] \in {"rendered", "stored_local"} => pc[r] = "release"

\* A report is frozen.
Froze(r, k) ==
    /\ Hands(r, k) /\ rec[k].state = "pending"
    /\ rec' = [rec EXCEPT ![k] = Moved(k, "snapshot_frozen")]
    /\ \E S \in SUBSET Articles : S # {} /\ items' = [items EXCEPT ![k] = S]
    /\ Out' = Out

\* A record goes to its next stage.
Proceeds(r, k, to) ==
    /\ Hands(r, k)
    /\ \/ rec[k].state = "snapshot_frozen" /\ to = "rendered"
       \/ rec[k].state = "rendered" /\ to = "stored_local" /\ rec[k].remote
    /\ rec' = [rec EXCEPT ![k] = Moved(k, to)]
    /\ items' = items /\ Out' = Out

\* A report is published with its articles.
Delivered(r, k, to) ==
    /\ Hands(r, k)
    /\ \/ rec[k].state = "rendered" /\ to = "published_local" /\ ~rec[k].remote
       \/ rec[k].state = "stored_local" /\ to = "published_remote"
    /\ rec' = [rec EXCEPT ![k] = Moved(k, to)]
    /\ items' = items
    /\ items[k] \cap Out = {} /\ Out' = Out \cup (items[k] \cap Articles)

RecordsStep ==
    \/ Quiet
    \/ \E k \in Records : Created(k)
    \/ \E S \in SUBSET Records : Lost(S)
    \/ \E r \in Runs, k \in Records :
         Froze(r, k) \/ \E to \in RowStates : Proceeds(r, k, to) \/ Delivered(r, k, to)

\* A row that is not written keeps its stage.
LEMMA RowStays ==
    ASSUME TypeOK, RecordCoherent, NEW k \in Records, rec'[k] = rec[k]
    PROVE  KeepsStage(k)
BY DEF TypeOK, RecordCoherent, KeepsStage

\* A step that writes neither records nor items nor published articles.
LEMMA NothingWritten ==
    ASSUME TypeOK, RecordCoherent, rec' = rec, items' = items, Out' = Out
    PROVE  Quiet
<1>1. \A k \in Records : KeepsStage(k)
  BY RowStays
<1>2. rec' = [k \in Records |-> rec'[k]]
  BY DEF TypeOK
<1> QED
  BY <1>1, <1>2 DEF Quiet

\* A row released into the state it has keeps its stage.
LEMMA RowReleased ==
    ASSUME TypeOK, NEW k \in Records, NEW n \in 0..MaxAttempts,
           rec'[k] = Unleased(rec[k].state, n, rec[k].remote)
    PROVE  KeepsStage(k)
<1>1. rec[k].state \in RowStates /\ rec[k].remote \in BOOLEAN
  BY DEF TypeOK, Row, RowStates
<1> QED
  BY <1>1, UnleasedTyped, UnleasedFields DEF KeepsStage

\* One row is released into the state it has.
LEMMA OneReleased ==
    ASSUME TypeOK, RecordCoherent, NEW k \in Records, NEW n \in 0..MaxAttempts,
           rec' = [rec EXCEPT ![k] = Unleased(rec[k].state, n, rec[k].remote)],
           items' = items, Out' = Out
    PROVE  Quiet
<1>1. /\ rec' = [j \in Records |-> rec'[j]]
      /\ rec'[k] = Unleased(rec[k].state, n, rec[k].remote)
      /\ \A j \in Records \ {k} : rec'[j] = rec[j]
  BY RowReplaced
<1>2. KeepsStage(k)
  BY <1>1, RowReleased
<1>3. \A j \in Records \ {k} : KeepsStage(j)
  BY <1>1, RowStays
<1> QED
  BY <1>1, <1>2, <1>3 DEF Quiet

\* One record fails.
LEMMA OneLost ==
    ASSUME TypeOK, NEW k \in Records, rec[k].state \in StageStates,
           rec' = [rec EXCEPT ![k] = Moved(k, "failed")], items' = items, Out' = Out
    PROVE  Lost({k})
<1>1. rec' = [j \in Records |-> IF j \in {k} THEN Moved(j, "failed") ELSE rec[j]]
  BY DEF TypeOK
<1> QED
  BY <1>1 DEF Lost

\* Who owns a record has it at a stage, with an attempt used.
LEMMA OwnedAtStage ==
    ASSUME TypeOK, RecordCoherent, NEW r \in Runs, NEW k \in Records, Owns(r, k)
    PROVE  rec[k].state \in StageStates /\ rec[k].attempts \in 1..MaxAttempts
<1>1. rec[k].owner = r /\ r # NoRun
  BY PublishAssumption DEF Owns
<1>2. rec[k].state \in StageStates /\ rec[k].attempts > 0
  BY <1>1 DEF RecordCoherent
<1>3. rec[k].attempts \in 0..MaxAttempts
  BY DEF TypeOK, Row
<1> QED
  BY <1>2, <1>3, PublishAssumption

\* A failure release keeps the stage or fails the record.
LEMMA FailureStep ==
    ASSUME TypeOK, RecordCoherent, NEW r \in Runs, NEW k \in Records, StageFails(r, k)
    PROVE  RecordsStep
<1>1. items' = items /\ art' = art
  BY DEF StageFails, ReleaseRetryable, ReleasePermanent, ReleaseLost, db
<1>2. Out' = Out
  BY <1>1 DEF Out
<1>3. CASE rec' = rec
  BY <1>1, <1>2, <1>3, NothingWritten DEF RecordsStep
<1>4. CASE Owns(r, k) /\ rec' = [rec EXCEPT ![k] = Moved(k, "failed")]
  <2>1. Lost({k})
    BY <1>1, <1>2, <1>4, OwnedAtStage, OneLost
  <2>2. {k} \in SUBSET Records
    OBVIOUS
  <2> QED
    BY <2>1, <2>2 DEF RecordsStep
<1>5. CASE Owns(r, k) /\ rec' = [rec EXCEPT ![k] = Moved(k, rec[k].state)]
  <2>1. rec[k].attempts \in 0..MaxAttempts
    BY DEF TypeOK, Row
  <2>2. rec' = [rec EXCEPT ![k] = Unleased(rec[k].state, rec[k].attempts, rec[k].remote)]
    BY <1>5 DEF Moved
  <2> QED
    BY <1>1, <1>2, <2>1, <2>2, OneReleased DEF RecordsStep
<1> QED
  BY <1>3, <1>4, <1>5 DEF StageFails, ReleaseRetryable, ReleasePermanent, ReleaseLost, db, TypeOK

\* freeze before its transaction.
LEMMA LoadStep ==
    ASSUME TypeOK, RecordCoherent, NEW r \in Runs, NEW k \in Records,
           \/ \E off \in AiOff, S \in SUBSET Articles : LoadCandidates(r, k, off, S)
           \/ ReleaseEmptySnapshot(r, k)
    PROVE  RecordsStep
<1>1. items' = items /\ art' = art
  BY DEF LoadCandidates, ReleaseEmptySnapshot, db
<1>2. Out' = Out
  BY <1>1 DEF Out
<1>3. CASE rec' = rec
  BY <1>1, <1>2, <1>3, NothingWritten DEF RecordsStep
<1>4. CASE Advances(r, k, "pending")
           /\ rec' = [rec EXCEPT ![k] = Unleased("pending", rec[k].attempts - 1, rec[k].remote)]
  <2>1. rec[k].attempts - 1 \in 0..MaxAttempts /\ rec[k].state = "pending"
    BY <1>4, OwnedAtStage, PublishAssumption DEF Advances
  <2> QED
    BY <1>1, <1>2, <1>4, <2>1, OneReleased DEF RecordsStep
<1> QED
  BY <1>3, <1>4 DEF LoadCandidates, ReleaseEmptySnapshot, db, TypeOK

\* The transaction of freeze: promoting articles lets none go out.
LEMMA FreezeStep ==
    ASSUME TypeOK, RecordCoherent, NEW r \in Runs, NEW k \in Records, FreezeSnapshot(r, k)
    PROVE  RecordsStep
<1>1. CASE UNCHANGED db
  BY <1>1, NothingWritten DEF RecordsStep, db, Out
<1>2. CASE /\ \A a \in promote[r] : art[a] = "persisted"
           /\ Advances(r, k, "pending")
           /\ art' = [a \in Articles |-> IF a \in promote[r] THEN "ready_for_publish" ELSE art[a]]
           /\ items' = [items EXCEPT ![k] = cand[r]]
           /\ rec' = [rec EXCEPT ![k] = Moved(k, "snapshot_frozen")]
  <2>1. Out' = Out
    BY <1>2 DEF Out
  <2>2. Hands(r, k) /\ rec[k].state = "pending"
    BY <1>2 DEF Hands, FreezeSnapshot, Advances
  <2>3. cand[r] \in SUBSET Articles /\ cand[r] # {}
    BY DEF TypeOK, FreezeSnapshot
  <2> QED
    BY <1>2, <2>1, <2>2, <2>3 DEF Froze, RecordsStep
<1> QED
  BY <1>1, <1>2 DEF FreezeSnapshot

\* A guarded release into the next stage.
LEMMA AdvancedStep ==
    ASSUME TypeOK, RecordCoherent, NEW r \in Runs, NEW k \in Records,
           NEW from \in StageStates, NEW to \in StageStates,
           Advanced(r, k, from, to), Advances(r, k, from) => Hands(r, k),
           \/ from = "snapshot_frozen" /\ to = "rendered"
           \/ from = "rendered" /\ to = "stored_local" /\ rec[k].remote,
           art' = art, items' = items
    PROVE  RecordsStep
<1>1. Out' = Out
  BY DEF Out
<1>2. CASE Advances(r, k, from)
  <2>1. to \in RowStates
    BY DEF RowStates
  <2>2. Proceeds(r, k, to)
    BY <1>1, <1>2 DEF Proceeds, Advanced, Advances
  <2> QED
    BY <2>1, <2>2 DEF RecordsStep
<1>3. CASE ~Advances(r, k, from)
  BY <1>1, <1>3, NothingWritten DEF Advanced, RecordsStep
<1> QED
  BY <1>2, <1>3

\* The terminal release: its articles go out, none of them for the second time.
LEMMA TerminalStep ==
    ASSUME TypeOK, RecordCoherent, NEW r \in Runs, NEW k \in Records,
           NEW from \in StageStates, NEW to \in Published,
           TerminalAdvance(r, k, from, to), Advances(r, k, from) => Hands(r, k),
           \/ from = "rendered" /\ to = "published_local" /\ ~rec[k].remote
           \/ from = "stored_local" /\ to = "published_remote",
           items' = items
    PROVE  RecordsStep
<1>1. CASE Advances(r, k, from) /\ \A a \in items[k] : art[a] = "ready_for_publish"
  <2>1. /\ rec' = [rec EXCEPT ![k] = Moved(k, to)]
        /\ art' = [a \in Articles |-> IF a \in items[k] THEN "published" ELSE art[a]]
    BY <1>1 DEF TerminalAdvance
  <2>2. items[k] \cap Out = {} /\ Out' = Out \cup (items[k] \cap Articles)
    BY <1>1, <2>1 DEF Out
  <2>3. Delivered(r, k, to)
    BY <1>1, <2>1, <2>2 DEF Delivered, Advances
  <2>4. to \in RowStates
    BY DEF RowStates, Terminal
  <2> QED
    BY <2>3, <2>4 DEF RecordsStep
<1>2. CASE ~(Advances(r, k, from) /\ \A a \in items[k] : art[a] = "ready_for_publish")
  BY <1>2, NothingWritten DEF TerminalAdvance, RecordsStep, Out
<1> QED
  BY <1>1, <1>2

\* Every step of a stage.
LEMMA StageSteps ==
    ASSUME TypeOK, RecordCoherent, NEW r \in Runs, NEW k \in Records, StageStep(r, k)
    PROVE  RecordsStep
<1>1. CASE StageFails(r, k)
  BY <1>1, FailureStep
<1>2. CASE \/ \E off \in AiOff, S \in SUBSET Articles : LoadCandidates(r, k, off, S)
           \/ ReleaseEmptySnapshot(r, k)
  BY <1>2, LoadStep
<1>3. CASE FreezeSnapshot(r, k)
  BY <1>3, FreezeStep
<1>4. CASE FreezeFails(r, k)
  <2>1. \/ UNCHANGED <<rec, items, art>>
        \/ /\ Owns(r, k) /\ rec' = [rec EXCEPT ![k] = Moved(k, "failed")]
           /\ UNCHANGED <<items, art>>
    BY <1>4 DEF FreezeFails, ReleasePermanent, ReleaseLost, db
  <2>2. Out' = Out
    BY <2>1 DEF Out
  <2>3. CASE UNCHANGED <<rec, items, art>>
    BY <2>2, <2>3, NothingWritten DEF RecordsStep
  <2>4. CASE Owns(r, k) /\ rec' = [rec EXCEPT ![k] = Moved(k, "failed")] /\ items' = items
    <3>1. Lost({k})
      BY <2>2, <2>4, OwnedAtStage, OneLost
    <3>2. {k} \in SUBSET Records
      OBVIOUS
    <3> QED
      BY <3>1, <3>2 DEF RecordsStep
  <2> QED
    BY <2>1, <2>3, <2>4
<1>5. CASE Render(r, k)
  <2>1. Advances(r, k, "snapshot_frozen") => Hands(r, k)
    BY <1>5 DEF Render, Hands, Advances
  <2>2. /\ Advanced(r, k, "snapshot_frozen", "rendered") /\ art' = art /\ items' = items
        /\ "snapshot_frozen" \in StageStates /\ "rendered" \in StageStates
    BY <1>5 DEF Render, StageStates
  <2> QED
    BY <2>1, <2>2, AdvancedStep
<1>6. CASE StoreLocal(r, k)
  <2>1. Advances(r, k, "rendered") => Hands(r, k)
    BY <1>6 DEF StoreLocal, Hands, Advances
  <2>2. /\ items' = items /\ "rendered" \in StageStates /\ "stored_local" \in StageStates
        /\ "published_local" \in Published
    BY <1>6 DEF StoreLocal, StageStates, Published
  <2>3. CASE rec[k].remote
    <3>1. Advanced(r, k, "rendered", "stored_local") /\ art' = art
      BY <1>6, <2>3 DEF StoreLocal
    <3> QED
      BY <2>1, <2>2, <2>3, <3>1, AdvancedStep
  <2>4. CASE ~rec[k].remote
    <3>1. TerminalAdvance(r, k, "rendered", "published_local")
      BY <1>6, <2>4 DEF StoreLocal
    <3> QED
      BY <2>1, <2>2, <2>4, <3>1, TerminalStep
  <2> QED
    BY <2>3, <2>4
<1>7. CASE PublishRemote(r, k)
  <2>1. Advances(r, k, "stored_local") => Hands(r, k)
    BY <1>7 DEF PublishRemote, Hands, Advances
  <2>2. /\ TerminalAdvance(r, k, "stored_local", "published_remote") /\ items' = items
        /\ "stored_local" \in StageStates /\ "published_remote" \in Published
    BY <1>7 DEF PublishRemote, StageStates, Published
  <2> QED
    BY <2>1, <2>2, TerminalStep
<1>8. CASE WriteLocal(r, k) \/ StoreLost(r, k) \/ PublishLost(r, k)
  BY <1>8, NothingWritten DEF WriteLocal, StoreLost, PublishLost, ReleaseLost, db, RecordsStep, Out
<1> QED
  BY <1>1, <1>2, <1>3, <1>4, <1>5, <1>6, <1>7, <1>8 DEF StageStep

\* The neighbouring stages take no article to, or out of, published.
LEMMA NeighbourStep ==
    ASSUME TypeOK, RecordCoherent, NEW a \in Articles,
           CreateAiTask(a) \/ BackfillInsert(a) \/ KeepResult(a)
    PROVE  RecordsStep
<1>1. rec' = rec /\ items' = items
  BY DEF CreateAiTask, BackfillInsert, KeepResult
<1>2. Out' = Out
  <2>1. \A b \in Articles : (art'[b] = "published") <=> (art[b] = "published")
    BY DEF CreateAiTask, BackfillInsert, KeepResult, TypeOK
  <2> QED
    BY <2>1 DEF Out
<1> QED
  BY <1>1, <1>2, NothingWritten DEF RecordsStep

\* Init creates a record or leaves it as it is.
LEMMA InitStep ==
    ASSUME TypeOK, RecordCoherent, NEW r \in Runs, NEW k \in Records, InitRecord(r, k)
    PROVE  RecordsStep
<1>1. items' = items /\ Out' = Out
  BY DEF InitRecord, Out
<1>2. CASE rec[k].state = "absent"
  <2>1. rec' = [rec EXCEPT ![k] = Unleased("pending", 0, remote[r])] /\ remote[r] \in BOOLEAN
    BY <1>2 DEF InitRecord, TypeOK
  <2>2. Created(k)
    BY <1>1, <1>2, <2>1 DEF Created
  <2> QED
    BY <2>2 DEF RecordsStep
<1>3. CASE rec[k].state # "absent"
  BY <1>1, <1>3, NothingWritten DEF InitRecord, RecordsStep
<1> QED
  BY <1>2, <1>3

\* The steps that write leases.
LEMMA LeaseStep ==
    ASSUME TypeOK, RecordCoherent,
           \/ \E k \in Records : LeaseExpires(k)
           \/ \E r \in Runs : ReclaimLeases(r)
           \/ \E r \in Runs, S \in SUBSET Records : ClaimByIds(r, S)
    PROVE  Quiet
<1>1. items' = items /\ Out' = Out
  BY DEF LeaseExpires, ReclaimLeases, ClaimByIds, Out
<1>2. ASSUME NEW k \in Records, LeaseExpires(k) PROVE Quiet
  <2>1. rec' = [j \in Records |-> rec'[j]]
    BY <1>2 DEF LeaseExpires, TypeOK
  <2>2. \A j \in Records \ {k} : rec'[j] = rec[j]
    BY <1>2 DEF LeaseExpires, TypeOK
  <2>3. rec[k] \in Row /\ rec[k].lease = "live" /\ rec'[k] = [rec[k] EXCEPT !.lease = "expired"]
    BY <1>2 DEF LeaseExpires, TypeOK
  <2>4. /\ rec'[k] \in Row /\ rec'[k].state = rec[k].state /\ rec'[k].remote = rec[k].remote
        /\ rec'[k].owner = rec[k].owner /\ rec'[k].lease = "expired"
        /\ rec'[k].attempts = rec[k].attempts
    BY <2>3 DEF Row
  <2>5. KeepsStage(k)
    BY <2>3, <2>4 DEF KeepsStage, RecordCoherent
  <2>6. \A j \in Records \ {k} : KeepsStage(j)
    BY <2>2, RowStays
  <2> QED
    BY <1>1, <2>1, <2>5, <2>6 DEF Quiet
<1>3. ASSUME NEW r \in Runs, ReclaimLeases(r) PROVE Quiet
  <2>1. rec' = [k \in Records |-> IF Expired(k) THEN Moved(k, rec[k].state) ELSE rec[k]]
    BY <1>3 DEF ReclaimLeases
  <2>2. ASSUME NEW k \in Records PROVE KeepsStage(k)
    <3>1. CASE Expired(k)
      <4>1. rec'[k] = Unleased(rec[k].state, rec[k].attempts, rec[k].remote)
        BY <2>1, <3>1 DEF Moved
      <4>2. rec[k].attempts \in 0..MaxAttempts
        BY DEF TypeOK, Row
      <4> QED
        BY <4>1, <4>2, RowReleased
    <3>2. CASE ~Expired(k)
      BY <2>1, <3>2, RowStays
    <3> QED
      BY <3>1, <3>2
  <2> QED
    BY <1>1, <2>1, <2>2 DEF Quiet
<1>4. ASSUME NEW r \in Runs, NEW S \in SUBSET Records, ClaimByIds(r, S) PROVE Quiet
  <2>1. rec' = [k \in Records |-> IF k \in S THEN Claimed(k, r) ELSE rec[k]]
    BY <1>4 DEF ClaimByIds
  <2>2. stage[r] \in StageStates /\ \A k \in S : Claimable(k, stage[r])
    BY <1>4 DEF ClaimByIds, TypeOK
  <2>3. ASSUME NEW k \in Records PROVE KeepsStage(k)
    <3>1. CASE k \in S
      <4>1. /\ rec'[k] = Claimed(k, r) /\ Claimable(k, stage[r])
            /\ rec[k].state = stage[r] /\ rec[k].attempts \in 0..MaxAttempts
        BY <2>1, <2>2, <3>1 DEF Claimable, TypeOK, Row
      <4>2. r # NoRun /\ rec[k].attempts + 1 > 0
        BY <4>1, PublishAssumption
      <4> QED
        BY <2>2, <4>1, <4>2, ClaimedRow DEF KeepsStage
    <3>2. CASE k \notin S
      BY <2>1, <3>2, RowStays
    <3> QED
      BY <3>1, <3>2
  <2> QED
    BY <1>1, <2>1, <2>3 DEF Quiet
<1> QED
  BY <1>2, <1>3, <1>4

\* The sweep fails records.
LEMMA SweepStep ==
    ASSUME TypeOK, NEW r \in Runs, SweepLeases(r)
    PROVE  RecordsStep
<1> DEFINE S == {k \in Records : Exhausted(k)}
<1>1. items' = items /\ Out' = Out
  BY DEF SweepLeases, Out
<1>2. rec' = [k \in Records |-> IF k \in S THEN Moved(k, "failed") ELSE rec[k]]
  BY DEF SweepLeases
<1>3. Lost(S)
  BY <1>1, <1>2 DEF Lost, Exhausted
<1>4. S \in SUBSET Records
  OBVIOUS
<1> QED
  BY <1>3, <1>4 DEF RecordsStep

\* Every step.
LEMMA EveryStep ==
    ASSUME TypeOK, RecordCoherent, [Next]_vars
    PROVE  RecordsStep
<1>1. CASE rec' = rec /\ items' = items /\ art' = art
  BY <1>1, NothingWritten DEF RecordsStep, Out
<1>2. ASSUME NEW a \in Articles, CreateAiTask(a) \/ BackfillInsert(a) \/ KeepResult(a)
      PROVE  RecordsStep
  BY <1>2, NeighbourStep
<1>3. ASSUME NEW r \in Runs, NEW e \in Editions, NEW C \in SUBSET Categories,
             NEW b \in BOOLEAN, StartRun(r, e, C, b)
      PROVE  RecordsStep
  BY <1>1, <1>3 DEF StartRun, db
<1>4. ASSUME NEW r \in Runs, RunStep(r) PROVE RecordsStep
  <2>1. ASSUME NEW k \in Records, InitRecord(r, k) PROVE RecordsStep
    BY <2>1, InitStep
  <2>2. CASE \/ \E k \in Records : InitFails(r, k)
             \/ RemoteStage(r) \/ EndRun(r) \/ MaintenanceFails(r) \/ NothingClaimed(r)
             \/ \E made, reported \in BOOLEAN : Push(r, made, reported)
    BY <1>1, <2>2 DEF InitFails, RemoteStage, EndRun, MaintenanceFails, NothingClaimed, Push, db
  <2>3. CASE ReclaimLeases(r) \/ \E S \in SUBSET Records : ClaimByIds(r, S)
    BY <2>3, LeaseStep DEF RecordsStep
  <2>4. CASE SweepLeases(r)
    BY <2>4, SweepStep
  <2>5. ASSUME NEW k \in Records, StageStep(r, k) PROVE RecordsStep
    BY <2>5, StageSteps
  <2> QED
    BY <1>4, <2>1, <2>2, <2>3, <2>4, <2>5 DEF RunStep, Maintain
<1>5. ASSUME NEW r \in Runs, Crash(r) PROVE RecordsStep
  BY <1>1, <1>5 DEF Crash, db
<1>6. ASSUME NEW k \in Records, LeaseExpires(k) PROVE RecordsStep
  BY <1>6, LeaseStep DEF RecordsStep
<1>7. CASE UNCHANGED vars
  BY <1>1, <1>7 DEF vars, db
<1> QED
  BY <1>2, <1>3, <1>4, <1>5, <1>6, <1>7 DEF Next

-----------------------------------------------------------------------------
(* Types and the coherence of records.                                     *)

\* One row replaced by a row.
LEMMA ReplacedTyped ==
    ASSUME TypeOK, NEW k \in Records, NEW row \in Row, rec' = [rec EXCEPT ![k] = row]
    PROVE  rec' \in [Records -> Row]
BY DEF TypeOK

\* The records keep their types.
LEMMA RecordsTyped ==
    ASSUME TypeOK, RecordsStep
    PROVE  rec' \in [Records -> Row] /\ items' \in [Records -> SUBSET Articles]
<1>1. CASE Quiet
  <2>1. \A k \in Records : rec'[k] \in Row
    BY <1>1 DEF Quiet, KeepsStage
  <2> QED
    BY <1>1, <2>1 DEF Quiet, TypeOK
<1>2. ASSUME NEW k \in Records, Created(k)
      PROVE  rec' \in [Records -> Row] /\ items' \in [Records -> SUBSET Articles]
  <2>1. PICK b \in BOOLEAN : rec' = [rec EXCEPT ![k] = Unleased("pending", 0, b)]
    BY <1>2 DEF Created
  <2>2. Unleased("pending", 0, b) \in Row
    BY PendingRow
  <2>3. rec' \in [Records -> Row]
    BY <2>1, <2>2, ReplacedTyped
  <2> QED
    BY <1>2, <2>3 DEF Created, TypeOK
<1>3. ASSUME NEW S \in SUBSET Records, Lost(S)
      PROVE  rec' \in [Records -> Row] /\ items' \in [Records -> SUBSET Articles]
  <2>1. \A k \in Records : Moved(k, "failed") \in Row
    BY MovedRow DEF RowStates, Terminal
  <2> QED
    BY <1>3, <2>1 DEF Lost, TypeOK
<1>4. ASSUME NEW r \in Runs, NEW k \in Records, Froze(r, k)
      PROVE  rec' \in [Records -> Row] /\ items' \in [Records -> SUBSET Articles]
  <2>1. Moved(k, "snapshot_frozen") \in Row
    BY MovedRow DEF RowStates, StageStates
  <2>2. rec' \in [Records -> Row]
    BY <1>4, <2>1, ReplacedTyped DEF Froze
  <2> QED
    BY <1>4, <2>2 DEF Froze, TypeOK
<1>5. ASSUME NEW r \in Runs, NEW k \in Records, NEW to \in RowStates,
             Proceeds(r, k, to) \/ Delivered(r, k, to)
      PROVE  rec' \in [Records -> Row] /\ items' \in [Records -> SUBSET Articles]
  <2>1. Moved(k, to) \in Row
    BY MovedRow
  <2>2. rec' \in [Records -> Row]
    BY <1>5, <2>1, ReplacedTyped DEF Proceeds, Delivered
  <2> QED
    BY <1>5, <2>2 DEF Proceeds, Delivered, TypeOK
<1> QED
  BY <1>1, <1>2, <1>3, <1>4, <1>5 DEF RecordsStep

\* The local state of a process.
ProcTyped ==
    /\ pc \in [Runs -> Places]
    /\ stage \in [Runs -> StageStates]
    /\ remote \in [Runs -> BOOLEAN]
    /\ todo \in [Runs -> SUBSET Records]
    /\ batch \in [Runs -> SUBSET Records]
    /\ at \in [Runs -> SUBSET Records]
    /\ held \in [Runs -> SUBSET Records]
    /\ cand \in [Runs -> SUBSET Articles]
    /\ promote \in [Runs -> SUBSET Articles]

LEMMA GotoTyped ==
    ASSUME ProcTyped, NEW r \in Runs, NEW to \in Places, Goto(r, to) PROVE ProcTyped'
BY DEF ProcTyped, Goto

LEMMA StoppedTyped ==
    ASSUME ProcTyped, NEW r \in Runs, Stopped(r) PROVE ProcTyped'
BY DEF ProcTyped, Stopped, Places, StageStates

LEMMA GiveUpTyped ==
    ASSUME ProcTyped, NEW r \in Runs, GiveUpStage(r) PROVE ProcTyped'
<1>1. CASE Stopped(r)
  BY <1>1, StoppedTyped
<1>2. CASE LeaveLocal(r, FALSE) /\ UNCHANGED <<remote, todo>>
  BY <1>2 DEF ProcTyped, LeaveLocal, Places, StageStates
<1> QED
  BY <1>1, <1>2 DEF GiveUpStage

LEMMA FinishedTyped ==
    ASSUME ProcTyped, NEW r \in Runs, NEW k \in Records, Finished(r, k) PROVE ProcTyped'
<1>1. CASE GiveUpStage(r)
  BY <1>1, GiveUpTyped
<1>2. CASE /\ held' = [held EXCEPT ![r] = @ \ {k}]
           /\ UNCHANGED <<pc, stage, remote, todo, batch, at, cand, promote>>
  BY <1>2 DEF ProcTyped
<1> QED
  BY <1>1, <1>2 DEF Finished

LEMMA EnterTyped ==
    ASSUME ProcTyped, NEW r \in Runs, NEW st \in StageStates, NEW K \in SUBSET Records,
           EnterStage(r, st, K)
    PROVE  /\ pc' \in [Runs -> Places] /\ stage' \in [Runs -> StageStates]
           /\ at' \in [Runs -> SUBSET Records] /\ held' \in [Runs -> SUBSET Records]
           /\ cand' \in [Runs -> SUBSET Articles] /\ promote' \in [Runs -> SUBSET Articles]
BY DEF ProcTyped, EnterStage, Places

\* Candidates are articles.
LEMMA CandidatesTyped ==
    ASSUME NEW k \in Records
    PROVE  AiCandidates(k[1]) \subseteq Articles /\ OffCandidates(k[1]) \subseteq Articles
<1>1. k[1] \in Categories
  BY DEF Records
<1> QED
  BY <1>1 DEF AiCandidates, OffCandidates, Articles

\* The steps of a stage keep the types of the process.
LEMMA ProcStage ==
    ASSUME ProcTyped, NEW r \in Runs, NEW k \in Records, StageStep(r, k) PROVE ProcTyped'
<1>1. CASE StageFails(r, k) \/ FreezeFails(r, k) \/ StoreLost(r, k) \/ PublishRemote(r, k)
           \/ PublishLost(r, k)
  <2>1. Finished(r, k)
    BY <1>1 DEF StageFails, FreezeFails, StoreLost, PublishRemote, PublishLost,
                ReleaseRetryable, ReleasePermanent, ReleaseLost
  <2> QED
    BY <2>1, FinishedTyped
<1>2. ASSUME NEW off \in AiOff, NEW S \in SUBSET Articles, LoadCandidates(r, k, off, S)
      PROVE  ProcTyped'
  BY <1>2 DEF LoadCandidates, ProcTyped, Places
<1>3. CASE ReleaseEmptySnapshot(r, k)
  BY <1>3, GiveUpTyped DEF ReleaseEmptySnapshot
<1>4. CASE FreezeSnapshot(r, k)
  <2>1. CASE GiveUpStage(r)
    BY <2>1, GiveUpTyped
  <2>2. CASE EnterStage(r, "snapshot_frozen", {k}) /\ UNCHANGED <<remote, todo, batch>>
    <3>1. "snapshot_frozen" \in StageStates /\ {k} \in SUBSET Records
      BY DEF StageStates
    <3> QED
      BY <2>2, <3>1, EnterTyped DEF ProcTyped
  <2> QED
    BY <1>4, <2>1, <2>2 DEF FreezeSnapshot
<1>5. CASE Render(r, k)
  <2>1. CASE GiveUpStage(r)
    BY <2>1, GiveUpTyped
  <2>2. CASE EnterStage(r, "rendered", {k}) /\ UNCHANGED <<remote, todo, batch>>
    <3>1. "rendered" \in StageStates /\ {k} \in SUBSET Records
      BY DEF StageStates
    <3> QED
      BY <2>2, <3>1, EnterTyped DEF ProcTyped
  <2> QED
    BY <1>5, <2>1, <2>2 DEF Render
<1>6. CASE WriteLocal(r, k)
  BY <1>6, GotoTyped DEF WriteLocal, Places
<1>7. CASE StoreLocal(r, k)
  <2>1. LeaveLocal(r, rec' # rec) /\ UNCHANGED <<remote, todo>>
    BY <1>7 DEF StoreLocal
  <2> QED
    BY <2>1 DEF LeaveLocal, ProcTyped, Places, StageStates
<1> QED
  BY <1>1, <1>2, <1>3, <1>4, <1>5, <1>6, <1>7 DEF StageStep

\* So do all others.
LEMMA ProcNext ==
    ASSUME ProcTyped, [Next]_vars PROVE ProcTyped'
<1>1. CASE UNCHANGED proc
  BY <1>1 DEF proc, ProcTyped
<1>2. ASSUME NEW a \in Articles, CreateAiTask(a) \/ BackfillInsert(a) \/ KeepResult(a)
      PROVE  ProcTyped'
  BY <1>1, <1>2 DEF CreateAiTask, BackfillInsert, KeepResult
<1>3. ASSUME NEW r \in Runs, NEW e \in Editions, NEW C \in SUBSET Categories,
             NEW b \in BOOLEAN, StartRun(r, e, C, b)
      PROVE  ProcTyped'
  <2>1. C \X {e} \in SUBSET Records
    BY DEF Records
  <2> QED
    BY <1>3, <2>1 DEF StartRun, ProcTyped, Places
<1>4. ASSUME NEW r \in Runs, RunStep(r) PROVE ProcTyped'
  <2>1. ASSUME NEW k \in Records, InitRecord(r, k) PROVE ProcTyped'
    <3>1. todo' \in [Runs -> SUBSET Records] /\ remote' = remote
      BY <2>1 DEF InitRecord, ProcTyped
    <3>2. CASE rec'[k].state \in StageStates \ {"stored_local"}
               /\ EnterStage(r, rec'[k].state, {k}) /\ UNCHANGED batch
      <4>1. {k} \in SUBSET Records
        OBVIOUS
      <4> QED
        BY <3>1, <3>2, <4>1, EnterTyped DEF ProcTyped
    <3>3. CASE /\ batch' = IF remote[r] THEN [batch EXCEPT ![r] = @ \cup {k}] ELSE batch
               /\ UNCHANGED <<pc, stage, at, held, cand, promote>>
      BY <3>1, <3>3 DEF ProcTyped
    <3>4. CASE UNCHANGED <<pc, stage, batch, at, held, cand, promote>>
      BY <3>1, <3>4 DEF ProcTyped
    <3> QED
      BY <2>1, <3>2, <3>3, <3>4 DEF InitRecord
  <2>2. ASSUME NEW k \in Records, InitFails(r, k) PROVE ProcTyped'
    BY <2>2 DEF InitFails, ProcTyped
  <2>3. CASE RemoteStage(r)
    <3>1. "stored_local" \in StageStates /\ batch[r] \in SUBSET Records
      BY DEF StageStates, ProcTyped
    <3>2. EnterStage(r, "stored_local", batch[r]) /\ batch' = [batch EXCEPT ![r] = {}]
          /\ UNCHANGED <<remote, todo>>
      BY <2>3 DEF RemoteStage
    <3> QED
      BY <3>1, <3>2, EnterTyped DEF ProcTyped
  <2>4. CASE EndRun(r)
    BY <2>4, StoppedTyped DEF EndRun
  <2>5. CASE Maintain(r)
    <3>1. Goto(r, "sweep") \/ Goto(r, "claim")
      BY <2>5 DEF Maintain, ReclaimLeases, SweepLeases, MaintenanceFails
    <3> QED
      BY <3>1, GotoTyped DEF Places
  <2>6. ASSUME NEW S \in SUBSET Records, ClaimByIds(r, S) PROVE ProcTyped'
    BY <2>6 DEF ClaimByIds, ProcTyped, Places
  <2>7. CASE NothingClaimed(r)
    BY <2>7, GiveUpTyped DEF NothingClaimed
  <2>8. ASSUME NEW k \in Records, StageStep(r, k) PROVE ProcTyped'
    BY <2>8, ProcStage
  <2>9. ASSUME NEW made \in BOOLEAN, NEW reported \in BOOLEAN, Push(r, made, reported)
        PROVE  ProcTyped'
    BY <2>9, GotoTyped DEF Push, Places
  <2> QED
    BY <1>4, <2>1, <2>2, <2>3, <2>4, <2>5, <2>6, <2>7, <2>8, <2>9 DEF RunStep
<1>5. ASSUME NEW r \in Runs, Crash(r) PROVE ProcTyped'
  BY <1>5, StoppedTyped DEF Crash
<1>6. ASSUME NEW k \in Records, LeaseExpires(k) PROVE ProcTyped'
  BY <1>1, <1>6 DEF LeaseExpires
<1>7. CASE UNCHANGED vars
  BY <1>1, <1>7 DEF vars
<1> QED
  BY <1>2, <1>3, <1>4, <1>5, <1>6, <1>7 DEF Next

\* The articles and what the targets have.
OutsideTyped ==
    /\ art \in [Articles -> {"persisted", "ai_pending", "ready_for_publish", "published"}]
    /\ ai \in [Articles -> {"none", "task", "kept"}]
    /\ stored \subseteq Records /\ pushed \subseteq Records

\* They keep their types, and the targets forget nothing.
LEMMA OutsideStage ==
    ASSUME TypeOK, OutsideTyped, NEW r \in Runs, NEW k \in Records, StageStep(r, k)
    PROVE  OutsideTyped' /\ stored \subseteq stored' /\ pushed \subseteq pushed'
<1>1. CASE UNCHANGED <<art, ai, stored, pushed>>
  BY <1>1 DEF OutsideTyped
<1>2. CASE \/ StageFails(r, k) \/ FreezeFails(r, k) \/ StoreLost(r, k) \/ PublishLost(r, k)
           \/ Render(r, k) \/ ReleaseEmptySnapshot(r, k)
           \/ \E off \in AiOff, S \in SUBSET Articles : LoadCandidates(r, k, off, S)
  BY <1>1, <1>2 DEF StageFails, FreezeFails, StoreLost, PublishLost, ReleaseRetryable,
     ReleasePermanent, ReleaseLost, Render, ReleaseEmptySnapshot, LoadCandidates, db, targets
<1>3. CASE FreezeSnapshot(r, k)
  BY <1>3 DEF FreezeSnapshot, OutsideTyped, db, targets
<1>4. CASE WriteLocal(r, k)
  BY <1>4 DEF WriteLocal, OutsideTyped, db
<1>5. CASE StoreLocal(r, k) \/ PublishRemote(r, k)
  <2>1. UNCHANGED <<ai, stored, pushed>>
    BY <1>5 DEF StoreLocal, PublishRemote, targets
  <2>2. art' = art \/ art' = [a \in Articles |-> IF a \in items[k] THEN "published" ELSE art[a]]
    BY <1>5 DEF StoreLocal, PublishRemote, TerminalAdvance
  <2> QED
    BY <2>1, <2>2 DEF OutsideTyped
<1> QED
  BY <1>2, <1>3, <1>4, <1>5 DEF StageStep

LEMMA OutsideNext ==
    ASSUME TypeOK, OutsideTyped, [Next]_vars
    PROVE  OutsideTyped' /\ stored \subseteq stored' /\ pushed \subseteq pushed'
<1> DEFINE Goal == OutsideTyped' /\ stored \subseteq stored' /\ pushed \subseteq pushed'
<1>1. CASE UNCHANGED <<art, ai, stored, pushed>>
  BY <1>1 DEF OutsideTyped
<1>2. ASSUME NEW a \in Articles, CreateAiTask(a) \/ BackfillInsert(a) \/ KeepResult(a)
      PROVE  Goal
  BY <1>2 DEF CreateAiTask, BackfillInsert, KeepResult, OutsideTyped, targets
<1>3. ASSUME NEW r \in Runs, NEW e \in Editions, NEW C \in SUBSET Categories,
             NEW b \in BOOLEAN, StartRun(r, e, C, b)
      PROVE  Goal
  BY <1>1, <1>3 DEF StartRun, db, targets
<1>4. ASSUME NEW r \in Runs, RunStep(r) PROVE Goal
  <2>1. CASE \/ \E k \in Records : InitRecord(r, k) \/ InitFails(r, k)
             \/ RemoteStage(r) \/ EndRun(r) \/ Maintain(r) \/ NothingClaimed(r)
             \/ \E S \in SUBSET Records : ClaimByIds(r, S)
    BY <1>1, <2>1 DEF InitRecord, InitFails, RemoteStage, EndRun, Maintain, ReclaimLeases,
       SweepLeases, MaintenanceFails, NothingClaimed, ClaimByIds, db, targets
  <2>2. ASSUME NEW k \in Records, StageStep(r, k) PROVE Goal
    BY <2>2, OutsideStage
  <2>3. ASSUME NEW made \in BOOLEAN, NEW reported \in BOOLEAN, Push(r, made, reported)
        PROVE  Goal
    <3>1. held[r] \subseteq Records
      BY DEF TypeOK
    <3> QED
      BY <2>3, <3>1 DEF Push, OutsideTyped, db
  <2> QED
    BY <1>4, <2>1, <2>2, <2>3 DEF RunStep
<1>5. ASSUME NEW r \in Runs, Crash(r) PROVE Goal
  BY <1>1, <1>5 DEF Crash, db, targets
<1>6. ASSUME NEW k \in Records, LeaseExpires(k) PROVE Goal
  BY <1>1, <1>6 DEF LeaseExpires, targets
<1>7. CASE UNCHANGED vars
  BY <1>1, <1>7 DEF vars, db, targets
<1> QED
  BY <1>2, <1>3, <1>4, <1>5, <1>6, <1>7 DEF Next

\* The type invariant in three parts.
LEMMA TypeParts ==
    TypeOK <=> /\ rec \in [Records -> Row] /\ items \in [Records -> SUBSET Articles]
               /\ OutsideTyped /\ ProcTyped
BY DEF TypeOK, OutsideTyped, ProcTyped

LEMMA TypePartsNext ==
    TypeOK' <=> /\ rec' \in [Records -> Row] /\ items' \in [Records -> SUBSET Articles]
                /\ OutsideTyped' /\ ProcTyped'
BY DEF TypeOK, OutsideTyped, ProcTyped

\* RecordCoherent of one record.
RowCoherent(k) ==
    /\ (rec[k].owner # NoRun) <=> (rec[k].lease # "none")
    /\ rec[k].lease # "none" => rec[k].state \in StageStates /\ rec[k].attempts > 0
    /\ rec[k].state \in {"absent", "pending"} => items[k] = {}
    /\ rec[k].state \in {"snapshot_frozen", "rendered", "stored_local"} \cup Published
          => items[k] # {}
    /\ rec[k].state \in {"stored_local", "published_remote"} => rec[k].remote
    /\ rec[k].state = "published_local" => ~rec[k].remote

\* A record and its items that stay the same.
LEMMA SameCoherent ==
    ASSUME RecordCoherent, NEW k \in Records, rec'[k] = rec[k], items'[k] = items[k]
    PROVE  RowCoherent(k)'
BY DEF RecordCoherent, RowCoherent

\* Coherence of records is inductive.
LEMMA CoherentStep ==
    ASSUME TypeOK, RecordCoherent, RecordsStep PROVE RecordCoherent'
<1> SUFFICES ASSUME NEW j \in Records PROVE RowCoherent(j)'
  BY DEF RecordCoherent, RowCoherent
<1>1. CASE Quiet
  BY <1>1 DEF Quiet, KeepsStage, RecordCoherent, RowCoherent
<1>2. ASSUME NEW k \in Records, Created(k) PROVE RowCoherent(j)'
  <2>1. PICK b \in BOOLEAN : rec' = [rec EXCEPT ![k] = Unleased("pending", 0, b)]
    BY <1>2 DEF Created
  <2>2. rec'[k] = Unleased("pending", 0, b) /\ \A i \in Records \ {k} : rec'[i] = rec[i]
    BY <2>1, RowReplaced
  <2>3. items' = items /\ items[k] = {}
    BY <1>2 DEF Created, RecordCoherent
  <2>4. RowCoherent(k)'
    BY <2>2, <2>3, PendingRow DEF RowCoherent, Published
  <2> QED
    BY <2>2, <2>3, <2>4, SameCoherent
<1>3. ASSUME NEW S \in SUBSET Records, Lost(S) PROVE RowCoherent(j)'
  <2>1. CASE j \in S
    <3>1. rec'[j] = Moved(j, "failed") /\ "failed" \in RowStates
      BY <1>3, <2>1 DEF Lost, RowStates, Terminal
    <3> QED
      BY <3>1, MovedRow DEF RowCoherent, Published
  <2>2. CASE j \notin S
    BY <1>3, <2>2, SameCoherent DEF Lost
  <2> QED
    BY <2>1, <2>2
<1>4. ASSUME NEW r \in Runs, NEW k \in Records, Froze(r, k) PROVE RowCoherent(j)'
  <2>1. /\ rec'[k] = Moved(k, "snapshot_frozen")
        /\ \A i \in Records \ {k} : rec'[i] = rec[i]
    BY <1>4, RowReplaced DEF Froze
  <2>2. items'[k] # {} /\ \A i \in Records \ {k} : items'[i] = items[i]
    BY <1>4 DEF Froze, TypeOK
  <2>3. RowCoherent(k)'
    BY <2>1, <2>2, MovedRow DEF RowCoherent, Published, RowStates, StageStates
  <2> QED
    BY <2>1, <2>2, <2>3, SameCoherent
<1>5. ASSUME NEW r \in Runs, NEW k \in Records, NEW to \in RowStates,
             Proceeds(r, k, to) \/ Delivered(r, k, to)
      PROVE  RowCoherent(j)'
  <2>1. /\ rec'[k] = Moved(k, to) /\ \A i \in Records \ {k} : rec'[i] = rec[i]
        /\ items' = items
    BY <1>5, RowReplaced DEF Proceeds, Delivered
  <2>2. /\ items[k] # {} /\ to \in {"rendered", "stored_local"} \cup Published
        /\ to \in {"stored_local", "published_remote"} => rec[k].remote
        /\ to = "published_local" => ~rec[k].remote
    BY <1>5 DEF Proceeds, Delivered, RecordCoherent, Published
  <2>3. RowCoherent(k)'
    BY <2>1, <2>2, MovedRow DEF RowCoherent, Published
  <2> QED
    BY <2>1, <2>3, SameCoherent
<1> QED
  BY <1>1, <1>2, <1>3, <1>4, <1>5 DEF RecordsStep

\* At the start no record exists.
LEMMA AbsentRow ==
    /\ Absent \in Row /\ Absent.state = "absent" /\ Absent.owner = NoRun
    /\ Absent.lease = "none" /\ Absent.attempts = 0
<1>1. "absent" \in RowStates /\ 0 \in 0..MaxAttempts /\ FALSE \in BOOLEAN
  BY PublishAssumption DEF RowStates
<1>2. Unleased("absent", 0, FALSE) \in Row
  BY <1>1, UnleasedTyped
<1> QED
  BY <1>1, <1>2, UnleasedFields DEF Absent

LEMMA TypedCoherent == Spec => [](TypeOK /\ RecordCoherent)
<1>1. Init => TypeOK /\ RecordCoherent
  <2> SUFFICES ASSUME Init PROVE TypeOK /\ RecordCoherent
    OBVIOUS
  <2>1. TypeOK
    BY AbsentRow DEF Init, TypeOK, Places, StageStates
  <2>2. RecordCoherent
    BY AbsentRow DEF Init, RecordCoherent, Published
  <2> QED
    BY <2>1, <2>2
<1>2. TypeOK /\ RecordCoherent /\ [Next]_vars => TypeOK' /\ RecordCoherent'
  BY TypeParts, TypePartsNext, EveryStep, RecordsTyped, OutsideNext, ProcNext, CoherentStep
<1> QED
  BY <1>1, <1>2, PTL DEF Spec

\* Every variable keeps its type, and no record is claimed more often than the
\* budget of its four stages allows.
THEOREM PublishTyped == Spec => []TypeOK
BY TypedCoherent, PTL

\* Lease, attempts, items and remote target of every record agree with its state.
THEOREM PublishRecordCoherent == Spec => []RecordCoherent
BY TypedCoherent, PTL

-----------------------------------------------------------------------------
(* What follows from the records' steps.                                   *)

\* A record moves forward only in its owner's hands, at the stage of its state.
THEOREM PublishAdvancedByOwner == Spec => AdvancedByOwner
<1> DEFINE InHands(k) == \E r \in Runs : /\ rec[k].owner = r /\ k \in held[r]
                                         /\ stage[r] = rec[k].state
                                         /\ pc[r] \in {"work", "release"}
           A == \A k \in Records :
                  /\ rec[k].state # "absent"
                  /\ rec'[k].state \notin {rec[k].state, "failed"}
                  => InHands(k)
<1>1. TypeOK /\ RecordCoherent /\ [Next]_vars => [A]_vars
  <2> SUFFICES ASSUME TypeOK, RecordsStep, NEW j \in Records, rec[j].state # "absent",
                      rec'[j].state \notin {rec[j].state, "failed"}
               PROVE  InHands(j)
    BY EveryStep
  <2>1. ~Quiet
    BY DEF Quiet, KeepsStage
  <2>2. ASSUME NEW k \in Records, Created(k) PROVE FALSE
    BY <2>2, RowReplaced DEF Created
  <2>3. ASSUME NEW S \in SUBSET Records, Lost(S) PROVE FALSE
    <3>1. Moved(j, "failed").state = "failed"
      BY MovedRow DEF RowStates, Terminal
    <3> QED
      BY <2>3, <3>1 DEF Lost
  <2>4. ASSUME NEW r \in Runs, NEW k \in Records, NEW to \in RowStates,
               Froze(r, k) \/ Proceeds(r, k, to) \/ Delivered(r, k, to)
        PROVE  InHands(j)
    <3>1. Hands(r, k) /\ \A i \in Records \ {k} : rec'[i] = rec[i]
      BY <2>4, RowReplaced DEF Froze, Proceeds, Delivered
    <3>2. j = k
      BY <3>1
    <3> QED
      BY <3>1, <3>2 DEF Hands, Owns
  <2>5. "pending" \in RowStates
    BY DEF RowStates, StageStates
  <2> QED
    BY <2>1, <2>2, <2>3, <2>4, <2>5 DEF RecordsStep
<1> QED
  BY <1>1, TypedCoherent, PTL DEF Spec, AdvancedByOwner

\* PublishedOnce of the set of articles that have gone out.
OutJustified ==
    /\ \A a \in Articles : a \in Out <=> \E k \in Records : rec[k].state \in Published /\ a \in items[k]
    /\ \A k, j \in Records :
          rec[k].state \in Published /\ rec[j].state \in Published /\ k # j
            => items[k] \cap items[j] = {}

LEMMA OnceIsJustified == PublishedOnce <=> OutJustified
BY DEF PublishedOnce, OutJustified, Out

\* It survives a step that publishes nothing and touches no published record.
LEMMA OnceKept ==
    ASSUME TypeOK, OutJustified, Out' = Out,
           \A k \in Records : (rec'[k].state \in Published) <=> (rec[k].state \in Published),
           \A k \in Records : rec[k].state \in Published => items'[k] = items[k]
    PROVE  OutJustified'
<1>1. ASSUME NEW a \in Articles
      PROVE  a \in Out' <=> \E k \in Records : rec'[k].state \in Published /\ a \in items'[k]
  BY DEF OutJustified
<1>2. ASSUME NEW k \in Records, NEW j \in Records, rec'[k].state \in Published,
             rec'[j].state \in Published, k # j
      PROVE  items'[k] \cap items'[j] = {}
  BY <1>2 DEF OutJustified
<1> QED
  BY <1>1, <1>2 DEF OutJustified

\* And one that publishes a record none of whose articles had gone out.
LEMMA OnceStep ==
    ASSUME TypeOK, RecordCoherent, OutJustified, RecordsStep PROVE OutJustified'
<1>1. CASE Quiet
  BY <1>1, OnceKept DEF Quiet, KeepsStage
<1>2. ASSUME NEW k \in Records, Created(k) PROVE OutJustified'
  <2>1. PICK b \in BOOLEAN : rec' = [rec EXCEPT ![k] = Unleased("pending", 0, b)]
    BY <1>2 DEF Created
  <2>2. rec'[k] = Unleased("pending", 0, b) /\ \A i \in Records \ {k} : rec'[i] = rec[i]
    BY <2>1, RowReplaced
  <2>3. rec'[k].state = "pending"
    BY <2>2, PendingRow
  <2> QED
    BY <1>2, <2>2, <2>3, OnceKept DEF Created, Published
<1>3. ASSUME NEW S \in SUBSET Records, Lost(S) PROVE OutJustified'
  <2>1. \A k \in Records : Moved(k, "failed").state = "failed"
    BY MovedRow DEF RowStates, Terminal
  <2>2. \A k \in Records : (rec'[k].state \in Published) <=> (rec[k].state \in Published)
    BY <1>3, <2>1 DEF Lost, Published, StageStates
  <2> QED
    BY <1>3, <2>2, OnceKept DEF Lost
<1>4. ASSUME NEW r \in Runs, NEW k \in Records, Froze(r, k) PROVE OutJustified'
  <2>1. /\ rec'[k].state = "snapshot_frozen" /\ rec[k].state = "pending"
        /\ \A i \in Records \ {k} : rec'[i] = rec[i] /\ items'[i] = items[i]
    BY <1>4, RowReplaced, MovedRow DEF Froze, RowStates, StageStates, TypeOK
  <2> QED
    BY <1>4, <2>1, OnceKept DEF Froze, Published
<1>5. ASSUME NEW r \in Runs, NEW k \in Records, NEW to \in RowStates, Proceeds(r, k, to)
      PROVE  OutJustified'
  <2>1. /\ rec'[k].state = to /\ to \notin Published /\ rec[k].state \notin Published
        /\ \A i \in Records \ {k} : rec'[i] = rec[i]
    BY <1>5, RowReplaced, MovedRow DEF Proceeds, Published
  <2> QED
    BY <1>5, <2>1, OnceKept DEF Proceeds
<1>6. ASSUME NEW r \in Runs, NEW k \in Records, NEW to \in RowStates, Delivered(r, k, to)
      PROVE  OutJustified'
  <2>1. /\ rec'[k].state \in Published /\ rec[k].state \notin Published
        /\ \A i \in Records \ {k} : rec'[i] = rec[i]
    BY <1>6, RowReplaced, MovedRow DEF Delivered, Published
  <2>2. /\ items' = items /\ items[k] \cap Out = {} /\ items[k] \subseteq Articles
        /\ Out' = Out \cup items[k]
    BY <1>6 DEF Delivered, TypeOK
  <2>3. \A i \in Records : rec[i].state \in Published => items[i] \cap items[k] = {}
    <3> SUFFICES ASSUME NEW i \in Records, rec[i].state \in Published, NEW a \in items[i] \cap items[k]
                 PROVE  FALSE
      OBVIOUS
    <3>1. a \in Articles /\ a \in Out
      BY <2>2 DEF OutJustified
    <3> QED
      BY <2>2, <3>1
  <2>4. ASSUME NEW a \in Articles
        PROVE  a \in Out' <=> \E i \in Records : rec'[i].state \in Published /\ a \in items'[i]
    BY <2>1, <2>2 DEF OutJustified
  <2>5. ASSUME NEW i \in Records, NEW j \in Records, rec'[i].state \in Published,
               rec'[j].state \in Published, i # j
        PROVE  items'[i] \cap items'[j] = {}
    BY <2>1, <2>2, <2>3, <2>5 DEF OutJustified
  <2> QED
    BY <2>4, <2>5 DEF OutJustified
<1> QED
  BY <1>1, <1>2, <1>3, <1>4, <1>5, <1>6 DEF RecordsStep

\* An article is published exactly with one record, however many have frozen it.
THEOREM PublishPublishedOnce == Spec => []PublishedOnce
<1>1. Init => OutJustified
  <2> SUFFICES ASSUME Init PROVE OutJustified
    OBVIOUS
  <2>1. Out = {} /\ \A k \in Records : rec[k].state \notin Published
    BY AbsentRow DEF Init, Out, Published
  <2> QED
    BY <2>1 DEF OutJustified
<1>2. TypeOK /\ RecordCoherent /\ OutJustified /\ [Next]_vars => OutJustified'
  BY EveryStep, OnceStep
<1>3. Spec => []OutJustified
  BY <1>1, <1>2, TypedCoherent, PTL DEF Spec
<1> QED
  BY <1>3, OnceIsJustified, PTL

-----------------------------------------------------------------------------
(* The targets.                                                            *)

\* A process about to release has done what the release says.
HandsFull ==
    \A r \in Runs :
        pc[r] = "release" => /\ stage[r] = "rendered" => held[r] \subseteq stored
                             /\ stage[r] = "stored_local" => held[r] \subseteq pushed

\* What a step does to the hands of a process.
HandStep(r) ==
    \/ pc'[r] # "release"
    \/ stage'[r] = "pending"
    \/ pc'[r] = pc[r] /\ stage'[r] = stage[r] /\ held'[r] \subseteq held[r]
    \/ stage'[r] = "rendered" /\ held'[r] \subseteq stored'
    \/ stage'[r] = "stored_local" /\ held'[r] \subseteq pushed'

\* Process q is not touched.
Rests(q) == pc'[q] = pc[q] /\ stage'[q] = stage[q] /\ held'[q] = held[q]

\* A step of r that leaves it elsewhere.
LeavesHands(r) ==
    /\ pc'[r] # "release"
    /\ \A q \in Runs \ {r} : Rests(q)

LEMMA StoppedLeaves ==
    ASSUME ProcTyped, NEW r \in Runs, Stopped(r) PROVE LeavesHands(r)
BY DEF ProcTyped, Stopped, LeavesHands, Rests

LEMMA GiveUpLeaves ==
    ASSUME ProcTyped, NEW r \in Runs, GiveUpStage(r) PROVE LeavesHands(r)
BY StoppedLeaves DEF ProcTyped, GiveUpStage, LeaveLocal, LeavesHands, Rests

LEMMA EnterLeaves ==
    ASSUME ProcTyped, NEW r \in Runs, NEW st, NEW K, EnterStage(r, st, K) PROVE LeavesHands(r)
BY DEF ProcTyped, EnterStage, LeavesHands, Rests

LEMMA FinishedHands ==
    ASSUME ProcTyped, NEW r \in Runs, NEW k \in Records, Finished(r, k), NEW q \in Runs
    PROVE  HandStep(q)
<1>1. CASE GiveUpStage(r)
  BY <1>1, GiveUpLeaves DEF LeavesHands, Rests, HandStep
<1>2. CASE /\ held' = [held EXCEPT ![r] = @ \ {k}]
           /\ UNCHANGED <<pc, stage, remote, todo, batch, at, cand, promote>>
  BY <1>2 DEF ProcTyped, HandStep
<1> QED
  BY <1>1, <1>2 DEF Finished

LEMMA StageHands ==
    ASSUME ProcTyped, NEW r \in Runs, NEW k \in Records, StageStep(r, k), NEW q \in Runs
    PROVE  HandStep(q)
<1>1. CASE StageFails(r, k) \/ FreezeFails(r, k) \/ StoreLost(r, k) \/ PublishRemote(r, k)
           \/ PublishLost(r, k)
  <2>1. Finished(r, k)
    BY <1>1 DEF StageFails, FreezeFails, StoreLost, PublishRemote, PublishLost,
                ReleaseRetryable, ReleasePermanent, ReleaseLost
  <2> QED
    BY <2>1, FinishedHands
<1>2. ASSUME NEW off \in AiOff, NEW S \in SUBSET Articles, LoadCandidates(r, k, off, S)
      PROVE  HandStep(q)
  BY <1>2 DEF LoadCandidates, ProcTyped, HandStep
<1>3. CASE ReleaseEmptySnapshot(r, k) \/ FreezeSnapshot(r, k) \/ Render(r, k)
  <2>1. \/ GiveUpStage(r) \/ EnterStage(r, "snapshot_frozen", {k})
        \/ EnterStage(r, "rendered", {k})
    BY <1>3 DEF ReleaseEmptySnapshot, FreezeSnapshot, Render
  <2> QED
    BY <2>1, GiveUpLeaves, EnterLeaves DEF LeavesHands, Rests, HandStep
<1>4. CASE WriteLocal(r, k)
  BY <1>4 DEF WriteLocal, Goto, ProcTyped, HandStep
<1>5. CASE StoreLocal(r, k)
  BY <1>5 DEF StoreLocal, LeaveLocal, ProcTyped, HandStep
<1> QED
  BY <1>1, <1>2, <1>3, <1>4, <1>5 DEF StageStep

LEMMA EveryHand ==
    ASSUME ProcTyped, [Next]_vars, NEW q \in Runs PROVE HandStep(q)
<1>1. CASE UNCHANGED proc
  BY <1>1 DEF proc, HandStep
<1>2. ASSUME NEW a \in Articles, CreateAiTask(a) \/ BackfillInsert(a) \/ KeepResult(a)
      PROVE  HandStep(q)
  BY <1>1, <1>2 DEF CreateAiTask, BackfillInsert, KeepResult
<1>3. ASSUME NEW r \in Runs, NEW e \in Editions, NEW C \in SUBSET Categories,
             NEW b \in BOOLEAN, StartRun(r, e, C, b)
      PROVE  HandStep(q)
  BY <1>3 DEF StartRun, ProcTyped, HandStep
<1>4. ASSUME NEW r \in Runs, RunStep(r) PROVE HandStep(q)
  <2>1. ASSUME NEW k \in Records, InitRecord(r, k) PROVE HandStep(q)
    <3>1. EnterStage(r, rec'[k].state, {k}) \/ UNCHANGED <<pc, stage, held>>
      BY <2>1 DEF InitRecord
    <3> QED
      BY <3>1, EnterLeaves DEF LeavesHands, Rests, HandStep
  <2>2. ASSUME NEW k \in Records, InitFails(r, k) PROVE HandStep(q)
    BY <2>2 DEF InitFails, HandStep
  <2>3. CASE RemoteStage(r)
    BY <2>3, EnterLeaves DEF RemoteStage, LeavesHands, Rests, HandStep
  <2>4. CASE EndRun(r)
    BY <2>4, StoppedLeaves DEF EndRun, LeavesHands, Rests, HandStep
  <2>5. CASE Maintain(r)
    <3>1. Goto(r, "sweep") \/ Goto(r, "claim")
      BY <2>5 DEF Maintain, ReclaimLeases, SweepLeases, MaintenanceFails
    <3> QED
      BY <3>1 DEF Goto, ProcTyped, HandStep
  <2>6. ASSUME NEW S \in SUBSET Records, ClaimByIds(r, S) PROVE HandStep(q)
    BY <2>6 DEF ClaimByIds, ProcTyped, HandStep
  <2>7. CASE NothingClaimed(r)
    BY <2>7, GiveUpLeaves DEF NothingClaimed, LeavesHands, Rests, HandStep
  <2>8. ASSUME NEW k \in Records, StageStep(r, k) PROVE HandStep(q)
    BY <2>8, StageHands
  <2>9. ASSUME NEW made \in BOOLEAN, NEW reported \in BOOLEAN, Push(r, made, reported)
        PROVE  HandStep(q)
    BY <2>9 DEF Push, Goto, ProcTyped, HandStep
  <2> QED
    BY <1>4, <2>1, <2>2, <2>3, <2>4, <2>5, <2>6, <2>7, <2>8, <2>9 DEF RunStep
<1>5. ASSUME NEW r \in Runs, Crash(r) PROVE HandStep(q)
  BY <1>5, StoppedLeaves DEF Crash, LeavesHands, Rests, HandStep
<1>6. ASSUME NEW k \in Records, LeaseExpires(k) PROVE HandStep(q)
  BY <1>1, <1>6 DEF LeaseExpires
<1>7. CASE UNCHANGED vars
  BY <1>1, <1>7 DEF vars
<1> QED
  BY <1>2, <1>3, <1>4, <1>5, <1>6, <1>7 DEF Next

\* A record that a step leaves in its state.
DeliveredRow(k) ==
    /\ rec[k].state \in {"stored_local"} \cup Published => k \in stored
    /\ rec[k].state = "published_remote" => k \in pushed

LEMMA WasDeliveredStep ==
    ASSUME TypeOK, HandsFull, PublishedWasDelivered, RecordsStep,
           stored \subseteq stored', pushed \subseteq pushed'
    PROVE  PublishedWasDelivered'
<1> SUFFICES ASSUME NEW j \in Records PROVE DeliveredRow(j)'
  BY DEF PublishedWasDelivered, DeliveredRow
<1>1. CASE rec'[j].state = rec[j].state
  BY <1>1 DEF PublishedWasDelivered, DeliveredRow
<1>2. CASE Quiet
  BY <1>1, <1>2 DEF Quiet, KeepsStage
<1>3. ASSUME NEW k \in Records, Created(k) PROVE DeliveredRow(j)'
  <2>1. PICK b \in BOOLEAN : rec' = [rec EXCEPT ![k] = Unleased("pending", 0, b)]
    BY <1>3 DEF Created
  <2>2. rec'[k] = Unleased("pending", 0, b) /\ \A i \in Records \ {k} : rec'[i] = rec[i]
    BY <2>1, RowReplaced
  <2>3. rec'[k].state = "pending"
    BY <2>2, PendingRow
  <2> QED
    BY <1>1, <2>2, <2>3 DEF DeliveredRow, Published
<1>4. ASSUME NEW S \in SUBSET Records, Lost(S) PROVE DeliveredRow(j)'
  <2>1. Moved(j, "failed").state = "failed"
    BY MovedRow DEF RowStates, Terminal
  <2>2. rec'[j].state = "failed" \/ rec'[j].state = rec[j].state
    BY <1>4, <2>1 DEF Lost
  <2> QED
    BY <1>1, <2>2 DEF DeliveredRow, Published
<1>5. ASSUME NEW r \in Runs, NEW k \in Records, Froze(r, k) PROVE DeliveredRow(j)'
  <2>1. /\ rec'[k] = Moved(k, "snapshot_frozen")
        /\ \A i \in Records \ {k} : rec'[i] = rec[i]
    BY <1>5, RowReplaced DEF Froze
  <2>2. rec'[k].state = "snapshot_frozen"
    BY <2>1, MovedRow DEF RowStates, StageStates
  <2> QED
    BY <1>1, <2>1, <2>2 DEF DeliveredRow, Published
<1>6. ASSUME NEW r \in Runs, NEW k \in Records, NEW to \in RowStates,
             Proceeds(r, k, to) \/ Delivered(r, k, to)
      PROVE  DeliveredRow(j)'
  <2>1. /\ rec'[k].state = to /\ \A i \in Records \ {k} : rec'[i] = rec[i]
    BY <1>6, RowReplaced, MovedRow DEF Proceeds, Delivered
  <2>2. CASE rec[k].state = "snapshot_frozen"
    BY <1>1, <1>6, <2>1, <2>2 DEF Proceeds, Delivered, DeliveredRow, Published
  <2>3. CASE rec[k].state = "rendered"
    <3>1. k \in stored /\ to # "published_remote"
      BY <1>6, <2>3 DEF Proceeds, Delivered, Hands, HandsFull
    <3> QED
      BY <1>1, <2>1, <3>1 DEF DeliveredRow
  <2>4. CASE rec[k].state = "stored_local"
    <3>1. k \in stored /\ k \in pushed
      BY <1>6, <2>4 DEF Proceeds, Delivered, Hands, HandsFull, PublishedWasDelivered
    <3> QED
      BY <1>1, <2>1, <3>1 DEF DeliveredRow
  <2> QED
    BY <1>6, <2>2, <2>3, <2>4 DEF Proceeds, Delivered
<1> QED
  BY <1>2, <1>3, <1>4, <1>5, <1>6 DEF RecordsStep

\* What the database says is at a target is there.
THEOREM PublishWasDelivered == Spec => []PublishedWasDelivered
<1>1. Init => HandsFull /\ PublishedWasDelivered
  <2> SUFFICES ASSUME Init PROVE HandsFull /\ PublishedWasDelivered
    OBVIOUS
  <2>1. HandsFull
    BY DEF Init, HandsFull
  <2>2. PublishedWasDelivered
    BY AbsentRow DEF Init, PublishedWasDelivered, Published
  <2> QED
    BY <2>1, <2>2
<1>2. TypeOK /\ RecordCoherent /\ HandsFull /\ PublishedWasDelivered /\ [Next]_vars
        => HandsFull' /\ PublishedWasDelivered'
  <2> SUFFICES ASSUME TypeOK, RecordCoherent, HandsFull, PublishedWasDelivered, [Next]_vars
               PROVE  HandsFull' /\ PublishedWasDelivered'
    OBVIOUS
  <2>1. stored \subseteq stored' /\ pushed \subseteq pushed'
    BY OutsideNext, TypeParts
  <2>2. PublishedWasDelivered'
    BY <2>1, EveryStep, WasDeliveredStep
  <2>3. \A r \in Runs : HandStep(r)
    BY EveryHand, TypeParts
  <2>4. ASSUME NEW r \in Runs, pc'[r] = "release"
        PROVE  /\ stage'[r] = "rendered" => held'[r] \subseteq stored'
               /\ stage'[r] = "stored_local" => held'[r] \subseteq pushed'
    <3>1. CASE pc'[r] = pc[r] /\ stage'[r] = stage[r] /\ held'[r] \subseteq held[r]
      <4>1. /\ stage[r] = "rendered" => held[r] \subseteq stored
            /\ stage[r] = "stored_local" => held[r] \subseteq pushed
        BY <2>4, <3>1 DEF HandsFull
      <4> QED
        BY <2>1, <3>1, <4>1
    <3> QED
      BY <2>3, <2>4, <3>1 DEF HandStep
  <2>5. HandsFull'
    BY <2>4 DEF HandsFull
  <2> QED
    BY <2>2, <2>5
<1> QED
  BY <1>1, <1>2, TypedCoherent, PTL DEF Spec

-----------------------------------------------------------------------------
(* The delivery of immutable reports.                                      *)

Report == [k \in Records |-> Standing(k)]

\* Where a record stands, by its state.
LEMMA StandingOf ==
    ASSUME NEW k
    PROVE  /\ rec[k].state = "absent" => Standing(k) = "none"
           /\ rec[k].state = "pending" => Standing(k) = "open"
           /\ rec[k].state = "failed" => Standing(k) = "lost"
           /\ rec[k].state \in Published => Standing(k) = "delivered"
           /\ rec[k].state \in {"snapshot_frozen", "rendered", "stored_local"}
                => Standing(k) = "frozen"
BY DEF Standing, Published

LEMMA StandingNext ==
    ASSUME NEW k
    PROVE  /\ rec'[k].state = "absent" => Standing(k)' = "none"
           /\ rec'[k].state = "pending" => Standing(k)' = "open"
           /\ rec'[k].state = "failed" => Standing(k)' = "lost"
           /\ rec'[k].state \in Published => Standing(k)' = "delivered"
           /\ rec'[k].state \in {"snapshot_frozen", "rendered", "stored_local"}
                => Standing(k)' = "frozen"
BY DEF Standing, Published

\* A record that keeps its state stands where it stood.
LEMMA StandingSame ==
    ASSUME NEW k, rec'[k].state = rec[k].state PROVE Standing(k)' = Standing(k)
BY DEF Standing

\* One record stands elsewhere.
LEMMA ReportReplaced ==
    ASSUME NEW k \in Records, NEW st, Standing(k)' = st,
           \A j \in Records \ {k} : rec'[j] = rec[j]
    PROVE  Report' = [Report EXCEPT ![k] = st]
<1>1. \A j \in Records \ {k} : Standing(j)' = Standing(j)
  BY StandingSame
<1> QED
  BY <1>1 DEF Report

\* Leases, attempts and the stages of a frozen report are not visible.
LEMMA QuietHidden ==
    ASSUME Quiet PROVE UNCHANGED <<Report, items, Out>>
<1>1. \A k \in Records : Standing(k)' = Standing(k)
  BY StandingSame DEF Quiet, KeepsStage
<1> QED
  BY <1>1 DEF Report, Quiet

LEMMA CreatedOpens ==
    ASSUME TypeOK, NEW k \in Records, Created(k) PROVE Promise!Open(k)
<1>1. PICK b \in BOOLEAN : rec' = [rec EXCEPT ![k] = Unleased("pending", 0, b)]
  BY DEF Created
<1>2. rec'[k] = Unleased("pending", 0, b) /\ \A i \in Records \ {k} : rec'[i] = rec[i]
  BY <1>1, RowReplaced
<1>3. rec'[k].state = "pending"
  BY <1>2, PendingRow
<1>4. Standing(k) = "none" /\ Standing(k)' = "open"
  BY <1>3, StandingOf, StandingNext DEF Created
<1>5. Report' = [Report EXCEPT ![k] = "open"] /\ Report[k] = "none"
  BY <1>2, <1>4, ReportReplaced DEF Report
<1> QED
  BY <1>5 DEF Promise!Open, Created, Report, Out

LEMMA LostLoses ==
    ASSUME TypeOK, NEW S \in SUBSET Records, Lost(S) PROVE Promise!Lose(S)
<1>1. \A k \in S : Standing(k) \in {"open", "frozen"}
  BY StandingOf DEF Lost, StageStates
<1>2. ASSUME NEW k \in Records PROVE Standing(k)' = IF k \in S THEN "lost" ELSE Standing(k)
  <2>1. CASE k \in S
    <3>1. rec'[k] = Moved(k, "failed") /\ "failed" \in RowStates
      BY <2>1 DEF Lost, RowStates, Terminal
    <3>2. rec'[k].state = "failed"
      BY <3>1, MovedRow
    <3> QED
      BY <2>1, <3>2, StandingNext
  <2>2. CASE k \notin S
    <3>1. rec'[k] = rec[k]
      BY <2>2 DEF Lost
    <3> QED
      BY <2>2, <3>1, StandingSame
  <2> QED
    BY <2>1, <2>2
<1>3. Report' = [k \in Records |-> IF k \in S THEN "lost" ELSE Report[k]]
  BY <1>2 DEF Report
<1>4. \A k \in S : Report[k] \in {"open", "frozen"}
  BY <1>1 DEF Report
<1> QED
  BY <1>3, <1>4 DEF Promise!Lose, Lost, Report, Out

LEMMA FrozeFreezes ==
    ASSUME TypeOK, NEW r \in Runs, NEW k \in Records, Froze(r, k)
    PROVE  \E S \in SUBSET Articles : Promise!Freeze(k, S)
<1>1. rec'[k] = Moved(k, "snapshot_frozen") /\ \A i \in Records \ {k} : rec'[i] = rec[i]
  BY RowReplaced DEF Froze
<1>2. rec'[k].state = "snapshot_frozen"
  BY <1>1, MovedRow DEF RowStates, StageStates
<1>3. Standing(k) = "open" /\ Standing(k)' = "frozen"
  BY <1>2, StandingOf, StandingNext DEF Froze
<1>4. Report' = [Report EXCEPT ![k] = "frozen"] /\ Report[k] = "open"
  BY <1>1, <1>3, ReportReplaced DEF Report
<1>5. PICK S \in SUBSET Articles : S # {} /\ items' = [items EXCEPT ![k] = S]
  BY DEF Froze
<1>6. Promise!Freeze(k, S)
  BY <1>4, <1>5 DEF Promise!Freeze, Froze, Report, Out
<1> QED
  BY <1>6

LEMMA ProceedsHidden ==
    ASSUME TypeOK, NEW r \in Runs, NEW k \in Records, NEW to \in RowStates, Proceeds(r, k, to)
    PROVE  UNCHANGED <<Report, items, Out>>
<1>1. rec'[k] = Moved(k, to) /\ \A i \in Records \ {k} : rec'[i] = rec[i]
  BY RowReplaced DEF Proceeds
<1>2. rec'[k].state = to
  BY <1>1, MovedRow
<1>3. Standing(k) = "frozen" /\ Standing(k)' = "frozen"
  BY <1>2, StandingOf, StandingNext DEF Proceeds
<1>4. \A j \in Records : Standing(j)' = Standing(j)
  BY <1>1, <1>3, StandingSame
<1> QED
  BY <1>4 DEF Report, Proceeds

LEMMA DeliveredDelivers ==
    ASSUME TypeOK, NEW r \in Runs, NEW k \in Records, NEW to \in RowStates, Delivered(r, k, to)
    PROVE  Promise!Deliver(k)
<1>1. rec'[k] = Moved(k, to) /\ \A i \in Records \ {k} : rec'[i] = rec[i]
  BY RowReplaced DEF Delivered
<1>2. rec'[k].state = to /\ to \in Published
  BY <1>1, MovedRow DEF Delivered, Published
<1>3. Standing(k) = "frozen" /\ Standing(k)' = "delivered"
  BY <1>2, StandingOf, StandingNext DEF Delivered
<1>4. Report' = [Report EXCEPT ![k] = "delivered"] /\ Report[k] = "frozen"
  BY <1>1, <1>3, ReportReplaced DEF Report
<1>5. items' = items /\ items[k] \cap Out = {} /\ Out' = Out \cup items[k]
  BY DEF Delivered, TypeOK
<1> QED
  BY <1>4, <1>5 DEF Promise!Deliver, Report, Out

\* Every step of the publish stage is a step of the delivery or invisible to it:
\* a report is frozen once, its contents never change, and it goes out with all
\* its articles, none of which goes out again.
THEOREM PublishImplementsDelivery == Spec => ImplementsDelivery
<1>1. Init => Promise!Init
  <2> SUFFICES ASSUME Init PROVE Promise!Init
    OBVIOUS
  <2>1. \A k \in Records : Standing(k) = "none"
    BY AbsentRow, StandingOf DEF Init
  <2>2. Out = {}
    BY DEF Init, Out
  <2> QED
    BY <2>1, <2>2 DEF Init, Promise!Init, Out
<1>2. TypeOK /\ RecordCoherent /\ [Next]_vars => [Promise!Next]_(Promise!vars)
  <2> SUFFICES ASSUME TypeOK, RecordsStep PROVE Promise!Next \/ UNCHANGED Promise!vars
    BY EveryStep
  <2>1. ASSUME UNCHANGED <<Report, items, Out>> PROVE UNCHANGED Promise!vars
    BY <2>1 DEF Promise!vars, Report, Out
  <2>2. CASE Quiet
    BY <2>1, <2>2, QuietHidden
  <2>3. ASSUME NEW k \in Records, Created(k) PROVE Promise!Next
    BY <2>3, CreatedOpens DEF Promise!Next
  <2>4. ASSUME NEW S \in SUBSET Records, Lost(S) PROVE Promise!Next
    BY <2>4, LostLoses DEF Promise!Next
  <2>5. ASSUME NEW r \in Runs, NEW k \in Records, Froze(r, k) PROVE Promise!Next
    BY <2>5, FrozeFreezes DEF Promise!Next
  <2>6. ASSUME NEW r \in Runs, NEW k \in Records, NEW to \in RowStates, Proceeds(r, k, to)
        PROVE  UNCHANGED Promise!vars
    BY <2>1, <2>6, ProceedsHidden
  <2>7. ASSUME NEW r \in Runs, NEW k \in Records, NEW to \in RowStates, Delivered(r, k, to)
        PROVE  Promise!Next
    BY <2>7, DeliveredDelivers DEF Promise!Next
  <2> QED
    BY <2>2, <2>3, <2>4, <2>5, <2>6, <2>7 DEF RecordsStep
<1> QED
  BY <1>1, <1>2, TypedCoherent, PTL DEF Spec, ImplementsDelivery, Promise!Spec

=============================================================================
