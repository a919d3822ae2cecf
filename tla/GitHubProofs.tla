---------------------------- MODULE GitHubProofs ----------------------------
(***************************************************************************)
(* Proofs about the remote target, for any number of processes, reports,   *)
(* files and edits.                                                        *)
(***************************************************************************)
EXTENDS GitHub, SequenceTheorems, TLAPS

Marks == [n : Nat, by : Procs \cup {NoProc}]

Recs == [state : {"stored_local", "published_remote", "failed"}, owner : Procs \cup {NoProc},
         attempts : 0..MaxAttempts, commit : Marks]

Calls == [at : {"idle", "lookup", "put", "head", "ref", "settle"}, batch : SUBSET Reports,
          try : 0..MaxTries, base : Nat, files : Trees, resent : BOOLEAN,
          answer : {"none", "ok", "retry", "permanent", "contested"}, commit : Marks]

InCall == {"lookup", "put", "head", "ref"}

Typed ==
    /\ history \in Seq(Commits) /\ Tip >= 1 /\ unmade \subseteq Edits
    /\ rec \in [Reports -> Recs] /\ push \in [Procs -> Calls]

\* A call holds every record of its batch.
Held ==
    \A p \in Procs : push[p].at \in InCall => \A k \in push[p].batch : rec[k].owner = p

\* A branch update that is under way carries the files of the head it was built on.
BuiltOn(base, files) == base \in 1..Tip /\ files = history[base].files

Sound(q) ==
    /\ q.by \in Procs /\ q.batch \subseteq Reports /\ q.files \in Trees
    /\ q.kind \in {"put", "ref"} /\ (q.kind = "ref" => BuiltOn(q.base, q.files))

RequestsSound ==
    /\ \A q \in late : Sound(q)
    /\ \A p \in Procs : push[p].at = "ref" => BuiltOn(push[p].base, push[p].files)

\* Commit c has the report of k and is on the branch.
OnBranch(c, k) ==
    c.n \in 1..Tip /\ history[c.n].by = c.by /\ history[c.n].files[k] = "report"

\* So is every commit a call has been told of, or a record stores.
MarksTrue ==
    /\ \A k \in Reports : rec[k].state = "published_remote" => OnBranch(rec[k].commit, k)
    /\ \A p \in Procs : push[p].answer = "ok" =>
          \A k \in push[p].batch : OnBranch(push[p].commit, k)

IInv == Typed /\ Held /\ RequestsSound /\ MarksTrue

-----------------------------------------------------------------------------
\* What records and calls are made of.
LEMMA RecordTyped ==
    ASSUME NEW state \in {"stored_local", "published_remote", "failed"},
           NEW owner \in Procs \cup {NoProc}, NEW attempts \in 0..MaxAttempts, NEW c \in Marks
    PROVE  /\ Record(state, owner, attempts, c) \in Recs
           /\ Record(state, owner, attempts, c).state = state
           /\ Record(state, owner, attempts, c).owner = owner
           /\ Record(state, owner, attempts, c).commit = c
BY DEF Record, Recs

LEMMA MarkTyped ==
    /\ NoCommit \in Marks
    /\ \A n \in Nat, p \in Procs :
          [n |-> n, by |-> p] \in Marks /\ [n |-> n, by |-> p].n = n /\ [n |-> n, by |-> p].by = p
BY DEF NoCommit, Marks

LEMMA CallTyped ==
    ASSUME NEW at \in {"idle", "lookup", "put", "head", "ref", "settle"},
           NEW batch \in SUBSET Reports, NEW try \in 0..MaxTries, NEW base \in Nat,
           NEW files \in Trees, NEW resent \in BOOLEAN
    PROVE  /\ Call(at, batch, try, base, files, resent) \in Calls
           /\ Call(at, batch, try, base, files, resent).at = at
           /\ Call(at, batch, try, base, files, resent).batch = batch
           /\ Call(at, batch, try, base, files, resent).base = base
           /\ Call(at, batch, try, base, files, resent).files = files
           /\ Call(at, batch, try, base, files, resent).answer = "none"
BY MarkTyped DEF Call, Calls

LEMMA NoFilesTyped == NoFiles \in Trees
BY DEF NoFiles, Trees

LEMMA EndedTyped ==
    ASSUME NEW batch \in SUBSET Reports, NEW c \in Marks,
           NEW answer \in {"none", "ok", "retry", "permanent", "contested"}
    PROVE  /\ Ended(batch, answer, c) \in Calls
           /\ Ended(batch, answer, c).at = "settle" /\ Ended(batch, answer, c).batch = batch
           /\ Ended(batch, answer, c).answer = answer /\ Ended(batch, answer, c).commit = c
BY NoFilesTyped DEF Ended, Calls, MaxTries

LEMMA NoPushTyped ==
    NoPush \in Calls /\ NoPush.at = "idle" /\ NoPush.batch = {} /\ NoPush.answer = "none"
BY MarkTyped, NoFilesTyped DEF NoPush, Call, Calls, MaxTries

-----------------------------------------------------------------------------
\* The branch is as it was, or has one commit more.
Grown == history' = history \/ \E c \in Commits : history' = Append(history, c)

\* What the branch has had stays where it is.
LEMMA GrownKeeps ==
    ASSUME Typed, Grown
    PROVE  /\ history' \in Seq(Commits) /\ Tip \in Nat /\ Tip' \in Nat /\ Tip' >= Tip
           /\ \A i \in 1..Tip : history'[i] = history[i]
<1>1. CASE history' = history
  BY <1>1, LenProperties DEF Typed, Tip
<1>2. CASE \E c \in Commits : history' = Append(history, c)
  <2>1. PICK c \in Commits : history' = Append(history, c)
    BY <1>2
  <2> QED
    BY <2>1, AppendProperties, LenProperties DEF Typed, Tip
<1> QED
  BY <1>1, <1>2 DEF Grown

LEMMA MarkStays ==
    ASSUME Typed, Grown, NEW c, NEW k, OnBranch(c, k)
    PROVE  OnBranch(c, k)'
BY GrownKeeps DEF OnBranch

LEMMA BuiltOnStays ==
    ASSUME Typed, Grown, NEW base, NEW files, BuiltOn(base, files)
    PROVE  BuiltOn(base, files)'
BY GrownKeeps DEF BuiltOn

LEMMA SoundStays ==
    ASSUME Typed, Grown, NEW q, Sound(q)
    PROVE  Sound(q)'
BY BuiltOnStays DEF Sound

\* The files at the head, with reports over them, make a commit.
LEMMA FilesTyped ==
    ASSUME Typed
    PROVE  /\ Files \in Trees /\ Tip \in Nat \ {0} /\ history[Tip] \in Commits
           /\ \A p \in Procs, S \in SUBSET Reports, files \in Trees :
                 /\ WithReports(files, S) \in Trees
                 /\ [by |-> p, files |-> WithReports(files, S)] \in Commits
                 /\ \A k \in S : WithReports(files, S)[k] = "report"
<1>1. Tip \in Nat \ {0} /\ history[Tip] \in Commits
  BY LenProperties, ElementOfSeq DEF Typed, Tip
<1>2. Files \in Trees
  BY <1>1 DEF Files, Commits
<1>3. ASSUME NEW S \in SUBSET Reports, NEW files \in Trees
      PROVE  WithReports(files, S) \in Trees /\ \A k \in S : WithReports(files, S)[k] = "report"
  BY DEF WithReports, Trees, Paths
<1> QED
  BY <1>1, <1>2, <1>3 DEF Commits

\* The branch gets one commit that is q's reports over what is there, and q has
\* seen what it replaces.
Adds(q) ==
    /\ history' = Append(history, [by |-> q.by, files |-> WithReports(Files, q.batch)])
    /\ \A k \in q.batch : Files[k] = q.files[k]

\* A file is written by the contents API.
LEMMA PutAdds ==
    ASSUME Typed, NEW q, Sound(q), PutApplies(q), history' = PutApplied(q)
    PROVE  /\ Adds(q) /\ Grown /\ Tip' = Tip + 1
           /\ \A n \in Nat, k \in q.batch :
                 n = Tip + 1 => OnBranch([n |-> n, by |-> q.by], k)'
<1> DEFINE c == [by |-> q.by, files |-> WithReports(Files, q.batch)]
<1>1. c \in Commits /\ (\A k \in q.batch : c.files[k] = "report") /\ c.by = q.by
  <2>1. /\ WithReports(Files, q.batch) \in Trees
        /\ \A k \in q.batch : WithReports(Files, q.batch)[k] = "report"
    BY FilesTyped DEF Sound
  <2> QED
    BY <2>1 DEF Sound, Commits
<1>2. Adds(q) /\ history' = Append(history, c)
  BY DEF PutApplies, PutApplied, Adds
<1>3. Tip' = Tip + 1 /\ history'[Tip + 1] = c
  BY <1>1, <1>2, AppendProperties DEF Typed, Tip
<1>4. \A n \in Nat, k \in q.batch : n = Tip + 1 => OnBranch([n |-> n, by |-> q.by], k)'
  BY <1>1, <1>3, FilesTyped DEF OnBranch
<1> QED
  BY <1>1, <1>2, <1>3, <1>4 DEF Grown

\* The branch is moved to a commit of the git data API.
LEMMA RefAdds ==
    ASSUME Typed, NEW q, Sound(q), q.kind = "ref", FastForward(q), history' = RefApplied(q)
    PROVE  /\ history' = history \/ Adds(q)
           /\ Grown
           /\ \A k \in q.batch : OnBranch([n |-> q.base + 1, by |-> q.by], k)'
<1> DEFINE c == Commit(q)
<1>1. /\ c \in Commits /\ (\A k \in q.batch : c.files[k] = "report") /\ c.by = q.by
      /\ c.files = WithReports(q.files, q.batch)
  <2>1. /\ WithReports(q.files, q.batch) \in Trees
        /\ \A k \in q.batch : WithReports(q.files, q.batch)[k] = "report"
    BY FilesTyped DEF Sound
  <2> QED
    BY <2>1 DEF Sound, Commit, Commits
<1>2. q.base \in 1..Tip /\ q.files = history[q.base].files /\ Tip \in Nat
  BY FilesTyped DEF Sound, BuiltOn
<1>3. CASE Tip = q.base
  <2>1. history' = Append(history, c)
    BY <1>3, SubSeqFull DEF RefApplied, Typed, Tip
  <2>2. Adds(q)
    BY <1>1, <1>2, <1>3, <2>1 DEF Adds, Commit, Files
  <2>3. Tip' = Tip + 1 /\ history'[Tip + 1] = c
    BY <1>1, <2>1, AppendProperties DEF Typed, Tip
  <2>4. \A k \in q.batch : OnBranch([n |-> q.base + 1, by |-> q.by], k)'
    BY <1>1, <1>2, <1>3, <2>3 DEF OnBranch
  <2> QED
    BY <1>1, <2>1, <2>2, <2>4 DEF Grown
<1>4. CASE Tip = q.base + 1 /\ history[Tip] = c
  <2> DEFINE h == SubSeq(history, 1, q.base)
  <2>1. h \in Seq(Commits) /\ Len(h) = q.base /\ \A i \in 1..q.base : h[i] = history[i]
    BY <1>2, <1>4, SubSeqProperties DEF Typed, Tip
  <2>2. /\ Append(h, c) \in Seq(Commits) /\ Len(Append(h, c)) = Len(h) + 1
        /\ \A i \in 1..Len(h) : Append(h, c)[i] = h[i]
        /\ Append(h, c)[Len(h) + 1] = c
    BY <1>1, <2>1, AppendProperties
  <2>3. Len(history) = Len(Append(h, c))
    BY <1>4, <2>1, <2>2 DEF Tip
  <2>4. \A i \in 1..Len(history) : history[i] = Append(h, c)[i]
    BY <1>2, <1>4, <2>1, <2>2, <2>3 DEF Tip
  <2>5. Append(h, c) = history
    BY <2>2, <2>3, <2>4, SeqEqual DEF Typed
  <2>6. history' = history
    BY <2>5 DEF RefApplied
  <2> QED
    BY <1>1, <1>2, <1>4, <2>6 DEF Grown, OnBranch, Tip
<1> QED
  BY <1>3, <1>4 DEF FastForward

-----------------------------------------------------------------------------
\* The invariant in the first state.
LEMMA InitIInv == Init => IInv
<1> SUFFICES ASSUME Init PROVE IInv
  OBVIOUS
<1>1. [by |-> Outsider, files |-> NoFiles] \in Commits
  BY NoFilesTyped DEF Commits
<1>2. history \in Seq(Commits) /\ Tip >= 1
  BY <1>1 DEF Init, Tip
<1>3. \A k \in Reports : rec[k] \in Recs /\ rec[k].state = "stored_local"
  BY MarkTyped, GitHubAssumption DEF Init, Stored, Record, Recs
<1>4. \A p \in Procs : push[p] \in Calls /\ push[p].at = "idle" /\ push[p].answer = "none"
  BY NoPushTyped DEF Init
<1>5. Typed
  BY <1>2, <1>3, <1>4 DEF Init, Typed
<1> QED
  BY <1>3, <1>4, <1>5 DEF Init, IInv, Held, InCall, RequestsSound, MarksTrue

\* A request that is sent is sound.
LEMMA RequestSound ==
    ASSUME IInv, NEW p \in Procs, Sending(p)
    PROVE  /\ Sound(Request(p)) /\ Request(p).by = p /\ Request(p).kind = push[p].at
           /\ Request(p).batch = push[p].batch /\ Request(p).base = push[p].base
BY DEF IInv, Typed, RequestsSound, Calls, Sending, Sound, Request

\* Process p goes on to c, and nothing else changes but the branch and the
\* requests nobody waits for.
LEMMA Moves ==
    ASSUME IInv, Grown, NEW p \in Procs, NEW c \in Calls, Becomes(p, c),
           UNCHANGED <<rec, unmade>>,
           \A q \in late' : q \in late \/ (Sending(p) /\ q = Request(p)),
           c.at = "ref" => BuiltOn(c.base, c.files),
           c.at \in InCall => push[p].at \in InCall /\ c.batch = push[p].batch,
           c.answer = "ok" => \A k \in c.batch : OnBranch(c.commit, k)'
    PROVE  IInv'
<1>1. /\ push' \in [Procs -> Calls] /\ push'[p] = c
      /\ \A q \in Procs \ {p} : push'[q] = push[q]
  BY DEF IInv, Typed, Becomes
<1>2. Typed'
  BY <1>1, GrownKeeps DEF IInv, Typed
<1>3. Held'
  BY <1>1 DEF IInv, Held
<1>4. RequestsSound'
  <2>1. \A q \in late' : Sound(q)'
    BY RequestSound, SoundStays DEF IInv, RequestsSound
  <2>2. ASSUME NEW q \in Procs, push'[q].at = "ref"
        PROVE  BuiltOn(push[q].base, push[q].files)'
    <3>1. PICK d \in Calls : d = push'[q]
      BY <1>1
    <3>2. BuiltOn(d.base, d.files)
      BY <1>1, <2>2, <3>1 DEF IInv, RequestsSound
    <3>3. BuiltOn(d.base, d.files)'
      BY <3>2, BuiltOnStays DEF IInv
    <3> QED
      BY <3>1, <3>3
  <2> QED
    BY <2>1, <2>2 DEF RequestsSound
<1>5. MarksTrue'
  <2>1. ASSUME NEW k \in Reports, rec'[k].state = "published_remote"
        PROVE  OnBranch(rec[k].commit, k)'
    <3>1. PICK m : m = rec[k].commit /\ m = rec'[k].commit
      OBVIOUS
    <3>2. OnBranch(m, k)'
      BY <2>1, <3>1, MarkStays DEF IInv, MarksTrue
    <3> QED
      BY <3>1, <3>2
  <2>2. ASSUME NEW q \in Procs, push'[q].answer = "ok", NEW k \in push'[q].batch
        PROVE  OnBranch(push[q].commit, k)'
    <3>1. PICK d \in Calls : d = push'[q]
      BY <1>1
    <3>2. CASE q = p
      BY <1>1, <2>2, <3>1, <3>2
    <3>3. CASE q # p
      <4>1. OnBranch(d.commit, k)
        BY <1>1, <2>2, <3>1, <3>3 DEF IInv, MarksTrue
      <4>2. OnBranch(d.commit, k)'
        BY <4>1, MarkStays DEF IInv
      <4> QED
        BY <3>1, <4>2
    <3> QED
      BY <3>2, <3>3
  <2> QED
    BY <2>1, <2>2 DEF MarksTrue
<1> QED
  BY <1>2, <1>3, <1>4, <1>5 DEF IInv

\* The branch and the requests nobody waits for change, no record and no call.
LEMMA Around ==
    ASSUME IInv, Grown, UNCHANGED <<rec, push>>, late' \subseteq late, unmade' \subseteq unmade
    PROVE  IInv'
<1>1. Typed' /\ Held'
  BY GrownKeeps DEF IInv, Typed, Held
<1>2. RequestsSound'
  <2>1. \A q \in late' : Sound(q)'
    BY SoundStays DEF IInv, RequestsSound
  <2>2. ASSUME NEW p \in Procs, push'[p].at = "ref" PROVE BuiltOn(push[p].base, push[p].files)'
    <3>1. PICK d : d = push[p] /\ d = push'[p]
      OBVIOUS
    <3>2. BuiltOn(d.base, d.files)
      BY <2>2, <3>1 DEF IInv, RequestsSound
    <3>3. BuiltOn(d.base, d.files)'
      BY <3>2, BuiltOnStays DEF IInv
    <3> QED
      BY <3>1, <3>3
  <2> QED
    BY <2>1, <2>2 DEF RequestsSound
<1>3. MarksTrue'
  <2>1. ASSUME NEW k \in Reports, NEW m, OnBranch(m, k) PROVE OnBranch(m, k)'
    BY <2>1, MarkStays DEF IInv
  <2>2. ASSUME NEW k \in Reports, rec'[k].state = "published_remote"
        PROVE  OnBranch(rec[k].commit, k)'
    <3>1. PICK m : m = rec[k].commit /\ m = rec'[k].commit
      OBVIOUS
    <3>2. OnBranch(m, k)'
      BY <2>1, <2>2, <3>1 DEF IInv, MarksTrue
    <3> QED
      BY <3>1, <3>2
  <2>3. ASSUME NEW p \in Procs, push'[p].answer = "ok", NEW k \in push'[p].batch
        PROVE  OnBranch(push[p].commit, k)'
    <3>1. PICK d \in Calls : d = push[p] /\ d = push'[p]
      BY DEF IInv, Typed
    <3>2. OnBranch(d.commit, k) /\ k \in Reports
      BY <2>3, <3>1 DEF IInv, MarksTrue, Calls
    <3>3. OnBranch(d.commit, k)'
      BY <2>1, <3>2
    <3> QED
      BY <3>1, <3>3
  <2> QED
    BY <2>2, <2>3 DEF MarksTrue
<1> QED
  BY <1>1, <1>2, <1>3 DEF IInv

\* Records change: those that are published name a commit that is on the branch,
\* and a call still holds its batch.
LEMMA RecordsMove ==
    ASSUME IInv, UNCHANGED <<history, unmade, late>>,
           rec' \in [Reports -> Recs], push' \in [Procs -> Calls], Held',
           \A p \in Procs : push'[p].at = "ref" => push'[p] = push[p],
           \A p \in Procs : push'[p].answer = "ok" =>
              /\ push'[p].commit = push[p].commit /\ push[p].answer = "ok"
              /\ push'[p].batch \subseteq push[p].batch,
           \A k \in Reports : rec'[k].state = "published_remote" => OnBranch(rec'[k].commit, k)
    PROVE  IInv'
<1>1. Typed' /\ RequestsSound'
  BY DEF IInv, Typed, Tip, RequestsSound, Sound, BuiltOn
<1>2. MarksTrue'
  BY DEF IInv, MarksTrue, OnBranch, Tip
<1> QED
  BY <1>1, <1>2 DEF IInv

LEMMA ClaimStep ==
    ASSUME IInv, NEW p \in Procs, NEW S \in SUBSET Reports, Claim(p, S)
    PROVE  IInv'
<1>1. \A k \in Reports : rec[k] \in Recs /\ rec[k].commit \in Marks /\ rec[k].attempts \in 0..MaxAttempts
  BY DEF IInv, Typed, Recs
<1>2. ASSUME NEW k \in S
      PROVE  /\ Record("stored_local", p, rec[k].attempts + 1, rec[k].commit) \in Recs
             /\ Record("stored_local", p, rec[k].attempts + 1, rec[k].commit).owner = p
             /\ Record("stored_local", p, rec[k].attempts + 1, rec[k].commit).state = "stored_local"
  <2>1. rec[k].attempts + 1 \in 0..MaxAttempts
    BY <1>1, <1>2, GitHubAssumption DEF Claim, Exhausted
  <2> QED
    BY <1>1, <1>2, <2>1, RecordTyped
<1>3. /\ rec' \in [Reports -> Recs]
      /\ \A k \in S : rec'[k].owner = p /\ rec'[k].state = "stored_local" /\ rec[k].owner = NoProc
      /\ \A k \in Reports \ S : rec'[k] = rec[k]
  BY <1>1, <1>2 DEF Claim
<1>4. PICK c \in Calls : Becomes(p, c) /\ c.at \in {"lookup", "head"} /\ c.batch = S /\ c.answer = "none"
  <2>1. PICK at \in {"lookup", "head"} : Becomes(p, Call(at, S, 1, 0, NoFiles, FALSE))
    BY DEF Claim
  <2>2. 1 \in 0..MaxTries /\ 0 \in Nat /\ NoFiles \in Trees
    BY NoFilesTyped DEF MaxTries
  <2>3. /\ Call(at, S, 1, 0, NoFiles, FALSE) \in Calls
        /\ Call(at, S, 1, 0, NoFiles, FALSE).at = at
        /\ Call(at, S, 1, 0, NoFiles, FALSE).batch = S
        /\ Call(at, S, 1, 0, NoFiles, FALSE).answer = "none"
    <3>1. at \in {"idle", "lookup", "put", "head", "ref", "settle"}
      BY <2>1
    <3> QED
      BY <2>2, <3>1, MarkTyped DEF Call, Calls
  <2> QED
    BY <2>1, <2>3, Zenon
<1>5. /\ push' \in [Procs -> Calls] /\ push'[p] = c
      /\ \A q \in Procs \ {p} : push'[q] = push[q]
  BY <1>4 DEF Becomes, IInv, Typed
<1>6. Held'
  <2>1. ASSUME NEW q \in Procs, push'[q].at \in InCall, NEW k \in push'[q].batch
        PROVE  rec'[k].owner = q
    <3>1. CASE q = p
      BY <1>3, <1>4, <1>5, <2>1, <3>1
    <3>2. CASE q # p
      <4>1. rec[k].owner = q /\ k \in Reports
        BY <1>5, <2>1, <3>2 DEF IInv, Held, Typed, Calls
      <4> QED
        BY <1>3, <4>1, GitHubAssumption
    <3> QED
      BY <3>1, <3>2
  <2> QED
    BY <2>1 DEF Held
<1>7. \A k \in Reports : rec'[k].state = "published_remote" => OnBranch(rec'[k].commit, k)
  BY <1>3 DEF IInv, MarksTrue
<1> QED
  BY <1>3, <1>4, <1>5, <1>6, <1>7, RecordsMove DEF Claim

LEMMA SettleStep ==
    ASSUME IInv, NEW p \in Procs, NEW k \in Reports, Settle(p, k)
    PROVE  IInv'
<1>1. /\ rec[k].commit \in Marks /\ rec[k].attempts \in 0..MaxAttempts /\ rec[k] \in Recs
      /\ push[p] \in Calls /\ push[p].commit \in Marks /\ push[p].batch \in SUBSET Reports
      /\ push[p].answer \in {"none", "ok", "retry", "permanent", "contested"}
  BY DEF IInv, Typed, Recs, Calls
<1>2. PICK r \in Recs :
         /\ rec' = [rec EXCEPT ![k] = r]
         /\ r = rec[k] \/ rec[k].owner = p
         /\ r.state = "published_remote" => OnBranch(r.commit, k)
  <2>1. CASE rec[k].owner # p
    <3>1. rec' = [rec EXCEPT ![k] = rec[k]]
      BY <2>1 DEF Settle, IInv, Typed
    <3> QED
      BY <1>1, <3>1 DEF IInv, MarksTrue
  <2>2. CASE rec[k].owner = p /\ push[p].answer = "ok"
    <3>1. rec' = [rec EXCEPT ![k] =
                     Record("published_remote", NoProc, rec[k].attempts, push[p].commit)]
      BY <2>2 DEF Settle
    <3>2. OnBranch(push[p].commit, k)
      BY <2>2 DEF Settle, IInv, MarksTrue
    <3>3. PICK r \in Recs :
             /\ r = Record("published_remote", NoProc, rec[k].attempts, push[p].commit)
             /\ r.commit = push[p].commit
      BY <1>1, RecordTyped
    <3> QED
      BY <2>2, <3>1, <3>2, <3>3
  <2>3. CASE rec[k].owner = p /\ push[p].answer # "ok"
    <3>1. PICK state \in {"stored_local", "failed"} : rec' = [rec EXCEPT ![k] = Left(k, state)]
      BY <2>3 DEF Settle
    <3>2. PICK r \in Recs :
             r = Record(state, NoProc, rec[k].attempts, rec[k].commit) /\ r.state = state
      BY <1>1, RecordTyped
    <3> QED
      BY <2>3, <3>1, <3>2 DEF Left
  <2> QED
    BY <2>1, <2>2, <2>3
<1>3. PICK c \in Calls :
         /\ Becomes(p, c) /\ c.at \in {"idle", "settle"}
         /\ c.answer = "ok" => /\ c.commit = push[p].commit /\ push[p].answer = "ok"
                               /\ c.batch \subseteq push[p].batch
  <2>1. push[p].batch \ {k} \in SUBSET Reports
    BY <1>1
  <2> QED
    BY <1>1, <2>1, NoPushTyped, EndedTyped DEF Settle, Released
<1>4. /\ push' \in [Procs -> Calls] /\ push'[p] = c
      /\ \A q \in Procs \ {p} : push'[q] = push[q]
  BY <1>3 DEF Becomes, IInv, Typed
<1>5. rec' \in [Reports -> Recs] /\ rec'[k] = r /\ \A j \in Reports \ {k} : rec'[j] = rec[j]
  BY <1>2 DEF IInv, Typed
<1>6. Held'
  <2>1. ASSUME NEW q \in Procs, push'[q].at \in InCall, NEW j \in push'[q].batch
        PROVE  rec'[j].owner = q
    <3>1. q # p
      BY <1>3, <1>4, <2>1 DEF InCall
    <3>2. rec[j].owner = q /\ j \in Reports
      BY <1>4, <2>1, <3>1 DEF IInv, Held, Typed, Calls
    <3> QED
      BY <1>2, <1>5, <3>1, <3>2
  <2> QED
    BY <2>1 DEF Held
<1>7. \A j \in Reports : rec'[j].state = "published_remote" => OnBranch(rec'[j].commit, j)
  BY <1>2, <1>5 DEF IInv, MarksTrue
<1> QED
  BY <1>3, <1>4, <1>5, <1>6, <1>7, RecordsMove DEF Settle

LEMMA ReclaimStep ==
    ASSUME IInv, NEW k \in Reports, Reclaim(k)
    PROVE  IInv'
<1>1. rec[k].commit \in Marks /\ rec[k].attempts \in 0..MaxAttempts
  BY DEF IInv, Typed, Recs
<1>2. PICK r \in Recs : rec' = [rec EXCEPT ![k] = r] /\ r.state \in {"stored_local", "failed"}
  <2>1. PICK state \in {"stored_local", "failed"} : rec' = [rec EXCEPT ![k] = Left(k, state)]
    BY DEF Reclaim
  <2>2. PICK r \in Recs :
           r = Record(state, NoProc, rec[k].attempts, rec[k].commit) /\ r.state = state
    BY <1>1, RecordTyped
  <2> QED
    BY <2>1, <2>2 DEF Left
<1>3. rec' \in [Reports -> Recs] /\ rec'[k] = r /\ \A j \in Reports \ {k} : rec'[j] = rec[j]
  BY <1>2 DEF IInv, Typed
<1>4. Held'
  <2>1. ASSUME NEW q \in Procs, push[q].at \in InCall, NEW j \in push[q].batch
        PROVE  rec'[j].owner = q
    <3>1. rec[j].owner = q /\ j \in Reports /\ Calling(q)
      BY <2>1 DEF IInv, Held, Typed, Calls, Calling, Sending, InCall
    <3> QED
      BY <1>3, <2>1, <3>1 DEF Reclaim
  <2> QED
    BY <2>1 DEF Held, Reclaim
<1>5. \A j \in Reports : rec'[j].state = "published_remote" => OnBranch(rec'[j].commit, j)
  BY <1>2, <1>3 DEF IInv, MarksTrue
<1> QED
  BY <1>3, <1>4, <1>5, RecordsMove DEF Reclaim, IInv, Typed

\* A step of a call: it reads, sends, or ends.
LEMMA CallStep ==
    ASSUME IInv, NEW p \in Procs,
           \/ Lookup(p) \/ HeadCommitAndTree(p) \/ BranchMoved(p)
           \/ ReadFails(p) \/ Deadline(p) \/ Crash(p)
           \/ \E served \in BOOLEAN : PutFile(p, served) \/ UpdateBranchRef(p, served)
           \/ \E k \in Reports : SettleLost(p, k)
    PROVE  IInv'
<1>1. /\ push[p] \in Calls /\ push[p].batch \in SUBSET Reports /\ push[p].try \in 0..MaxTries
      /\ push[p].base \in Nat /\ push[p].files \in Trees /\ push[p].commit \in Marks
      /\ push[p].resent \in BOOLEAN
      /\ push[p].answer \in {"none", "ok", "retry", "permanent", "contested"}
  BY DEF IInv, Typed, Calls
<1>2. ASSUME NEW at \in {"lookup", "put", "head", "ref"}, NEW try \in 0..MaxTries,
             NEW base \in Nat, NEW files \in Trees, NEW resent \in BOOLEAN, Grown,
             Becomes(p, Call(at, push[p].batch, try, base, files, resent)),
             UNCHANGED <<rec, unmade, late>>, push[p].at \in InCall,
             at = "ref" => BuiltOn(base, files)
      PROVE  IInv'
  <2>1. PICK c \in Calls : /\ c = Call(at, push[p].batch, try, base, files, resent)
                           /\ c.at = at /\ c.batch = push[p].batch /\ c.base = base
                           /\ c.files = files /\ c.answer = "none"
    BY <1>1, CallTyped
  <2> QED
    BY <1>2, <2>1, Moves
<1>3. ASSUME NEW answer \in {"ok", "retry", "permanent", "contested"}, NEW m \in Marks, Grown,
             Becomes(p, Ended(push[p].batch, answer, m)), UNCHANGED <<rec, unmade>>,
             \A q \in late' : q \in late \/ (Sending(p) /\ q = Request(p)),
             answer = "ok" => \A k \in push[p].batch : OnBranch(m, k)'
      PROVE  IInv'
  <2>1. PICK c \in Calls : /\ c = Ended(push[p].batch, answer, m)
                           /\ c.at = "settle" /\ c.batch = push[p].batch
                           /\ c.answer = answer /\ c.commit = m
    BY <1>1, EndedTyped
  <2> QED
    BY <1>3, <2>1, Moves DEF InCall
<1>4. NoFiles \in Trees /\ NoCommit \in Marks /\ Files \in Trees /\ Tip \in Nat \ {0}
  BY NoFilesTyped, MarkTyped, FilesTyped DEF IInv
<1>5. CASE Lookup(p)
  <2>1. PICK files \in Trees : Becomes(p, Call("put", push[p].batch, 1, 0, files, FALSE))
    <3>1. [x \in Paths |-> IF x \in push[p].batch THEN Files[x] ELSE "none"] \in Trees
      BY <1>4 DEF Trees
    <3> QED
      BY <1>5, <3>1 DEF Lookup
  <2>2. 1 \in 0..MaxTries /\ Grown /\ push[p].at \in InCall /\ UNCHANGED <<rec, unmade, late>>
    BY <1>5 DEF Lookup, MaxTries, Grown, InCall
  <2> QED
    BY <1>2, <2>1, <2>2
<1>6. CASE HeadCommitAndTree(p)
  <2>1. BuiltOn(Tip, Files)
    BY <1>4 DEF BuiltOn, Files
  <2>2. Grown /\ push[p].at \in InCall /\ UNCHANGED <<rec, unmade, late>>
    BY <1>6 DEF HeadCommitAndTree, Grown, InCall
  <2>3. PICK base \in Nat, files \in Trees :
           /\ base = Tip /\ files = Files
           /\ Becomes(p, Call("ref", push[p].batch, push[p].try, base, files, FALSE))
    BY <1>4, <1>6 DEF HeadCommitAndTree
  <2> QED
    BY <1>1, <1>2, <2>1, <2>2, <2>3
<1>7. CASE BranchMoved(p)
  <2>1. Grown /\ push[p].at \in InCall /\ UNCHANGED <<rec, unmade, late>>
    BY <1>7 DEF BranchMoved, Grown, InCall
  <2>2. CASE push[p].try < MaxTries
    <3>1. push[p].try + 1 \in 0..MaxTries
      BY <1>1, <2>2 DEF MaxTries
    <3> QED
      BY <1>1, <1>2, <1>7, <2>1, <2>2, <3>1 DEF BranchMoved
  <2>3. CASE ~(push[p].try < MaxTries)
    BY <1>3, <1>4, <1>7, <2>1, <2>3 DEF BranchMoved, Returns
  <2> QED
    BY <2>2, <2>3
<1>8. CASE ReadFails(p)
  BY <1>3, <1>4, <1>8 DEF ReadFails, Returns, Errors, Grown
<1>9. CASE Deadline(p)
  BY <1>3, <1>4, <1>9 DEF Deadline, Returns, Abandoned, Grown
<1>10. CASE Crash(p)
  BY <1>10, NoPushTyped, Moves DEF Crash, Abandoned, Grown, InCall
<1>11. CASE \E k \in Reports : SettleLost(p, k)
  <2>1. PICK k \in Reports : SettleLost(p, k)
    BY <1>11
  <2>2. PICK c \in Calls :
           /\ Becomes(p, c) /\ c.at \in {"idle", "settle"}
           /\ c.answer = "ok" => /\ c.commit = push[p].commit /\ push[p].answer = "ok"
                                 /\ c.batch \subseteq push[p].batch
    <3>1. push[p].batch \ {k} \in SUBSET Reports
      BY <1>1
    <3> QED
      BY <1>1, <2>1, <3>1, NoPushTyped, EndedTyped DEF SettleLost, Released
  <2>3. c.answer = "ok" => \A j \in c.batch : OnBranch(c.commit, j)'
    BY <2>1, <2>2 DEF SettleLost, IInv, MarksTrue, OnBranch, Tip
  <2> QED
    BY <2>1, <2>2, <2>3, Moves DEF SettleLost, Grown, InCall
<1>12. ASSUME NEW m \in Marks, Grown, Sending(p), UNCHANGED <<rec, unmade, late>>,
              \A k \in push[p].batch : OnBranch(m, k)',
              \/ Returns(p, "ok", m) \/ \E e \in Errors : Returns(p, e, NoCommit)
              \/ Resend(p)
       PROVE  IInv'
  <2>1. CASE Returns(p, "ok", m)
    BY <1>3, <1>12, <2>1 DEF Returns
  <2>2. CASE \E e \in Errors : Returns(p, e, NoCommit)
    BY <1>3, <1>4, <1>12, <2>2 DEF Returns, Errors
  <2>3. CASE Resend(p)
    <3>1. push[p].at \in {"put", "ref"} /\ (push[p].at = "ref" => BuiltOn(push[p].base, push[p].files))
      BY <1>12 DEF Sending, IInv, RequestsSound
    <3>2. push[p].at \in InCall
      BY <3>1 DEF InCall
    <3> QED
      BY <1>1, <1>2, <1>12, <2>3, <3>1, <3>2 DEF Resend
  <2> QED
    BY <1>12, <2>1, <2>2, <2>3
<1>13. CASE \E served \in BOOLEAN : PutFile(p, served)
  <2>1. PICK served \in BOOLEAN : PutFile(p, served)
    BY <1>13
  <2>2. Sending(p) /\ UNCHANGED <<rec, unmade, late>>
    BY <2>1 DEF PutFile, Sending
  <2>3. CASE served
    <3>1. PICK q : q = Request(p) /\ Sound(q) /\ q.by = p /\ q.batch = push[p].batch
      BY <2>2, RequestSound
    <3>2. PutApplies(q) /\ history' = PutApplied(q)
      BY <2>1, <2>3, <3>1 DEF PutFile
    <3>3. PICK m \in Marks : m = [n |-> Tip + 1, by |-> p]
      <4>1. Tip + 1 \in Nat
        BY FilesTyped DEF IInv
      <4>2. [n |-> Tip + 1, by |-> p] \in Marks
        BY <4>1, MarkTyped
      <4> QED
        BY <4>2, Zenon
    <3>4. Grown /\ \A k \in push[p].batch : OnBranch(m, k)'
      <4>1. PICK n \in Nat : n = Tip + 1 /\ m = [n |-> n, by |-> p]
        <5>1. Tip + 1 \in Nat
          BY FilesTyped DEF IInv
        <5> QED
          BY <3>3, <5>1
      <4> QED
        BY <3>1, <3>2, <4>1, PutAdds DEF IInv
    <3>5. Returns(p, "ok", m) \/ (\E e \in Errors : Returns(p, e, NoCommit)) \/ Resend(p)
      BY <2>1, <3>3 DEF PutFile
    <3> QED
      BY <1>12, <2>2, <3>4, <3>5
  <2>4. CASE ~served
    BY <1>3, <1>4, <2>1, <2>2, <2>4 DEF PutFile, Returns, Errors, Grown
  <2> QED
    BY <2>3, <2>4
<1>14. CASE \E served \in BOOLEAN : UpdateBranchRef(p, served)
  <2>1. PICK served \in BOOLEAN : UpdateBranchRef(p, served)
    BY <1>14
  <2>2. Sending(p) /\ UNCHANGED <<rec, unmade, late>>
    BY <2>1 DEF UpdateBranchRef, Sending
  <2>3. CASE served
    <3>1. PICK q : /\ q = Request(p) /\ Sound(q) /\ q.by = p /\ q.batch = push[p].batch
                   /\ q.base = push[p].base /\ q.kind = "ref"
      BY <2>1, <2>2, RequestSound DEF UpdateBranchRef
    <3>2. FastForward(q) /\ history' = RefApplied(q)
      BY <2>1, <2>3, <3>1 DEF UpdateBranchRef
    <3>3. PICK m \in Marks : m = [n |-> q.base + 1, by |-> p]
      <4>1. q.base + 1 \in Nat
        BY <1>1, <3>1 DEF Calls
      <4>2. [n |-> q.base + 1, by |-> p] \in Marks
        BY <4>1, MarkTyped
      <4> QED
        BY <4>2, Zenon
    <3>4. Grown /\ \A k \in push[p].batch : OnBranch(m, k)'
      BY <3>1, <3>2, <3>3, RefAdds DEF IInv
    <3>5. Returns(p, "ok", m) \/ (\E e \in Errors : Returns(p, e, NoCommit)) \/ Resend(p)
      BY <2>1, <3>1, <3>3 DEF UpdateBranchRef
    <3> QED
      BY <1>12, <2>2, <3>4, <3>5
  <2>4. CASE ~served
    BY <1>3, <1>4, <2>1, <2>2, <2>4 DEF UpdateBranchRef, Returns, Errors, Grown
  <2> QED
    BY <2>3, <2>4
<1> QED
  BY <1>5, <1>6, <1>7, <1>8, <1>9, <1>10, <1>11, <1>13, <1>14

\* The rest of the world.
LEMMA WorldStep ==
    ASSUME IInv, \/ \E q \in late : LateArrives(q) \/ LateIsLost(q)
                 \/ \E e \in Edits, x \in Paths : Edit(e, x)
    PROVE  IInv'
<1>1. ASSUME NEW q \in late, LateArrives(q) PROVE IInv'
  <2>1. Sound(q)
    BY DEF IInv, RequestsSound
  <2>2. Grown
    BY <1>1, <2>1, PutAdds, RefAdds DEF IInv, LateArrives, Grown
  <2> QED
    BY <1>1, <2>2, Around DEF LateArrives
<1>2. ASSUME NEW q \in late, LateIsLost(q) PROVE IInv'
  BY <1>2, Around DEF LateIsLost, Grown
<1>3. ASSUME NEW e \in Edits, NEW x \in Paths, Edit(e, x) PROVE IInv'
  <2>1. [Files EXCEPT ![x] = e] \in Trees
    BY FilesTyped DEF IInv, Trees
  <2>2. [by |-> Outsider, files |-> [Files EXCEPT ![x] = e]] \in Commits
    BY <2>1 DEF Commits
  <2> QED
    BY <1>3, <2>2, Around DEF Edit, Grown
<1> QED
  BY <1>1, <1>2, <1>3

LEMMA StepIInv == IInv /\ [Next]_vars => IInv'
<1> SUFFICES ASSUME IInv, [Next]_vars PROVE IInv'
  OBVIOUS
<1>1. CASE Next
  BY <1>1, ClaimStep, SettleStep, ReclaimStep, CallStep, WorldStep DEF Next
<1>2. CASE UNCHANGED vars
  BY <1>2, Around DEF vars, Grown
<1> QED
  BY <1>1, <1>2

LEMMA Invariance == Spec => []IInv
BY InitIInv, StepIInv, PTL DEF Spec

\* The variables have their types, and a call is never under way for a record
\* that another process holds.
THEOREM GitHubTyped == Spec => []TypeOK
<1>1. IInv => TypeOK
  BY DEF IInv, Typed, Held, RequestsSound, Sound, Recs, Calls, InCall, Calling, Sending, TypeOK
<1> QED
  BY <1>1, Invariance, PTL

\* What is recorded as published is on the branch, whatever was pushed since.
THEOREM GitHubPublishedIsOnBranch == Spec => []PublishedIsOnBranch
<1>1. IInv => PublishedIsOnBranch
  BY DEF IInv, MarksTrue, OnBranch, PublishedIsOnBranch
<1> QED
  BY <1>1, Invariance, PTL

\* What a step does to the branch: nothing, or an edit from outside, or one of
\* the requests of a process is served.
LEMMA WhoPushes ==
    ASSUME IInv, [Next]_vars, history' # history
    PROVE  \/ \E c \in Commits : c.by = Outsider /\ history' = Append(history, c)
           \/ \E p \in Procs : \E q \in Requests(p) : Sound(q) /\ q.by = p /\ Adds(q)
<1>1. CASE \E e \in Edits, x \in Paths : Edit(e, x)
  <2>1. PICK e \in Edits, x \in Paths : Edit(e, x)
    BY <1>1
  <2>2. [Files EXCEPT ![x] = e] \in Trees
    BY FilesTyped DEF IInv, Trees
  <2>3. [by |-> Outsider, files |-> [Files EXCEPT ![x] = e]] \in Commits
    BY <2>2 DEF Commits
  <2> QED
    BY <2>1, <2>3 DEF Edit
<1>2. CASE \E q \in late : LateArrives(q)
  <2>1. PICK q \in late : LateArrives(q)
    BY <1>2
  <2>2. Sound(q) /\ q.by \in Procs /\ q \in Requests(q.by)
    BY DEF IInv, RequestsSound, Sound, Requests
  <2>3. Adds(q)
    BY <2>1, <2>2, PutAdds, RefAdds DEF IInv, LateArrives
  <2> QED
    BY <2>2, <2>3
<1>3. CASE \E p \in Procs, served \in BOOLEAN : PutFile(p, served) \/ UpdateBranchRef(p, served)
  <2>1. PICK p \in Procs, served \in BOOLEAN : PutFile(p, served) \/ UpdateBranchRef(p, served)
    BY <1>3
  <2>2. Sending(p)
    BY <2>1 DEF PutFile, UpdateBranchRef, Sending
  <2>3. PICK q : q = Request(p) /\ Sound(q) /\ q.by = p /\ q.kind = push[p].at
    BY <2>2, RequestSound DEF Request
  <2>4. q \in Requests(p)
    BY <2>3 DEF Requests
  <2>5. CASE PutFile(p, served)
    <3>1. PutApplies(q) /\ history' = PutApplied(q)
      BY <2>3, <2>5 DEF PutFile
    <3> QED
      BY <2>3, <2>4, <3>1, PutAdds DEF IInv
  <2>6. CASE UpdateBranchRef(p, served)
    <3>1. FastForward(q) /\ history' = RefApplied(q) /\ q.kind = "ref"
      BY <2>3, <2>6 DEF UpdateBranchRef
    <3> QED
      BY <2>3, <2>4, <3>1, RefAdds DEF IInv
  <2> QED
    BY <2>1, <2>5, <2>6
<1> QED
  BY <1>1, <1>2, <1>3 DEF Next, vars, Claim, Lookup, HeadCommitAndTree, BranchMoved, ReadFails,
     Deadline, Crash, LateIsLost, Settle, SettleLost, Reclaim

\* Whoever pushes, the branch only grows, and a commit of this program is its
\* predecessor with all the reports of one batch and no other change.
THEOREM GitHubCommitIsOneWholeBatch == Spec => CommitIsOneWholeBatch
<1> DEFINE A ==
       history' # history =>
         /\ Len(history') = Tip + 1 /\ SubSeq(history', 1, Tip) = history
         /\ LET c == history'[Tip + 1] IN
            c.by \in Procs => \E q \in Requests(c.by) : c.files = WithReports(Files, q.batch)
<1>1. ASSUME IInv, [Next]_vars, history' # history PROVE A
  <2>1. ASSUME NEW c \in Commits, history' = Append(history, c)
        PROVE  /\ Len(history') = Tip + 1 /\ SubSeq(history', 1, Tip) = history
               /\ history'[Tip + 1] = c
    <3>1. /\ Len(history') = Tip + 1 /\ history'[Tip + 1] = c /\ history \in Seq(Commits)
          /\ \A i \in 1..Tip : history'[i] = history[i]
      BY <1>1, <2>1, AppendProperties DEF IInv, Typed, Tip
    <3>2. history' \in Seq(Commits) /\ 1 \in 1..Tip + 1 /\ Tip \in Nat /\ Tip >= 1
      BY <1>1, <2>1, AppendProperties DEF IInv, Typed, Tip
    <3>3. /\ SubSeq(history', 1, Tip) \in Seq(Commits) /\ Len(SubSeq(history', 1, Tip)) = Tip
          /\ \A i \in 1..Tip : SubSeq(history', 1, Tip)[i] = history'[i]
      BY <3>1, <3>2, SubSeqProperties
    <3>4. SubSeq(history', 1, Tip) = history
      BY <1>1, <3>1, <3>3, SeqEqual DEF Tip
    <3> QED
      BY <3>1, <3>4
  <2>2. CASE \E c \in Commits : c.by = Outsider /\ history' = Append(history, c)
    BY <2>1, <2>2, GitHubAssumption
  <2>3. CASE \E p \in Procs : \E q \in Requests(p) : Sound(q) /\ q.by = p /\ Adds(q)
    <3>1. PICK p \in Procs : \E q \in Requests(p) : Sound(q) /\ q.by = p /\ Adds(q)
      BY <2>3
    <3>2. PICK q \in Requests(p) : Sound(q) /\ q.by = p /\ Adds(q)
      BY <3>1
    <3>3. PICK c \in Commits : c.by = p /\ c.files = WithReports(Files, q.batch)
                               /\ history' = Append(history, c)
      <4>1. [by |-> p, files |-> WithReports(Files, q.batch)] \in Commits
        BY <1>1, <3>1, <3>2, FilesTyped DEF IInv, Sound
      <4> QED
        BY <3>2, <4>1 DEF Adds
    <3> QED
      BY <2>1, <3>2, <3>3
  <2> QED
    BY <1>1, <2>2, <2>3, WhoPushes
<1>2. IInv /\ [Next]_vars => [A]_vars
  BY <1>1
<1>3. Spec => [][A]_vars
  BY <1>2, Invariance, PTL DEF Spec
<1> QED
  BY <1>3 DEF CommitIsOneWholeBatch

\* A push replaces a report's file only if it is still what the push has read.
THEOREM GitHubOverwritesOnlyWhatItRead == Spec => OverwritesOnlyWhatItRead
<1> DEFINE A ==
       history' # history => \A p \in Procs : history'[Len(history')].by = p =>
         \E q \in Requests(p) : \A k \in q.batch : Files[k] = q.files[k]
<1>1. ASSUME IInv, [Next]_vars, history' # history PROVE A
  <2>1. ASSUME NEW c \in Commits, history' = Append(history, c)
        PROVE  history'[Len(history')] = c
    BY <1>1, <2>1, AppendProperties DEF IInv, Typed
  <2>2. CASE \E c \in Commits : c.by = Outsider /\ history' = Append(history, c)
    BY <2>1, <2>2, GitHubAssumption
  <2>3. CASE \E p \in Procs : \E q \in Requests(p) : Sound(q) /\ q.by = p /\ Adds(q)
    <3>1. PICK p \in Procs : \E q \in Requests(p) : Sound(q) /\ q.by = p /\ Adds(q)
      BY <2>3
    <3>2. PICK q \in Requests(p) : Sound(q) /\ q.by = p /\ Adds(q)
      BY <3>1
    <3>3. PICK c \in Commits : c.by = p /\ history' = Append(history, c)
      <4>1. [by |-> p, files |-> WithReports(Files, q.batch)] \in Commits
        BY <1>1, <3>1, <3>2, FilesTyped DEF IInv, Sound
      <4> QED
        BY <3>2, <4>1 DEF Adds
    <3> QED
      BY <2>1, <3>2, <3>3 DEF Adds
  <2> QED
    BY <1>1, <2>2, <2>3, WhoPushes
<1>2. IInv /\ [Next]_vars => [A]_vars
  BY <1>1
<1>3. Spec => [][A]_vars
  BY <1>2, Invariance, PTL DEF Spec
<1> QED
  BY <1>3 DEF OverwritesOnlyWhatItRead
=============================================================================
