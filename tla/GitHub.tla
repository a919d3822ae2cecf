------------------------------- MODULE GitHub -------------------------------
(***************************************************************************)
(* The remote target of the publish stage: the GitHub client pushes one    *)
(* report through the contents API, or several as one commit through the   *)
(* git data API, to a branch that other processes and other people push to *)
(* as well.  Requests are lost, resent by the HTTP library, answered with  *)
(* errors after they took effect, and arrive after the deadline.           *)
(***************************************************************************)
EXTENDS Naturals, FiniteSets, Sequences

CONSTANTS
    Reports,      \* the publish records of the instance, each with its own path
    Others,       \* the other files of the repository
    Edits,        \* what other people write into files
    Procs,
    NoProc,       \* "lease_owner IS NULL"
    Outsider,     \* the author of the edits
    MaxAttempts   \* retry.publish_max_attempts

ASSUME GitHubAssumption ==
    NoProc \notin Procs /\ Outsider \notin Procs /\ MaxAttempts \in Nat \ {0}

Paths == Reports \cup Others
Trees == [Paths -> {"none", "report"} \cup Edits]
Commits == [by : Procs \cup {Outsider}, files : Trees]

VARIABLES
    history,   \* the commits of the branch, oldest first
    unmade,    \* the edits that are still to come
    rec,       \* rec[k]  : the publish record
    push,      \* push[p] : the call of publish or publish_many, and its release
    late       \* requests under way whose sender does not wait any more

vars == <<history, unmade, rec, push, late>>

Tip == Len(history)
Files == history[Tip].files

-----------------------------------------------------------------------------
(* The records, as far as the remote stage changes them.                   *)

NoCommit == [n |-> 0, by |-> NoProc]

Record(state, owner, attempts, commit) ==
    [state |-> state, owner |-> owner, attempts |-> attempts, commit |-> commit]

Stored == Record("stored_local", NoProc, 0, NoCommit)

Left(k, state) == Record(state, NoProc, rec[k].attempts, rec[k].commit)
Exhausted(k) == rec[k].attempts >= MaxAttempts

-----------------------------------------------------------------------------
(* The calls.                                                              *)

NoFiles == [x \in Paths |-> "none"]

\* A call of publish or publish_many: its batch, the attempt on the branch, the
\* head and the files it has read, and whether its request was sent again ...
Call(at, batch, try, base, files, resent) ==
    [at |-> at, batch |-> batch, try |-> try, base |-> base, files |-> files,
     resent |-> resent, answer |-> "none", commit |-> NoCommit]

\* ... and what has come of it, for the records that are still to be released.
Ended(batch, answer, commit) ==
    [at |-> "settle", batch |-> batch, try |-> 0, base |-> 0, files |-> NoFiles,
     resent |-> FALSE, answer |-> answer, commit |-> commit]

NoPush == Call("idle", {}, 0, 0, NoFiles, FALSE)

Becomes(p, c) == push' = [push EXCEPT ![p] = c]

WithReports(files, S) == [x \in Paths |-> IF x \in S THEN "report" ELSE files[x]]

\* The request that p is about to send: a file over the version it has looked
\* up, or a branch update to a commit whose parent is the head it has read.
Request(p) == [kind |-> push[p].at, by |-> p, batch |-> push[p].batch,
               base |-> push[p].base, files |-> push[p].files]

Commit(q) == [by |-> q.by, files |-> WithReports(q.files, q.batch)]

Init ==
    /\ history = <<[by |-> Outsider, files |-> NoFiles]>>
    /\ unmade = Edits
    /\ rec = [k \in Reports |-> Stored]
    /\ push = [p \in Procs |-> NoPush]
    /\ late = {}

\* The claim of the remote stage.  One report goes through the contents API.
Claim(p, S) ==
    /\ push[p].at = "idle" /\ S # {}
    /\ \A k \in S : rec[k].state = "stored_local" /\ rec[k].owner = NoProc /\ ~Exhausted(k)
    /\ rec' = [k \in Reports |->
                 IF k \in S THEN Record("stored_local", p, rec[k].attempts + 1, rec[k].commit)
                            ELSE rec[k]]
    /\ Becomes(p, Call(IF Cardinality(S) = 1 THEN "lookup" ELSE "head", S, 1, 0, NoFiles, FALSE))
    /\ UNCHANGED <<history, unmade, late>>

\* The call returns; its records are released one by one.
Returns(p, answer, commit) == Becomes(p, Ended(push[p].batch, answer, commit))

\* Errors by their class: 409, 429, 5xx, the network and unreadable bodies are
\* worth a retry; 401, 403, other statuses and oversized bodies are not.
Errors == {"retry", "permanent"}

-----------------------------------------------------------------------------
(* One report: GET the blob of its path, PUT the file over it.             *)

\* No file at the path (404) is looked up as no version.
Lookup(p) ==
    /\ push[p].at = "lookup"
    /\ LET found == [x \in Paths |-> IF x \in push[p].batch THEN Files[x] ELSE "none"]
       IN  Becomes(p, Call("put", push[p].batch, 1, 0, found, FALSE))
    /\ UNCHANGED <<history, unmade, rec, late>>

\* The server takes a file only over the version named in the request.
PutApplies(q) == \A k \in q.batch : Files[k] = q.files[k]

PutApplied(q) == Append(history, [by |-> q.by, files |-> WithReports(Files, q.batch)])

Resend(p) ==
    Becomes(p, Call(push[p].at, push[p].batch, push[p].try, push[p].base, push[p].files, TRUE))

\* What comes back from a request that was served or not: an answer, an error,
\* or nothing, after which the HTTP library sends it once more.
PutFile(p, served) ==
    /\ push[p].at = "put"
    /\ served => PutApplies(Request(p))
    /\ history' = IF served THEN PutApplied(Request(p)) ELSE history
    /\ \/ served /\ Returns(p, "ok", [n |-> Tip + 1, by |-> p])
       \/ \E e \in Errors : Returns(p, e, NoCommit)
       \/ served /\ ~push[p].resent /\ Resend(p)
    /\ UNCHANGED <<unmade, rec, late>>

-----------------------------------------------------------------------------
(* Several reports: read the branch, make a tree and a commit, move the    *)
(* branch to it.  Nobody sees the commit before the branch is moved.       *)

\* Fault of HeadCommitAndTree: the second attempt keeps the first one's tree.
HeadAndOldTree(p) ==
    /\ push[p].at = "head"
    /\ Becomes(p, Call("ref", push[p].batch, push[p].try, Tip,
                       IF push[p].try = 1 THEN Files ELSE push[p].files, FALSE))
    /\ UNCHANGED <<history, unmade, rec, late>>

\* head_commit_and_tree, and with it create_tree and create_commit.
HeadCommitAndTree(p) ==
    /\ push[p].at = "head"
    /\ Becomes(p, Call("ref", push[p].batch, push[p].try, Tip, Files, FALSE))
    /\ UNCHANGED <<history, unmade, rec, late>>

\* Fault of FastForward: the update is sent with force = true.
Forced(q) == TRUE

\* The branch stands at the commit's parent, or already at the commit.
FastForward(q) ==
    \/ Tip = q.base
    \/ Tip = q.base + 1 /\ history[Tip] = Commit(q)

RefApplied(q) == Append(SubSeq(history, 1, q.base), Commit(q))

\* Fault of UpdateBranchRef: no answer is taken for the update made.
UpdateAssumed(p, served) ==
    /\ push[p].at = "ref"
    /\ served => FastForward(Request(p))
    /\ history' = IF served THEN RefApplied(Request(p)) ELSE history
    /\ Returns(p, "ok", [n |-> push[p].base + 1, by |-> p])
    /\ UNCHANGED <<unmade, rec, late>>

\* PATCH of the branch without force.
UpdateBranchRef(p, served) ==
    /\ push[p].at = "ref"
    /\ served => FastForward(Request(p))
    /\ history' = IF served THEN RefApplied(Request(p)) ELSE history
    /\ \/ served /\ Returns(p, "ok", [n |-> push[p].base + 1, by |-> p])
       \/ \E e \in Errors : Returns(p, e, NoCommit)
       \/ served /\ ~push[p].resent /\ Resend(p)
    /\ UNCHANGED <<unmade, rec, late>>

\* publish_many starts over from a fresh head when the branch has moved, once.
MaxTries == 2

BranchMoved(p) ==
    /\ push[p].at = "ref" /\ ~FastForward(Request(p))
    /\ IF push[p].try < MaxTries
          THEN Becomes(p, Call("head", push[p].batch, push[p].try + 1, push[p].base,
                               push[p].files, FALSE))
          ELSE Returns(p, "contested", NoCommit)
    /\ UNCHANGED <<history, unmade, rec, late>>

-----------------------------------------------------------------------------
(* Ends.                                                                   *)

Sending(p) == push[p].at \in {"put", "ref"}
Calling(p) == push[p].at \in {"lookup", "head"} \/ Sending(p)

\* A reading request fails.
ReadFails(p) ==
    /\ push[p].at \in {"lookup", "head"}
    /\ \E e \in Errors : Returns(p, e, NoCommit)
    /\ UNCHANGED <<history, unmade, rec, late>>

\* The request that nobody waits for may still be under way.
Abandoned(p) ==
    \/ UNCHANGED late
    \/ Sending(p) /\ late' = late \cup {Request(p)}

\* timeout_at drops the call: RemoteTimeout, worth a retry.
Deadline(p) ==
    /\ Calling(p) /\ Abandoned(p)
    /\ Returns(p, "retry", NoCommit)
    /\ UNCHANGED <<history, unmade, rec>>

Crash(p) ==
    /\ push[p].at # "idle" /\ Abandoned(p)
    /\ Becomes(p, NoPush)
    /\ UNCHANGED <<history, unmade, rec>>

\* A request arrives after all, or is gone.
LateArrives(q) ==
    /\ late' = late \ {q}
    /\ history' = IF q.kind = "put" /\ PutApplies(q) THEN PutApplied(q)
                  ELSE IF q.kind = "ref" /\ FastForward(q) THEN RefApplied(q)
                  ELSE history
    /\ UNCHANGED <<unmade, rec, push>>

LateIsLost(q) ==
    /\ late' = late \ {q}
    /\ UNCHANGED <<history, unmade, rec, push>>

Released(p, k) ==
    Becomes(p, IF push[p].batch = {k} THEN NoPush
               ELSE Ended(push[p].batch \ {k}, push[p].answer, push[p].commit))

\* The release of a record by what the call returned, if it still has its owner.
Settle(p, k) ==
    /\ push[p].at = "settle" /\ k \in push[p].batch
    /\ rec' = IF rec[k].owner # p THEN rec
              ELSE [rec EXCEPT ![k] =
                 CASE push[p].answer = "ok" ->
                        Record("published_remote", NoProc, rec[k].attempts, push[p].commit)
                   [] push[p].answer = "retry" /\ ~Exhausted(k) -> Left(k, "stored_local")
                   [] OTHER -> Left(k, "failed")]
    /\ Released(p, k)
    /\ UNCHANGED <<history, unmade, late>>

\* The database does not take the release.
SettleLost(p, k) ==
    /\ push[p].at = "settle" /\ k \in push[p].batch
    /\ Released(p, k)
    /\ UNCHANGED <<history, unmade, rec, late>>

\* Fault of Reclaim: the lease runs out while a call is still waited for.
ReclaimEarly(k) ==
    /\ rec[k].owner # NoProc
    /\ rec' = [rec EXCEPT ![k] = Left(k, IF Exhausted(k) THEN "failed" ELSE "stored_local")]
    /\ UNCHANGED <<history, unmade, push, late>>

\* Maintenance of a later run: an expired lease is taken back, and what has no
\* attempt left is failed.  The deadline ends every call before its lease does.
Reclaim(k) ==
    /\ rec[k].owner # NoProc
    /\ ~ \E p \in Procs : rec[k].owner = p /\ Calling(p) /\ k \in push[p].batch
    /\ rec' = [rec EXCEPT ![k] = Left(k, IF Exhausted(k) THEN "failed" ELSE "stored_local")]
    /\ UNCHANGED <<history, unmade, push, late>>

\* Somebody else pushes to the branch.
Edit(e, x) ==
    /\ e \in unmade
    /\ unmade' = unmade \ {e}
    /\ history' = Append(history, [by |-> Outsider, files |-> [Files EXCEPT ![x] = e]])
    /\ UNCHANGED <<rec, push, late>>

-----------------------------------------------------------------------------
Next ==
    \/ \E p \in Procs, S \in SUBSET Reports : Claim(p, S)
    \/ \E p \in Procs : Lookup(p) \/ HeadCommitAndTree(p) \/ BranchMoved(p)
    \/ \E p \in Procs, served \in BOOLEAN : PutFile(p, served) \/ UpdateBranchRef(p, served)
    \/ \E p \in Procs : ReadFails(p) \/ Deadline(p) \/ Crash(p)
    \/ \E q \in late : LateArrives(q) \/ LateIsLost(q)
    \/ \E p \in Procs, k \in Reports : Settle(p, k) \/ SettleLost(p, k)
    \/ \E k \in Reports : Reclaim(k)
    \/ \E e \in Edits, x \in Paths : Edit(e, x)

Spec == Init /\ [][Next]_vars

-----------------------------------------------------------------------------
(* Properties.                                                             *)

\* The variables have their types, and a call is never under way for a record
\* that another process holds: the deadline of remote.rs ends before the lease.
TypeOK ==
    /\ history \in Seq(Commits) /\ unmade \subseteq Edits
    /\ \A k \in Reports :
         /\ rec[k].state \in {"stored_local", "published_remote", "failed"}
         /\ rec[k].owner \in Procs \cup {NoProc} /\ rec[k].attempts \in 0..MaxAttempts
    /\ \A p \in Procs :
         /\ push[p].at \in {"idle", "lookup", "put", "head", "ref", "settle"}
         /\ push[p].batch \subseteq Reports /\ push[p].try \in 0..MaxTries
         /\ Calling(p) => \A k \in push[p].batch : rec[k].owner = p
    /\ \A q \in late : q.kind \in {"put", "ref"}

\* A record is published_remote only while the commit stored with it is on the
\* branch and has its report, whatever was pushed since and by whom.
PublishedIsOnBranch ==
    \A k \in Reports : rec[k].state = "published_remote" =>
        LET c == rec[k].commit IN
        /\ c.n \in 1..Tip
        /\ history[c.n].by = c.by /\ history[c.n].files[k] = "report"

\* The calls and late requests of p, of which one has reached the branch.
Requests(p) == {Request(p)} \cup {q \in late : q.by = p}

\* Whoever pushes, the branch only grows, and a commit of this program is its
\* predecessor with all the reports of one batch and no other change: a batch
\* goes out whole, and nobody else's file is lost.
CommitIsOneWholeBatch ==
    [][history' # history =>
         /\ Len(history') = Tip + 1 /\ SubSeq(history', 1, Tip) = history
         /\ LET c == history'[Tip + 1] IN
            c.by \in Procs => \E q \in Requests(c.by) : c.files = WithReports(Files, q.batch)]_vars

\* A push replaces a report's file only if it is still what the push has read.
OverwritesOnlyWhatItRead ==
    [][history' # history => \A p \in Procs : history'[Len(history')].by = p =>
         \E q \in Requests(p) : \A k \in q.batch : Files[k] = q.files[k]]_vars
=============================================================================
