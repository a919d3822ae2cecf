------------------------------ MODULE Decision ------------------------------
(***************************************************************************)
(* decision-run, the shadow runner of typed decisions (docs/adr/0011):     *)
(* overlapping runs, each with one configuration, ask a provider about the *)
(* articles of their categories and keep the answers in decision_results.  *)
(* A run claims a window of rows, sends every one of them, waits for all   *)
(* of them and goes on with the next category, within a budget of calls.   *)
(*                                                                         *)
(* A row stands for an article under one policy and one execution key,     *)
(* which here is the configuration of the run.  Nothing depends on clocks: *)
(* a lease may expire at any time, and a release whose result the run did  *)
(* not see may reach the database much later, or never.                    *)
(***************************************************************************)
EXTENDS Naturals, FiniteSets, Sequences, Functions

CONSTANTS
    Procs,          \* lease owners: one run after the other each
    NoProc,         \* lease_owner IS NULL
    Configs,        \* what determines policy_version and execution_key
    Articles,       \* articles by id, numbers
    Categories,     \* the categories that ask questions, in configuration order
    CategoryOf,     \* the category of an article
    Budgets,        \* values of max_requests
    Concurrency,    \* decision.concurrency
    MaxAttempts,    \* decision.max_attempts
    RawPolicy       \* decision.raw_response: "never", "on_failure", "always"

ASSUME DecisionAssumption ==
    /\ NoProc \notin Procs /\ Configs # {}
    /\ Articles \subseteq Nat /\ IsFiniteSet(Articles)
    /\ Categories \in Seq(Range(Categories)) /\ Categories # <<>>
    /\ CategoryOf \in [Articles -> Range(Categories)]
    /\ Budgets \subseteq Nat \ {0} /\ Concurrency \in Nat \ {0} /\ MaxAttempts \in Nat \ {0}
    /\ RawPolicy \in {"never", "on_failure", "always"}

VARIABLES
    listed,     \* the articles in the time window of the runs that are not retired
    row,        \* decision_results by configuration and article
    raw,        \* the rows that hold a raw response
    pc,         \* pc[p]      : where the run of p is
    plan,       \* plan[p]    : its configuration, categories and max_requests
    turn,       \* turn[p]    : its place in its round over the categories
    skipped,    \* skipped[p] : the categories that are idle or paused
    calls,      \* calls[p]   : the calls it has made
    stop,       \* stop[p]    : why it stops
    task,       \* task[p]    : its open window, by article
    late        \* releases under way that nobody waits for any more

rows   == <<listed, row, raw>>
course == <<pc, plan, turn>>
window == <<skipped, calls, stop, task>>
vars   == <<rows, course, window, late>>

Keys == Configs \X Articles

-----------------------------------------------------------------------------
(* The rows.                                                               *)

Record(state, owner, live, tries) ==
    [state |-> state, owner |-> owner, live |-> live, tries |-> tries]

NoRow                 == Record("none", NoProc, FALSE, 0)
Pending(tries)        == Record("pending", NoProc, FALSE, tries)
Settled(state, tries) == Record(state, NoProc, FALSE, tries)
Claimed(p, tries)     == Record("running", p, TRUE, tries)

\* What a release asks for: an answer, or one of the failure modes.
Modes == {"success", "charge", "permanent", "refund"}

\* The statements RELEASE_SUCCESS and RELEASE_FAILURE.
Released(r, mode) ==
    CASE mode = "success" -> Settled("succeeded", r.tries)
      [] mode = "refund"  -> Pending(r.tries - 1)
      [] mode = "permanent" \/ (mode = "charge" /\ r.tries >= MaxAttempts) ->
            Settled("failed", r.tries)
      [] OTHER -> Pending(r.tries)

\* Fault of Owned: the guard on lease_owner is missing.
OwnedOrNot(p, k) == row[k].state # "none"

\* The guard of a release.
Owned(p, k) == row[k].owner = p

\* The raw columns are written with every release.
RawMayStay(mode) ==
    \/ mode = "success" /\ RawPolicy = "always"
    \/ mode = "permanent" /\ RawPolicy # "never"

\* A release that reaches the database.
Apply(p, k, mode, body) ==
    /\ body => RawMayStay(mode)
    /\ row' = IF Owned(p, k) THEN [row EXCEPT ![k] = Released(row[k], mode)] ELSE row
    /\ raw' = IF ~Owned(p, k) THEN raw
              ELSE IF body THEN raw \cup {k} ELSE raw \ {k}

-----------------------------------------------------------------------------
(* The runs.                                                               *)

\* Why a run stops, by severity: a rate limit, anything else, the configuration.
\* 0 is no stop; the exit codes are 0, 0, 1 and 78.
Stops == 0..3

Larger(m, n) == IF m > n THEN m ELSE n

\* What a run is called with: a configuration, the categories, max_requests.
Plan(c, cats, n) == [cfg |-> c, cats |-> cats, allowed |-> n]

NoPlan == Plan(CHOOSE c \in Configs : TRUE, Categories, 0)

\* The category it is at, whether this is its first round, and whether any
\* category has had a window in this round.
Turn(place, first, moved) == [place |-> place, first |-> first, moved |-> moved]

Idle == [a \in Articles |-> "none"]

Here(p)    == plan[p].cats[turn[p].place]
Key(p, a)  == <<plan[p].cfg, a>>
InPlace(p) == {k \in Keys : k[1] = plan[p].cfg /\ CategoryOf[k[2]] = Here(p)}

Init ==
    /\ listed = {} /\ row = [k \in Keys |-> NoRow] /\ raw = {} /\ late = {}
    /\ pc = [p \in Procs |-> "off"]
    /\ plan = [p \in Procs |-> NoPlan]
    /\ turn = [p \in Procs |-> Turn(1, TRUE, FALSE)]
    /\ skipped = [p \in Procs |-> {}]
    /\ calls = [p \in Procs |-> 0]
    /\ stop = [p \in Procs |-> 0]
    /\ task = [p \in Procs |-> Idle]

Goto(p, at) == pc' = [pc EXCEPT ![p] = at]

\* A run without a past, with plan s.
Afresh(p, at, s) ==
    /\ Goto(p, at)
    /\ plan' = [plan EXCEPT ![p] = s]
    /\ turn' = [turn EXCEPT ![p] = Turn(1, TRUE, FALSE)]
    /\ skipped' = [skipped EXCEPT ![p] = {}]
    /\ calls' = [calls EXCEPT ![p] = 0]
    /\ stop' = [stop EXCEPT ![p] = 0]
    /\ task' = [task EXCEPT ![p] = Idle]

\* The command checks that every category can have a first window before it
\* opens the storage; one category alone has no such need.
Start(p, c, cats, n) ==
    /\ pc[p] = "off" /\ \A w \in late : w.owner # p
    /\ Len(cats) > 1 => n >= Concurrency * Len(cats)
    /\ Afresh(p, "purge", Plan(c, cats, n))
    /\ UNCHANGED <<rows, late>>

\* What is left of max_requests, by the calls that were made.
Budget(p) == plan[p].allowed - calls[p]

\* Raw responses that have expired are cleared, whatever their configuration.
PurgeRaw(p) ==
    /\ pc[p] = "purge"
    /\ \E S \in SUBSET raw : raw' = raw \ S
    /\ Goto(p, "reclaim")
    /\ UNCHANGED <<listed, row, plan, turn, window, late>>

Reclaimable(p) == {k \in InPlace(p) : row[k].state = "running" /\ ~row[k].live}

\* Fault of PutBack: a reclaimed row gets its attempt back.
PutBackRefunded(r) == Pending(r.tries - 1)

PutBack(r) == Pending(r.tries)

Reclaim(p) ==
    /\ pc[p] = "reclaim"
    /\ row' = [k \in Keys |-> IF k \in Reclaimable(p) THEN PutBack(row[k]) ELSE row[k]]
    /\ Goto(p, "sweep")
    /\ UNCHANGED <<listed, raw, plan, turn, window, late>>

Exhausted(p) == {k \in InPlace(p) : row[k].state = "pending" /\ row[k].tries >= MaxAttempts}

TerminalizeExhausted(p) ==
    /\ pc[p] = "sweep"
    /\ row' = [k \in Keys |-> IF k \in Exhausted(p) THEN Settled("failed", row[k].tries)
                              ELSE row[k]]
    /\ IF turn[p].place < Len(plan[p].cats)
          THEN /\ Goto(p, "reclaim")
               /\ turn' = [turn EXCEPT ![p] = Turn(turn[p].place + 1, TRUE, FALSE)]
          ELSE /\ Goto(p, "claim")
               /\ turn' = [turn EXCEPT ![p] = Turn(1, TRUE, FALSE)]
    /\ UNCHANGED <<listed, raw, plan, window, late>>

\* A statement outside the windows fails, or its result is not known.
StorageFails(p) ==
    /\ pc[p] \in {"purge", "reclaim", "sweep", "claim", "generate", "claim again"}
    /\ Goto(p, "end")
    /\ stop' = [stop EXCEPT ![p] = Larger(2, stop[p])]
    /\ UNCHANGED <<rows, plan, turn, skipped, calls, task, late>>

-----------------------------------------------------------------------------
(* The rounds over the categories.                                         *)

\* The next category, in a new round after the last one if this one moved.
Onward(p) ==
    \/ /\ turn[p].place < Len(plan[p].cats)
       /\ Goto(p, "claim")
       /\ turn' = [turn EXCEPT ![p] = Turn(turn[p].place + 1, turn[p].first, turn[p].moved)]
    \/ /\ turn[p].place = Len(plan[p].cats) /\ turn[p].moved
       /\ Goto(p, "claim")
       /\ turn' = [turn EXCEPT ![p] = Turn(1, FALSE, FALSE)]
    \/ /\ turn[p].place = Len(plan[p].cats) /\ ~turn[p].moved
       /\ Goto(p, "end")
       /\ UNCHANGED turn

\* An idle or paused category is passed over for the rest of the run.
PassOver(p) == skipped' = [skipped EXCEPT ![p] = skipped[p] \cup {Here(p)}]

Skip(p) ==
    /\ pc[p] = "claim" /\ Here(p) \in skipped[p]
    /\ Onward(p)
    /\ UNCHANGED <<rows, plan, window, late>>

BudgetExhausted(p) ==
    /\ pc[p] = "claim" /\ Here(p) \notin skipped[p] /\ Budget(p) = 0
    /\ Goto(p, "end")
    /\ UNCHANGED <<rows, plan, turn, window, late>>

\* The first n of a set of numbers.
FirstOf(n, S) == {a \in S : Cardinality({b \in S : b < a}) < n}

\* Fault of Window: the budget does not bound it.
WindowOfConcurrency(p) == Concurrency

Window(p) == IF Budget(p) < Concurrency THEN Budget(p) ELSE Concurrency

\* Fault of Claimable: the budget of attempts is left to the sweep.
ClaimableAny(p) == {k[2] : k \in {k \in InPlace(p) : row[k].state = "pending"}}

Claimable(p) ==
    {k[2] : k \in {k \in InPlace(p) : row[k].state = "pending" /\ row[k].tries < MaxAttempts}}

Competing(p) == \E q \in Procs \ {p} : pc[q] # "off" /\ plan[q].cfg = plan[p].cfg

\* Rows that another run's statement has locked are skipped (PostgreSQL).
ClaimWindow(p, L) ==
    /\ pc[p] \in {"claim", "claim again"} /\ Here(p) \notin skipped[p]
    /\ Budget(p) > 0
    /\ L # {} => Competing(p) /\ L \subseteq Claimable(p)
    /\ LET W == FirstOf(Window(p), Claimable(p) \ L) IN
       /\ row' = [k \in Keys |-> IF k \in {Key(p, a) : a \in W}
                                 THEN Claimed(p, row[k].tries + 1) ELSE row[k]]
       /\ \/ /\ W # {}
             /\ Goto(p, "window")
             /\ turn' = [turn EXCEPT ![p] = Turn(turn[p].place, turn[p].first, TRUE)]
             /\ task' = [task EXCEPT ![p] =
                            [a \in Articles |-> IF a \in W THEN "claimed" ELSE "none"]]
             /\ UNCHANGED skipped
          \/ /\ W = {} /\ pc[p] = "claim"
             /\ Goto(p, "generate")
             /\ UNCHANGED <<turn, task, skipped>>
          \/ /\ W = {} /\ pc[p] = "claim again"
             /\ Onward(p) /\ PassOver(p)
             /\ UNCHANGED task
    /\ UNCHANGED <<listed, raw, plan, calls, stop, late>>

Candidates(p) == {k[2] : k \in {k \in InPlace(p) : k[2] \in listed /\ row[k].state = "none"}}

\* As many rows as the window has, for articles without one.
GeneratePending(p) ==
    /\ pc[p] = "generate"
    /\ LET G == FirstOf(Window(p), Candidates(p)) IN
       /\ row' = [k \in Keys |-> IF k \in {Key(p, a) : a \in G} THEN Pending(0) ELSE row[k]]
       /\ \/ G # {} /\ Goto(p, "claim again") /\ UNCHANGED <<turn, skipped>>
          \/ G = {} /\ Onward(p) /\ PassOver(p)
    /\ UNCHANGED <<listed, raw, plan, calls, stop, task, late>>

-----------------------------------------------------------------------------
(* The tasks of a window: read the article, check the lease, call, release. *)

Open(p, a, at) == pc[p] = "window" /\ task[p][a] = at

Becomes(p, a, at) == task' = [task EXCEPT ![p] = [task[p] EXCEPT ![a] = at]]

\* How the task ends for the run: the stop it asks for, and whether its category
\* pauses.
Over(p, a, why, pause) ==
    /\ Becomes(p, a, "none")
    /\ stop' = [stop EXCEPT ![p] = Larger(stop[p], why)]
    /\ IF pause THEN PassOver(p) ELSE UNCHANGED skipped
    /\ UNCHANGED <<course, calls>>

Unseen(p, k, mode) == [owner |-> p, key |-> k, mode |-> mode]

\* The release is seen to reach the database; if it meets the guard the row's
\* state is unknown, which is a stop.
ReleaseSeen(p, a, mode, why, pause) ==
    /\ \E body \in BOOLEAN : Apply(p, Key(p, a), mode, body)
    /\ Over(p, a, IF Owned(p, Key(p, a)) THEN why ELSE Larger(2, why), pause)
    /\ UNCHANGED late

\* It fails, or nobody waits for it any more: it may still get there.
ReleaseUnseen(p, a, mode, why, pause) ==
    /\ late' \in {late, late \cup {Unseen(p, Key(p, a), mode)}}
    /\ Over(p, a, Larger(2, why), pause)
    /\ UNCHANGED <<row, raw>>

Release(p, a, mode, why, pause) ==
    /\ \/ ReleaseSeen(p, a, mode, why, pause)
       \/ ReleaseUnseen(p, a, mode, why, pause)
    /\ UNCHANGED listed

\* The article cannot be read: the row goes back; if it is not known whether it
\* can be read, the row stays.  It is never missing (article_missing): the row's
\* foreign key keeps it.
ReadFails(p, a) == Open(p, a, "claimed") /\ Release(p, a, "refund", 2, FALSE)

ReadUnknown(p, a) ==
    /\ Open(p, a, "claimed")
    /\ Over(p, a, 2, FALSE)
    /\ UNCHANGED <<rows, late>>

\* What is left of the lease does not cover the call.
LeaseInsufficient(p, a) == Open(p, a, "claimed") /\ Release(p, a, "refund", 0, TRUE)

\* Fault of Call: a call is counted before and after.
CallTwice(p, a) ==
    /\ Open(p, a, "claimed")
    /\ Becomes(p, a, "sent") /\ calls' = [calls EXCEPT ![p] = calls[p] + 2]
    /\ UNCHANGED <<rows, course, skipped, stop, late>>

Call(p, a) ==
    /\ Open(p, a, "claimed")
    /\ Becomes(p, a, "sent") /\ calls' = [calls EXCEPT ![p] = calls[p] + 1]
    /\ UNCHANGED <<rows, course, skipped, stop, late>>

\* The answer, or an error of one of the classes.
Succeeds(p, a)      == Open(p, a, "sent") /\ Release(p, a, "success", 0, FALSE)
ItemRetryable(p, a) == Open(p, a, "sent") /\ Release(p, a, "charge", 0, TRUE)
ItemPermanent(p, a) == Open(p, a, "sent") /\ Release(p, a, "permanent", 0, FALSE)
GlobalSuspect(p, a) == Open(p, a, "sent") /\ Release(p, a, "charge", 2, FALSE)

\* A rate limit, a connection that fails, a credential or a configuration.
GlobalUnrelated(p, a) ==
    Open(p, a, "sent") /\ \E why \in {1, 2, 3} : Release(p, a, "refund", why, FALSE)

\* The task panics, or the window takes too long and what is left is cancelled.
TaskDies(p, a) ==
    /\ \/ Open(p, a, "claimed") /\ late' = late
       \/ /\ Open(p, a, "sent")
          /\ late' = late \/ \E m \in Modes : late' = late \cup {Unseen(p, Key(p, a), m)}
    /\ Over(p, a, 2, FALSE)
    /\ UNCHANGED rows

\* Everything has joined.
WindowOver(p) ==
    /\ pc[p] = "window" /\ task[p] = Idle
    /\ \/ stop[p] > 0 /\ Goto(p, "end") /\ UNCHANGED turn
       \/ stop[p] = 0 /\ Onward(p)
    /\ UNCHANGED <<rows, plan, window, late>>

Finish(p) ==
    /\ pc[p] = "end"
    /\ Afresh(p, "off", NoPlan)
    /\ UNCHANGED <<rows, late>>

Crash(p) ==
    /\ pc[p] # "off"
    /\ Afresh(p, "off", NoPlan)
    /\ UNCHANGED <<rows, late>>

-----------------------------------------------------------------------------
(* What happens around the runs.                                           *)

\* An article is persisted in the time window.
NewArticle(a) ==
    /\ a \notin listed
    /\ listed' = listed \cup {a}
    /\ UNCHANGED <<row, raw, course, window, late>>

\* Time passes: lease_expires_at < now.
Expire(k) ==
    /\ row[k].state = "running" /\ row[k].live
    /\ row' = [row EXCEPT ![k] = Record("running", row[k].owner, FALSE, row[k].tries)]
    /\ UNCHANGED <<listed, raw, course, window, late>>

\* A release that nobody waits for is committed after all, or is lost.
LateRelease(w) ==
    /\ \E body \in BOOLEAN : Apply(w.owner, w.key, w.mode, body)
    /\ late' = late \ {w}
    /\ UNCHANGED <<listed, course, window>>

LateLost(w) ==
    /\ late' = late \ {w}
    /\ UNCHANGED <<rows, course, window>>

-----------------------------------------------------------------------------
TaskStep(p, a) ==
    \/ ReadFails(p, a) \/ ReadUnknown(p, a) \/ LeaseInsufficient(p, a) \/ Call(p, a)
    \/ Succeeds(p, a) \/ ItemRetryable(p, a) \/ ItemPermanent(p, a)
    \/ GlobalSuspect(p, a) \/ GlobalUnrelated(p, a) \/ TaskDies(p, a)

RunStep(p) ==
    \/ PurgeRaw(p) \/ Reclaim(p) \/ TerminalizeExhausted(p) \/ StorageFails(p)
    \/ Skip(p) \/ BudgetExhausted(p) \/ GeneratePending(p)
    \/ \E L \in SUBSET Articles : ClaimWindow(p, L)
    \/ \E a \in Articles : TaskStep(p, a)
    \/ WindowOver(p) \/ Finish(p)

Plans == {Categories} \cup {<<k>> : k \in Range(Categories)}

Next ==
    \/ \E p \in Procs :
          \/ \E c \in Configs, cats \in Plans, n \in Budgets : Start(p, c, cats, n)
          \/ RunStep(p) \/ Crash(p)
    \/ \E a \in Articles : NewArticle(a)
    \/ \E k \in Keys : Expire(k)
    \/ \E w \in late : LateRelease(w) \/ LateLost(w)

Spec == Init /\ [][Next]_vars

-----------------------------------------------------------------------------
(* Invariants.                                                             *)

TypeOK ==
    /\ listed \subseteq Articles /\ raw \subseteq Keys
    /\ \A k \in Keys :
          /\ row[k].state \in {"none", "pending", "running", "succeeded", "failed"}
          /\ row[k].owner \in Procs \cup {NoProc} /\ row[k].tries \in 0..MaxAttempts
          /\ row[k].owner # NoProc <=> row[k].state = "running"
          /\ row[k].state = "running" => row[k].tries > 0
    /\ \A p \in Procs :
          /\ pc[p] \in {"off", "purge", "reclaim", "sweep", "claim", "generate",
                        "claim again", "window", "end"}
          /\ plan[p].cfg \in Configs /\ plan[p].cats \in Plans
          /\ turn[p].place \in 1..Len(plan[p].cats)
          /\ skipped[p] \subseteq Range(Categories) /\ stop[p] \in Stops
          /\ task[p] \in [Articles -> {"none", "claimed", "sent"}]
          /\ pc[p] # "window" => task[p] = Idle
    /\ \A w \in late : w.owner \in Procs /\ w.key \in Keys /\ w.mode \in Modes

\* Every call under way has been charged to its row: however often leases expire,
\* rows go back with or without their attempt, and late releases arrive, a row has
\* at most attempt_count calls in the air.
CallsAreCharged ==
    \A k \in Keys :
        Cardinality({p \in Procs : plan[p].cfg = k[1] /\ task[p][k[2]] = "sent"})
            <= row[k].tries

\* A command never calls the provider more often than max_requests, and what its
\* open window may still call is within it.
CallsWithinBudget ==
    \A p \in Procs :
        calls[p] + Cardinality({a \in Articles : task[p][a] = "claimed"}) <= plan[p].allowed

\* In its first round a command for all categories has a full window left for each
\* of them, so that no backlog of one category starves another.
FirstWindowForAll ==
    \A p \in Procs :
        pc[p] = "claim" /\ turn[p].first /\ Len(plan[p].cats) > 1 => Budget(p) >= Concurrency

-----------------------------------------------------------------------------
(* The promise of a leased table (LeaseQueue), with refunds.               *)

Phase(r) == CASE r.state = "none"    -> "absent"
              [] r.state = "pending" -> "queued"
              [] r.state = "running" -> "working"
              [] OTHER               -> "done"

Queue == INSTANCE LeaseQueue WITH
            Rows        <- Keys,
            Runs        <- Procs,
            NoRun       <- NoProc,
            MayReopen   <- FALSE,
            MayRefund   <- TRUE,
            phase       <- [k \in Keys |-> Phase(row[k])],
            holder      <- [k \in Keys |-> row[k].owner],
            tries       <- [k \in Keys |-> row[k].tries]

\* A row is held by one run at a time, handed out within its budget of attempts,
\* and an answer or a failure, once committed, is final: whatever is late, unseen
\* or sent twice.
ImplementsLeaseQueue == Queue!Spec
=============================================================================
