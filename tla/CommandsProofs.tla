--------------------------- MODULE CommandsProofs ---------------------------
(***************************************************************************)
(* Proofs about the commands, for any number of overlapping calls, any     *)
(* configurations and environments, and any number of migrations.          *)
(***************************************************************************)
EXTENDS Commands, WellFoundedInduction, TLAPS

-----------------------------------------------------------------------------
(* The inductive invariant.                                                *)

Steps == {"idle", "read", "probe", "gate", "open", "migrate", "ingest", "ai", "preflight",
          "rules", "publish", "batch", "work", "decide", "rounds", "job", "doctor", "scan",
          "ended", "crashed"}

\* The record of a call has these fields.
IsCall(r) ==
    /\ r = [pc |-> r.pc, setup |-> r.setup, seen |-> r.seen, todo |-> r.todo, batch |-> r.batch,
            done |-> r.done, hit |-> r.hit, codes |-> r.codes, wrote |-> r.wrote, exit |-> r.exit]
    /\ r.codes \subseteq {1, 2, 78}
    /\ r.seen \in Nat /\ r.wrote \in BOOLEAN

\* Before its stage a call has done nothing; in some steps nothing can have failed.
Fresh(r) == r.done = {} /\ r.hit = {} /\ r.codes = {} /\ r.batch = {}

Untouched == {"read", "probe", "gate", "open", "migrate", "ingest", "work", "job"}
Stages    == {"ingest", "ai", "preflight", "rules", "publish", "batch", "work", "decide",
              "rounds", "job"}

\* Which commands get where.
Reads(cmd)     == cmd \in Readers \cup {"migrate check"}
Publishes(cmd) == cmd \in {"run", "publish", "publish-all"}
Decides(cmd)   == cmd = "decision-run"
Migrates(cmd)  == ~Reads(cmd) /\ cmd \notin Doctors /\ cmd # "validate-config"

CommandFits(r) ==
    LET cmd == r.setup.cmd IN
    /\ r.pc = "read" => Reads(cmd)
    /\ r.pc = "probe" => cmd \in Doctors
    /\ r.pc = "gate" => cmd = "migrate run"
    /\ r.pc \in {"open", "migrate"} => Migrates(cmd)
    /\ r.pc = "ingest" => cmd \in {"ingest", "run"}
    /\ r.pc = "ai" => cmd \in {"ai-run", "run"}
    /\ r.pc = "preflight" => cmd = "run"
    /\ r.pc \in {"rules", "publish", "batch"} => Publishes(cmd)
    /\ r.pc \in {"decide", "rounds"} => Decides(cmd)
    /\ r.pc = "work" => Migrates(cmd) /\ FirstStage(cmd) = "work"
    /\ r.pc = "job" => cmd = "reindex"
    /\ r.pc = "doctor" => cmd \in Doctors
    /\ r.pc = "scan" => cmd = "doctor --deep"

\* What a category has met in the AI stage.
AiMet(r, cat) ==
    IF cat \in Unprovided(r.setup) THEN 78 \in r.codes
    ELSE IF ~FitsItsLease(r.setup, cat) THEN 1 \in r.codes
    ELSE <<"ai", cat.key>> \in r.done \cup r.hit

AiMetBut(r, left) == \A cat \in ToSet(CatsOf(r.setup)) \ left : AiMet(r, cat)

PublishMetBut(r, left) ==
    \A cat \in ToSet(CatsOf(r.setup)) \ left :
        <<"publish", cat.key>> \in r.done \cup r.hit \/ cat.key \in r.batch

\* The categories a stage has before it are some of those it was to work on.
Line(r) == r.todo \in Seq(ToSet(CatsOf(r.setup))) /\ r.todo # <<>>

Ingested(r) == <<"ingest", NoOne>> \in r.done \cup r.hit

AiFits(r) ==
    /\ Line(r) /\ r.batch = {} /\ CfgOf(r.setup).ai
    /\ AiMetBut(r, ToSet(r.todo))
    /\ r.setup.cmd = "run" => Ingested(r)

AfterAiFits(r) ==
    r.setup.cmd = "run" => /\ Ingested(r)
                           /\ CfgOf(r.setup).ai => AiMetBut(r, {})

PreflightFits(r) == AfterAiFits(r) /\ r.batch = {}

RulesFits(r) == AfterAiFits(r) /\ r.batch = {} /\ CatsOf(r.setup) # <<>>

PublishFits(r) ==
    /\ Line(r)
    /\ AfterAiFits(r)
    /\ PublishMetBut(r, ToSet(r.todo))

BatchFits(r) == AfterAiFits(r) /\ PublishMetBut(r, {})

\* Each category that asks has had its first window, and nothing has failed.
DecideMetBut(r, left) ==
    \A cat \in ToSet(CatsOf(r.setup)) \ left : cat.asks = "asks" => <<"decide", cat.key>> \in r.done

Unstopped(r) == r.batch = {} /\ r.hit = {} /\ r.codes = {}
DecideFits(r) == Line(r) /\ Unstopped(r) /\ DecideMetBut(r, ToSet(r.todo))
RoundsFits(r) == Unstopped(r) /\ DecideMetBut(r, {})

DoctorFits(r) ==
    /\ r.batch = {}
    /\ r.pc = "scan" => <<"check", NoOne>> \in r.done

\* What a call that is over has carried through, and what its code says of it.
Accounted(r) ==
    LET s == r.setup IN
    /\ r.codes = {} => RateLimited(r) \/ Due(s) \subseteq r.done
    /\ s.cmd = "run" /\ <<"ingest", NoOne>> \in r.done /\ Unprovided(s) # {} => 78 \in r.codes
    /\ Reached(r) =>
          /\ \/ s.cmd = "ai-run"
             \/ s.cmd = "run" /\ <<"ingest", NoOne>> \in r.done /\ CfgOf(s).ai
             => AiMetBut(r, {})
          /\ \/ s.cmd = "publish-all"
             \/ s.cmd = "run" /\ <<"ingest", NoOne>> \in r.done
                /\ PublishReady(CfgOf(s), s.env, s.local)
             => \/ <<"rules", NoOne>> \in r.hit
                \/ \A cat \in ToSet(CatsOf(s)) : <<"publish", cat.key>> \in r.done \cup r.hit

EndedFits(r) == r.exit = Worst(r.codes) /\ Accounted(r)

Refused == <<"refused", NoOne>>

\* What may be blamed for the code 78: the setup, or the provider.
Blamed(s) ==
    LET c == CfgOf(s) IN
    /\ \/ ~Validated(c, s.env, s.filter)
       \/ s.cmd # "validate-config" /\ ~DatabaseReady(c, s.env)
       \/ s.cmd \in {"publish", "publish-all", "run"} /\ ~PublishReady(c, s.env, s.local)
       \/ s.cmd = "ai-run" /\ ~c.ai
       \/ s.cmd = "decision-run"
          /\ (~c.decision.enabled \/ ~EnoughToAsk(c, s.filter, RequestsOf(s)))
       \/ s.cmd = "reindex --abort" /\ s.dry
    /\ \/ ~DoctorAccepts(c, s.env, s.filter) \/ ~DatabaseReady(c, s.env)
       \/ s.cmd = "ai-run" /\ ~c.ai
       \/ s.cmd \in {"ai-run", "run"} /\ Unprovided(s) # {}
       \/ s.cmd \in {"decision-run", "validate-config"}
       \/ s.cmd = "reindex --abort" /\ s.dry

Told(r) == Decides(r.setup.cmd) /\ Refused \in r.hit

CodesFit(r) ==
    /\ r.hit # {} => r.codes # {} \/ RateLimited(r)
    /\ Refused \in r.hit => 78 \in r.codes
    /\ 78 \in r.codes =>
          /\ Blamed(r.setup) \/ Told(r)
          /\ ChecksFirst(r.setup) /\ Refused \notin r.hit => ~r.wrote

StageFits(r) ==
    /\ r.pc \in Untouched => Fresh(r)
    /\ r.pc \in {"gate", "open"} => r.seen = 0
    /\ r.pc = "ai" => AiFits(r)
    /\ r.pc = "preflight" => PreflightFits(r)
    /\ r.pc = "rules" => RulesFits(r)
    /\ r.pc = "publish" => PublishFits(r)
    /\ r.pc = "decide" => DecideFits(r)
    /\ r.pc = "rounds" => RoundsFits(r)
    /\ r.pc = "batch" => BatchFits(r)
    /\ r.pc \in {"doctor", "scan"} => DoctorFits(r)
    /\ r.pc = "ended" => EndedFits(r)

Silent == {"idle", "crashed"}

CallFits(i, r) ==
    /\ IsCall(r) /\ r.pc \in Steps
    /\ r.pc \notin Silent => /\ r.setup \in Setups[i]
                             /\ r.pc # "ended" => Refusal(r.setup) = 0
                             /\ r.pc \in Stages => Reached(r)
                             /\ CommandFits(r) /\ CodesFit(r) /\ StageFits(r)

SchemaFits ==
    /\ applied \in Nat /\ lock \in Invocations \cup {NoOne}
    /\ backend = "sqlite" => lock = NoOne
    /\ \A i \in Invocations :
          /\ lock = i => call[i].pc = "migrate" /\ backend = "postgres"
          /\ call[i].pc = "migrate" =>
                /\ call[i].seen <= applied /\ call[i].seen <= call[i].setup.bin
                /\ backend = "postgres" => lock = i /\ call[i].seen = applied
          /\ call[i].pc \in Stages => call[i].setup.bin <= applied

Inv ==
    /\ backend \in {"sqlite", "postgres"}
    /\ DOMAIN call = Invocations
    /\ SchemaFits
    /\ \A i \in Invocations : CallFits(i, call[i])

-----------------------------------------------------------------------------
(* The selected categories.                                                *)

LEMMA LeastId ==
    ASSUME NEW S \in SUBSET Nat, S # {}
    PROVE  \E m \in S : \A k \in S : m <= k
<1>1. IsWellFoundedOn(OpToRel(<, Nat), Nat)
  BY NatLessThanWellFounded
<1>2. \E x \in S : \A y \in S : ~(<<y, x>> \in OpToRel(<, Nat))
  BY <1>1, WFMin
<1>3. PICK m \in S : \A y \in S : ~(<<y, m>> \in OpToRel(<, Nat))
  BY <1>2
<1>4. \A y \in S : ~(y < m)
  BY <1>3 DEF OpToRel
<1> QED  BY <1>4

LEMMA Elements ==
    ASSUME NEW X, NEW q \in Seq(X)
    PROVE  /\ ToSet(q) \subseteq X
           /\ \A n \in 1..Len(q) : q[n] \in X /\ q[n] \in ToSet(q)
           /\ q # <<>> => /\ Len(q) > 0 /\ Head(q) = q[1] /\ Tail(q) \in Seq(X)
                          /\ ToSet(q) = {Head(q)} \cup ToSet(Tail(q))
           /\ ToSet(<<>>) = {}
<1>1. DOMAIN q = 1..Len(q) /\ Len(q) \in Nat
  OBVIOUS
<1>2. ASSUME q # <<>>
      PROVE  /\ Len(q) > 0 /\ Head(q) = q[1] /\ Tail(q) \in Seq(X)
             /\ ToSet(q) = {Head(q)} \cup ToSet(Tail(q))
  <2>1. Len(q) > 0 /\ Head(q) = q[1] /\ Tail(q) \in Seq(X)
    BY <1>1, <1>2
  <2>2. Len(Tail(q)) = Len(q) - 1 /\ \A n \in 1..(Len(q) - 1) : Tail(q)[n] = q[n + 1]
    BY <1>1, <1>2
  <2>3. DOMAIN Tail(q) = 1..(Len(q) - 1)
    BY <2>1, <2>2
  <2>4. ASSUME NEW x \in ToSet(q)
        PROVE  x \in {Head(q)} \cup ToSet(Tail(q))
    <3>1. PICK n \in 1..Len(q) : x = q[n]
      BY <2>4, <1>1 DEF ToSet
    <3>2. CASE n = 1
      BY <3>1, <3>2, <2>1
    <3>3. CASE n # 1
      <4>1. n - 1 \in 1..(Len(q) - 1) /\ (n - 1) + 1 = n
        BY <3>1, <3>3, <1>1
      <4> QED  BY <4>1, <3>1, <2>2, <2>3 DEF ToSet
    <3> QED  BY <3>2, <3>3
  <2>5. ASSUME NEW x \in {Head(q)} \cup ToSet(Tail(q))
        PROVE  x \in ToSet(q)
    <3>1. CASE x = Head(q)
      BY <3>1, <2>1, <1>1 DEF ToSet
    <3>2. CASE x \in ToSet(Tail(q))
      <4>1. PICK n \in 1..(Len(q) - 1) : x = Tail(q)[n]
        BY <3>2, <2>3 DEF ToSet
      <4>2. n + 1 \in 1..Len(q)
        BY <1>1
      <4> QED  BY <4>1, <4>2, <2>2, <1>1 DEF ToSet
    <3> QED  BY <2>5, <3>1, <3>2
  <2> QED  BY <2>1, <2>4, <2>5
<1>3. ToSet(<<>>) = {}
  BY DEF ToSet
<1>4. \A n \in 1..Len(q) : q[n] \in X /\ q[n] \in ToSet(q)
  BY <1>1 DEF ToSet
<1>5. ToSet(q) \subseteq X
  BY <1>1, <1>4 DEF ToSet
<1> QED
  BY <1>2, <1>3, <1>4, <1>5

LEMMA NoElements == ToSet(<<>>) = {}
BY DEF ToSet

\* What is selected are categories of the configuration, in its order.
LEMMA SelectedIs ==
    ASSUME NEW c, NEW filter, c.cats \in Seq(ToSet(c.cats))
    PROVE  Selected(c, filter) \in Seq(ToSet(c.cats))
<1> DEFINE X == ToSet(c.cats)
           L == Len(c.cats)
           Kept(n, q) == IF filter \in {NoFilter, c.cats[n].key} THEN Append(q, c.cats[n]) ELSE q
           Good(k) == {f \in [0..k -> Seq(X)] : f[0] = <<>> /\ \A n \in 1..k : f[n] = Kept(n, f[n - 1])}
           Missing == {k \in 0..L : Good(k) = {}}
<1>1. L \in Nat /\ \A n \in 1..L : c.cats[n] \in X
  BY Elements
<1>2. ASSUME NEW n \in 1..L, NEW q \in Seq(X)
      PROVE  Kept(n, q) \in Seq(X)
  <2>1. c.cats[n] \in X
    BY <1>1
  <2> HIDE DEF X
  <2>2. Append(q, c.cats[n]) \in Seq(X)
    BY <2>1
  <2> QED  BY <2>2
<1> HIDE DEF Kept
<1>3. Missing = {}
  <2> SUFFICES ASSUME Missing # {} PROVE FALSE
    OBVIOUS
  <2>0. Missing \in SUBSET Nat
    BY <1>1
  <2> HIDE DEF Missing
  <2>1. PICK m \in Missing : \A k \in Missing : m <= k
    BY <2>0, LeastId
  <2>2. m \in 0..L /\ Good(m) = {}
    BY <2>1 DEF Missing
  <2>3. CASE m = 0
    <3> DEFINE g == [n \in 0..0 |-> <<>>]
    <3>1. g \in [0..0 -> Seq(X)] /\ g[0] = <<>>
      OBVIOUS
    <3>2. g \in Good(0)
      BY <3>1
    <3> QED  BY <3>2, <2>2, <2>3
  <2>4. CASE m # 0
    <3>1. m - 1 \in 0..L /\ ~(m <= m - 1) /\ m \in 1..L
      BY <1>1, <2>2, <2>4
    <3>2. m - 1 \notin Missing
      BY <3>1, <2>1
    <3>3. PICK f : f \in Good(m - 1)
      BY <3>1, <3>2 DEF Missing
    <3>4. f \in [0..(m - 1) -> Seq(X)] /\ f[0] = <<>> /\ \A n \in 1..(m - 1) : f[n] = Kept(n, f[n - 1])
      BY <3>3
    <3> DEFINE g == [n \in 0..m |-> IF n = m THEN Kept(m, f[m - 1]) ELSE f[n]]
    <3>5. Kept(m, f[m - 1]) \in Seq(X)
      BY <1>2, <3>1, <3>4
    <3>6. g \in [0..m -> Seq(X)]
      BY <3>1, <3>4, <3>5
    <3>7. g[0] = <<>>
      BY <3>1, <3>4, <2>4
    <3>8. ASSUME NEW n \in 1..m
          PROVE  g[n] = Kept(n, g[n - 1])
      <4>1. n - 1 \in 0..m /\ n - 1 # m /\ g[n - 1] = f[n - 1] /\ n \in 0..m
        BY <3>1
      <4>2. CASE n = m
        BY <4>1, <4>2
      <4>3. CASE n # m
        <5>1. n \in 1..(m - 1)
          BY <3>1, <4>3
        <5>2. g[n] = f[n]
          BY <4>1, <4>3
        <5> QED  BY <5>1, <5>2, <3>4, <4>1
      <4> QED  BY <4>2, <4>3
    <3> HIDE DEF g
    <3>9. g \in Good(m)
      BY <3>6, <3>7, <3>8
    <3> QED  BY <3>9, <2>2
  <2> QED  BY <2>3, <2>4
<1>4. PICK f : f \in Good(L)
  <2>1. L \in 0..L
    BY <1>1
  <2>2. Good(L) # {}
    BY <2>1, <1>3
  <2> QED  BY <2>2
<1>5. f \in [0..L -> Seq(X)] /\ f[0] = <<>> /\ \A n \in 1..L : f[n] = Kept(n, f[n - 1])
  BY <1>4
<1> DEFINE Meets(g) == g = [n \in 0..L |-> IF n = 0 THEN <<>> ELSE Kept(n, g[n - 1])]
           kept == CHOOSE g : Meets(g)
<1>6. Meets(f)
  <2>1. ASSUME NEW n \in 0..L
        PROVE  f[n] = IF n = 0 THEN <<>> ELSE Kept(n, f[n - 1])
    BY <1>1, <1>5
  <2> QED  BY <1>5, <2>1
<1>7. Meets(kept)
  <2> HIDE DEF Meets
  <2> QED  BY <1>6
<1>8. \A n \in 0..L : kept[n] = IF n = 0 THEN <<>> ELSE Kept(n, kept[n - 1])
  <2> HIDE DEF kept
  <2> QED  BY <1>7
<1>9. Selected(c, filter) = kept[L]
  BY DEF Selected, Kept
<1> HIDE DEF kept
<1> DEFINE Bad == {n \in 0..L : kept[n] \notin Seq(X)}
<1>10. Bad = {}
  <2> SUFFICES ASSUME Bad # {} PROVE FALSE
    OBVIOUS
  <2>0. Bad \in SUBSET Nat
    BY <1>1
  <2> HIDE DEF Bad
  <2>1. PICK m \in Bad : \A k \in Bad : m <= k
    BY <2>0, LeastId
  <2>2. m \in 0..L /\ kept[m] \notin Seq(X)
    BY <2>1 DEF Bad
  <2>3. m # 0
    <3>1. kept[0] = <<>> /\ <<>> \in Seq(X)
      BY <1>1, <1>8
    <3> QED  BY <3>1, <2>2
  <2>4. m - 1 \in 0..L /\ ~(m <= m - 1) /\ m \in 1..L
    BY <1>1, <2>2, <2>3
  <2>5. kept[m - 1] \in Seq(X)
    BY <2>4, <2>1 DEF Bad
  <2> QED  BY <2>2, <2>3, <2>4, <2>5, <1>2, <1>8
<1> QED
  BY <1>1, <1>9, <1>10

\* Worst of the codes: 0 where there is none, 78 where it is among them.
LEMMA WorstIs ==
    ASSUME NEW codes \in SUBSET {1, 2, 78}
    PROVE  /\ Worst(codes) = 0 <=> codes = {}
           /\ Worst(codes) = 78 <=> 78 \in codes
<1>1. \E x \in codes \cup {0} : \A y \in codes : y <= x
  <2>1. CASE 78 \in codes
    BY <2>1
  <2>2. CASE 78 \notin codes /\ 2 \in codes
    BY <2>2
  <2>3. CASE 78 \notin codes /\ 2 \notin codes /\ 1 \in codes
    BY <2>3
  <2>4. CASE codes = {}
    BY <2>4
  <2> QED  BY <2>1, <2>2, <2>3, <2>4
<1>2. Worst(codes) \in codes \cup {0} /\ \A y \in codes : y <= Worst(codes)
  BY <1>1 DEF Worst
<1>3. PICK w : w = Worst(codes)
  OBVIOUS
<1>4. w \in codes \cup {0} /\ \A y \in codes : y <= w
  BY <1>2, <1>3
<1>5. ASSUME NEW y \in codes
      PROVE  w # 0
  <2>1. y \in {1, 2, 78} /\ y <= w
    BY <1>4
  <2> QED  BY <2>1
<1>6. w = 0 <=> codes = {}
  BY <1>4, <1>5
<1>7. ASSUME 78 \in codes
      PROVE  w = 78
  <2>1. 78 <= w /\ w \in {0, 1, 2, 78}
    BY <1>4, <1>7
  <2> QED  BY <2>1
<1>8. w = 78 => 78 \in codes
  BY <1>4
<1> QED
  BY <1>3, <1>6, <1>7, <1>8

-----------------------------------------------------------------------------
(* What the helpers make of a call.                                        *)

\* The same call of the same setup, at step pc, with what it has been through.
Record(q, pc, setup, seen, todo, batch, done, hit, codes, wrote) ==
    /\ IsCall(q)
    /\ q.pc = pc /\ q.setup = setup /\ q.seen = seen /\ q.todo = todo /\ q.batch = batch
    /\ q.done = done /\ q.hit = hit /\ q.codes = codes /\ q.wrote = wrote

LEMMA PcRow ==
    ASSUME NEW r, IsCall(r), NEW pc
    PROVE  Record([r EXCEPT !.pc = pc],
                  pc, r.setup, r.seen, r.todo, r.batch, r.done, r.hit, r.codes, r.wrote)
BY DEF IsCall, Record

LEMMA SetupRow ==
    ASSUME NEW r, IsCall(r), NEW s
    PROVE  Record([r EXCEPT !.setup = s],
                  r.pc, s, r.seen, r.todo, r.batch, r.done, r.hit, r.codes, r.wrote)
BY DEF IsCall, Record

LEMMA SeenRow ==
    ASSUME NEW r, IsCall(r), NEW seen \in Nat
    PROVE  Record([r EXCEPT !.seen = seen],
                  r.pc, r.setup, seen, r.todo, r.batch, r.done, r.hit, r.codes, r.wrote)
BY DEF IsCall, Record

LEMMA TodoRow ==
    ASSUME NEW r, IsCall(r), NEW todo
    PROVE  /\ Record([r EXCEPT !.todo = todo],
                  r.pc, r.setup, r.seen, todo, r.batch, r.done, r.hit, r.codes, r.wrote)
           /\ [r EXCEPT !.todo = todo].exit = r.exit
BY DEF IsCall, Record

LEMMA BatchRow ==
    ASSUME NEW r, IsCall(r), NEW batch
    PROVE  /\ Record([r EXCEPT !.batch = batch],
                  r.pc, r.setup, r.seen, r.todo, batch, r.done, r.hit, r.codes, r.wrote)
           /\ [r EXCEPT !.batch = batch].exit = r.exit
BY DEF IsCall, Record

LEMMA DoneRow ==
    ASSUME NEW r, IsCall(r), NEW done
    PROVE  Record([r EXCEPT !.done = done],
                  r.pc, r.setup, r.seen, r.todo, r.batch, done, r.hit, r.codes, r.wrote)
BY DEF IsCall, Record

LEMMA HitRow ==
    ASSUME NEW r, IsCall(r), NEW hit
    PROVE  Record([r EXCEPT !.hit = hit],
                  r.pc, r.setup, r.seen, r.todo, r.batch, r.done, hit, r.codes, r.wrote)
BY DEF IsCall, Record

LEMMA CodesRow ==
    ASSUME NEW r, IsCall(r), NEW codes \in SUBSET {1, 2, 78}
    PROVE  Record([r EXCEPT !.codes = codes],
                  r.pc, r.setup, r.seen, r.todo, r.batch, r.done, r.hit, codes, r.wrote)
BY DEF IsCall, Record

LEMMA WroteRow ==
    ASSUME NEW r, IsCall(r), NEW wrote \in BOOLEAN
    PROVE  Record([r EXCEPT !.wrote = wrote],
                  r.pc, r.setup, r.seen, r.todo, r.batch, r.done, r.hit, r.codes, wrote)
BY DEF IsCall, Record

LEMMA ExitRow ==
    ASSUME NEW r, IsCall(r), NEW exit
    PROVE  /\ Record([r EXCEPT !.exit = exit],
                     r.pc, r.setup, r.seen, r.todo, r.batch, r.done, r.hit, r.codes, r.wrote)
           /\ [r EXCEPT !.exit = exit].exit = exit
BY DEF IsCall, Record

LEMMA NotCalledIs ==
    /\ Record(NotCalled, "idle", NoOne, 0, <<>>, {}, {}, {}, {}, FALSE)
    /\ NotCalled.exit = 0
BY DEF IsCall, NotCalled, Record

LEMMA CrashedRow ==
    ASSUME NEW pc
    PROVE  Record([NotCalled EXCEPT !.pc = pc],
                  pc, NoOne, 0, <<>>, {}, {}, {}, {}, FALSE)
<1>0. PICK idle : idle = NotCalled
  OBVIOUS
<1> DEFINE q1 == [idle EXCEPT !.pc = pc]
<1>1. Record(q1, pc, NoOne, 0, <<>>, {}, {}, {}, {}, FALSE)
  <2>1. Record(idle, "idle", NoOne, 0, <<>>, {}, {}, {}, {}, FALSE)
    BY <1>0, NotCalledIs
  <2>2. IsCall(idle)
    BY <2>1 DEF Record
  <2>3. Record(q1, pc, idle.setup, idle.seen, idle.todo, idle.batch, idle.done, idle.hit,
               idle.codes, idle.wrote)
    BY <2>2, PcRow
  <2>4. /\ idle.setup = NoOne /\ idle.seen = 0 /\ idle.todo = <<>> /\ idle.wrote = FALSE
        /\ idle.batch = {} /\ idle.done = {} /\ idle.hit = {} /\ idle.codes = {}
    BY <2>1 DEF Record
  <2> QED  BY <2>3, <2>4
<1> HIDE DEF q1
<1>2. [NotCalled EXCEPT !.pc = pc] = q1
  BY <1>0 DEF q1
<1> QED
  BY <1>1, <1>2 DEF Record

LEMMA CalledRow ==
    ASSUME NEW s, NEW pc
    PROVE  /\ Record(Called(s, pc),
                  pc, s, 0, <<>>, {}, {}, {}, {}, FALSE)
           /\ Called(s, pc).exit = 0
<1>0. PICK idle : idle = NotCalled
  OBVIOUS
<1> DEFINE q1 == [idle EXCEPT !.pc = pc]
<1> DEFINE q2 == [q1 EXCEPT !.setup = s]
<1>1. Record(q1, pc, NoOne, 0, <<>>, {}, {}, {}, {}, FALSE)
  <2>1. Record(idle, "idle", NoOne, 0, <<>>, {}, {}, {}, {}, FALSE)
    BY <1>0, NotCalledIs
  <2>2. IsCall(idle)
    BY <2>1 DEF Record
  <2>3. Record(q1, pc, idle.setup, idle.seen, idle.todo, idle.batch, idle.done, idle.hit,
               idle.codes, idle.wrote)
    BY <2>2, PcRow
  <2>4. /\ idle.setup = NoOne /\ idle.seen = 0 /\ idle.todo = <<>> /\ idle.wrote = FALSE
        /\ idle.batch = {} /\ idle.done = {} /\ idle.hit = {} /\ idle.codes = {}
    BY <2>1 DEF Record
  <2> QED  BY <2>3, <2>4
<1> HIDE DEF q1
<1>2. Record(q2, pc, s, 0, <<>>, {}, {}, {}, {}, FALSE)
  BY <1>1, SetupRow DEF Record
<1> HIDE DEF q2
<1>3. Called(s, pc) = q2 /\ q2.exit = 0
  <2>1. Called(s, pc) = q2
    BY <1>0 DEF Called, q1, q2
  <2>2. q1.exit = idle.exit
    BY <1>0, NotCalledIs DEF q1, Record, IsCall
  <2>3. q2.exit = q1.exit
    BY <1>1 DEF q2, Record, IsCall
  <2> QED  BY <1>0, NotCalledIs, <2>1, <2>2, <2>3
<1> QED
  BY <1>2, <1>3 DEF Record

LEMMA EndedRow ==
    ASSUME NEW r, IsCall(r)
    PROVE  /\ Record(Ended(r),
                  "ended", r.setup, r.seen, <<>>, {}, r.done, r.hit, r.codes, r.wrote)
           /\ Ended(r).exit = Worst(r.codes)
<1> DEFINE q1 == [r EXCEPT !.pc = "ended"]
<1> DEFINE q2 == [q1 EXCEPT !.exit = Worst(r.codes)]
<1> DEFINE q3 == [q2 EXCEPT !.todo = <<>>]
<1> DEFINE q4 == [q3 EXCEPT !.batch = {}]
<1>1. Record(q1, "ended", r.setup, r.seen, r.todo, r.batch, r.done, r.hit, r.codes, r.wrote)
  BY PcRow DEF Record
<1> HIDE DEF q1
<1>2. Record(q2, "ended", r.setup, r.seen, r.todo, r.batch, r.done, r.hit, r.codes, r.wrote) /\ q2.exit = Worst(r.codes)
  BY <1>1, ExitRow DEF Record
<1> HIDE DEF q2
<1>3. Record(q3, "ended", r.setup, r.seen, <<>>, r.batch, r.done, r.hit, r.codes, r.wrote)
      /\ q3.exit = Worst(r.codes)
  BY <1>2, TodoRow DEF Record
<1> HIDE DEF q3
<1>4. Record(q4, "ended", r.setup, r.seen, <<>>, {}, r.done, r.hit, r.codes, r.wrote)
      /\ q4.exit = Worst(r.codes)
  BY <1>3, BatchRow DEF Record
<1> HIDE DEF q4
<1>5. Ended(r) = q4
  BY DEF Ended, q1, q2, q3, q4
<1> QED
  BY <1>4, <1>5 DEF Record

LEMMA FailingRow ==
    ASSUME NEW r, IsCall(r), NEW code \in {1, 2, 78}
    PROVE  Record(Failing(r, code),
                  r.pc, r.setup, r.seen, r.todo, r.batch, r.done, r.hit,
                  r.codes \cup {code}, r.wrote)
<1> DEFINE q1 == [r EXCEPT !.codes = r.codes \cup {code}]
<1>1. Record(q1, r.pc, r.setup, r.seen, r.todo, r.batch, r.done, r.hit, r.codes \cup {code}, r.wrote)
  <2>1. r.codes \cup {code} \in SUBSET {1, 2, 78}
    BY DEF IsCall
  <2> QED  BY <2>1, CodesRow DEF Record
<1> HIDE DEF q1
<1>2. Failing(r, code) = q1
  BY DEF Failing, q1
<1> QED
  BY <1>1, <1>2 DEF Record

LEMMA DidRow ==
    ASSUME NEW r, IsCall(r), NEW what
    PROVE  Record(Did(r, what),
                  r.pc, r.setup, r.seen, r.todo, r.batch, r.done \cup {what},
                  r.hit, r.codes, r.wrote)
<1> DEFINE q1 == [r EXCEPT !.done = r.done \cup {what}]
<1>1. Record(q1, r.pc, r.setup, r.seen, r.todo, r.batch, r.done \cup {what}, r.hit, r.codes, r.wrote)
  BY DoneRow DEF Record
<1> HIDE DEF q1
<1>2. Did(r, what) = q1
  BY DEF Did, q1
<1> QED
  BY <1>1, <1>2 DEF Record

LEMMA HitWhatRow ==
    ASSUME NEW r, IsCall(r), NEW what
    PROVE  Record(Hit(r, what),
                  r.pc, r.setup, r.seen, r.todo, r.batch, r.done,
                  r.hit \cup {what}, r.codes \cup {1}, r.wrote)
<1> DEFINE q1 == [r EXCEPT !.hit = r.hit \cup {what}]
<1> DEFINE q2 == [q1 EXCEPT !.codes = r.codes \cup {1}]
<1>1. Record(q1, r.pc, r.setup, r.seen, r.todo, r.batch, r.done, r.hit \cup {what}, r.codes, r.wrote)
  BY HitRow DEF Record
<1> HIDE DEF q1
<1>2. Record(q2, r.pc, r.setup, r.seen, r.todo, r.batch, r.done, r.hit \cup {what}, r.codes \cup {1}, r.wrote)
  <2>1. r.codes \cup {1} \in SUBSET {1, 2, 78}
    BY DEF IsCall
  <2> QED  BY <1>1, <2>1, CodesRow DEF Record
<1> HIDE DEF q2
<1>3. Hit(r, what) = q2
  BY DEF Hit, q1, q2
<1> QED
  BY <1>2, <1>3 DEF Record

LEMMA StepTodoRow ==
    ASSUME NEW r, IsCall(r), NEW pc, NEW todo
    PROVE  Record([r EXCEPT !.pc = pc, !.todo = todo],
                  pc, r.setup, r.seen, todo, r.batch, r.done, r.hit, r.codes, r.wrote)
<1> DEFINE q1 == [r EXCEPT !.pc = pc]
<1> DEFINE q2 == [q1 EXCEPT !.todo = todo]
<1>1. Record(q1, pc, r.setup, r.seen, r.todo, r.batch, r.done, r.hit, r.codes, r.wrote)
  BY PcRow DEF Record
<1> HIDE DEF q1
<1>2. Record(q2, pc, r.setup, r.seen, todo, r.batch, r.done, r.hit, r.codes, r.wrote)
  BY <1>1, TodoRow DEF Record
<1> HIDE DEF q2
<1>3. [r EXCEPT !.pc = pc, !.todo = todo] = q2
  BY DEF q1, q2
<1> QED
  BY <1>2, <1>3 DEF Record

LEMMA StepSeenRow ==
    ASSUME NEW r, IsCall(r), NEW pc, NEW seen \in Nat
    PROVE  Record([r EXCEPT !.pc = pc, !.seen = seen],
                  pc, r.setup, seen, r.todo, r.batch, r.done, r.hit, r.codes, r.wrote)
<1> DEFINE q1 == [r EXCEPT !.pc = pc]
<1> DEFINE q2 == [q1 EXCEPT !.seen = seen]
<1>1. Record(q1, pc, r.setup, r.seen, r.todo, r.batch, r.done, r.hit, r.codes, r.wrote)
  BY PcRow DEF Record
<1> HIDE DEF q1
<1>2. Record(q2, pc, r.setup, seen, r.todo, r.batch, r.done, r.hit, r.codes, r.wrote)
  BY <1>1, SeenRow DEF Record
<1> HIDE DEF q2
<1>3. [r EXCEPT !.pc = pc, !.seen = seen] = q2
  BY DEF q1, q2
<1> QED
  BY <1>2, <1>3 DEF Record

LEMMA AppliedRow ==
    ASSUME NEW r, IsCall(r), NEW seen \in Nat
    PROVE  Record([r EXCEPT !.seen = seen, !.wrote = TRUE],
                  r.pc, r.setup, seen, r.todo, r.batch, r.done, r.hit, r.codes, TRUE)
<1> DEFINE q1 == [r EXCEPT !.seen = seen]
<1> DEFINE q2 == [q1 EXCEPT !.wrote = TRUE]
<1>1. Record(q1, r.pc, r.setup, seen, r.todo, r.batch, r.done, r.hit, r.codes, r.wrote)
  BY SeenRow DEF Record
<1> HIDE DEF q1
<1>2. Record(q2, r.pc, r.setup, seen, r.todo, r.batch, r.done, r.hit, r.codes, TRUE)
  BY <1>1, WroteRow DEF Record
<1> HIDE DEF q2
<1>3. [r EXCEPT !.seen = seen, !.wrote = TRUE] = q2
  BY DEF q1, q2
<1> QED
  BY <1>2, <1>3 DEF Record

LEMMA OutRow ==
    ASSUME NEW r, IsCall(r), NEW out, NEW failed
    PROVE  Record([r EXCEPT !.done = @ \cup out, !.hit = @ \cup failed],
                  r.pc, r.setup, r.seen, r.todo, r.batch, r.done \cup out,
                  r.hit \cup failed, r.codes, r.wrote)
<1> DEFINE q1 == [r EXCEPT !.done = r.done \cup out]
<1> DEFINE q2 == [q1 EXCEPT !.hit = r.hit \cup failed]
<1>1. Record(q1, r.pc, r.setup, r.seen, r.todo, r.batch, r.done \cup out, r.hit, r.codes, r.wrote)
  BY DoneRow DEF Record
<1> HIDE DEF q1
<1>2. Record(q2, r.pc, r.setup, r.seen, r.todo, r.batch, r.done \cup out, r.hit \cup failed, r.codes, r.wrote)
  BY <1>1, HitRow DEF Record
<1> HIDE DEF q2
<1>3. [r EXCEPT !.done = @ \cup out, !.hit = @ \cup failed] = q2
  BY DEF q1, q2
<1> QED
  BY <1>2, <1>3 DEF Record

-----------------------------------------------------------------------------
(* What the constants and a refusal say.                                   *)

LEMMA SetupIs ==
    ASSUME CommandsAssumption, NEW i \in Invocations, NEW s \in Setups[i]
    PROVE  /\ s.bin \in Nat /\ s.bin > 0
           /\ CatsOf(s) \in Seq(ToSet(CatsOf(s)))
           /\ ToSet(CatsOf(s)) \subseteq ToSet(CfgOf(s).cats)
           /\ CatsOf(s) # <<>> => CatsOf(s)[1] \in ToSet(CatsOf(s)) /\ Len(CatsOf(s)) > 0
<1>1. s.bin \in 1..Latest /\ Latest \in Nat
  BY DEF CommandsAssumption
<1>2. CfgOf(s).cats \in Seq(ToSet(CfgOf(s).cats))
  BY DEF CommandsAssumption, CfgOf
<1>3. PICK q : q = CatsOf(s)
  OBVIOUS
<1>4. q \in Seq(ToSet(CfgOf(s).cats))
  BY <1>2, <1>3, SelectedIs DEF CatsOf
<1>5. ToSet(q) \subseteq ToSet(CfgOf(s).cats) /\ \A n \in 1..Len(q) : q[n] \in ToSet(q)
  BY <1>4, Elements
<1>6. q \in Seq(ToSet(q))
  <2>1. Len(q) \in Nat /\ q = [n \in 1..Len(q) |-> q[n]]
    BY <1>4
  <2> QED  BY <1>5, <2>1
<1>7. q # <<>> => q[1] \in ToSet(q) /\ Len(q) > 0
  <2>1. Len(q) \in Nat /\ (q # <<>> => Len(q) > 0)
    BY <1>4
  <2> QED  BY <1>5, <2>1
<1> QED
  BY <1>1, <1>3, <1>5, <1>6, <1>7

LEMMA DecisionRefusalIs ==
    ASSUME NEW s
    PROVE  /\ DecisionRefusal(s) \in {0, 1, 78}
           /\ DecisionRefusal(s) = 0 => CatsOf(s) # <<>>
           /\ DecisionRefusal(s) = 78 =>
                 \/ ~DecisionProvided(CfgOf(s), s.env)
                 \/ \E cat \in ToSet(CatsOf(s)) : ~GoodQuestions(cat)
                 \/ ~EnoughToAsk(CfgOf(s), s.filter, RequestsOf(s))
<1> DEFINE b1 == ~DecisionProvided(CfgOf(s), s.env)
           b2 == CatsOf(s) = <<>>
           b3 == \E cat \in ToSet(CatsOf(s)) : ~GoodQuestions(cat)
           b4 == ~EnoughToAsk(CfgOf(s), s.filter, RequestsOf(s))
<1>1. DecisionRefusal(s) = IF b1 THEN 78 ELSE IF b2 THEN 1 ELSE IF b3 THEN 78 ELSE IF b4 THEN 78 ELSE 0
  BY DEF DecisionRefusal
<1> HIDE DEF b1, b2, b3, b4
<1>2. /\ DecisionRefusal(s) \in {0, 1, 78}
      /\ DecisionRefusal(s) = 0 => ~b2
      /\ DecisionRefusal(s) = 78 => b1 \/ b3 \/ b4
  BY <1>1
<1> QED
  BY <1>2 DEF b1, b2, b3, b4

LEMMA RefusalIs ==
    ASSUME NEW s
    PROVE  /\ Refusal(s) \in {0, 1, 2, 78}
           /\ Refusal(s) = 0 =>
                 /\ Structural(CfgOf(s), s.env)
                 /\ s.cmd = "ai-run" => CfgOf(s).ai /\ CatsOf(s) # <<>> /\ LoneCredentials(s)
                 /\ s.cmd \in {"publish-all", "decision-run"} => CatsOf(s) # <<>>
                 /\ s.cmd = "publish" => Len(CatsOf(s)) = 1
           /\ Refusal(s) = 78 =>
                 \/ s.cmd = "reindex --abort" /\ s.dry
                 \/ ~Structural(CfgOf(s), s.env)
                 \/ s.cmd = "validate-config" /\ ~Validated(CfgOf(s), s.env, s.filter)
                 \/ s.cmd \in {"ingest", "run"} /\ ~SourcesReady(CfgOf(s), s.env, s.filter)
                 \/ s.cmd = "ai-run" /\ ~CfgOf(s).ai
                 \/ s.cmd \in {"publish", "publish-all"} /\ ~PublishReady(CfgOf(s), s.env, s.local)
                 \/ s.cmd = "ai-run" /\ CfgOf(s).ai /\ CatsOf(s) # <<>> /\ ~LoneCredentials(s)
                 \/ s.cmd = "decision-run" /\ DecisionRefusal(s) = 78
                 \/ s.cmd # "validate-config" /\ ~DatabaseReady(CfgOf(s), s.env)
<1> DEFINE c == CfgOf(s)
           b0 == s.dry /\ s.cmd \notin TakesDryRun
           b1 == s.cmd \in {"reindex", "reindex --dry-run", "reindex --abort"} /\ s.filter # NoFilter
           b2 == s.cmd = "recent-entries" /\ s.filter = NoFilter
           b3 == s.cmd = "reindex --abort" /\ s.dry
           b4 == ~Structural(c, s.env)
           b5 == s.cmd = "validate-config" /\ ~Validated(c, s.env, s.filter)
           b6 == s.cmd \in {"ingest", "run"} /\ ~SourcesReady(c, s.env, s.filter)
           b7 == s.cmd = "ai-run" /\ ~c.ai
           b8 == s.cmd \in {"publish", "publish-all"} /\ ~PublishReady(c, s.env, s.local)
           b9 == s.cmd \in {"ai-run", "publish-all"} /\ CatsOf(s) = <<>>
           b10 == s.cmd = "publish" /\ Len(CatsOf(s)) # 1
           b11 == s.cmd = "ai-run" /\ ~LoneCredentials(s)
           b12 == s.cmd = "decision-run" /\ DecisionRefusal(s) # 0
           b13 == s.cmd # "validate-config" /\ ~DatabaseReady(c, s.env)
<1>1. PICK d : d = DecisionRefusal(s)
  OBVIOUS
<1>2. d \in {0, 1, 78}
  BY <1>1, DecisionRefusalIs
<1>3. Refusal(s) =
        IF b0 THEN 2 ELSE IF b1 THEN 2 ELSE IF b2 THEN 2 ELSE IF b3 THEN 78 ELSE IF b4 THEN 78
        ELSE IF b5 THEN 78 ELSE IF b6 THEN 78 ELSE IF b7 THEN 78 ELSE IF b8 THEN 78
        ELSE IF b9 THEN 1 ELSE IF b10 THEN 1 ELSE IF b11 THEN 78 ELSE IF b12 THEN d
        ELSE IF b13 THEN 78 ELSE 0
  BY <1>1 DEF Refusal
<1> HIDE DEF b0, b1, b2, b3, b4, b5, b6, b7, b8, b9, b10, b11, b12, b13
<1>4. /\ Refusal(s) \in {0, 1, 2, 78}
      /\ Refusal(s) = 0 => ~b4 /\ ~b7 /\ ~b9 /\ ~b10 /\ ~b11 /\ (b12 => d = 0)
      /\ Refusal(s) = 78 =>
            b3 \/ b4 \/ b5 \/ b6 \/ b7 \/ b8 \/ (b11 /\ ~b7 /\ ~b9) \/ (b12 /\ d = 78) \/ b13
  <2>1. CASE b0 \/ b1 \/ b2
    <3>1. Refusal(s) = 2
      BY <1>3, <2>1, Zenon
    <3> QED  BY <3>1
  <2>2. CASE ~b0 /\ ~b1 /\ ~b2 /\ (b3 \/ b4 \/ b5)
    <3>1. Refusal(s) = 78
      BY <1>3, <2>2, Zenon
    <3> QED  BY <2>2, <3>1
  <2>3. CASE ~b0 /\ ~b1 /\ ~b2 /\ ~b3 /\ ~b4 /\ ~b5
    <3>1. Refusal(s) =
            IF b6 THEN 78 ELSE IF b7 THEN 78 ELSE IF b8 THEN 78
            ELSE IF b9 THEN 1 ELSE IF b10 THEN 1 ELSE IF b11 THEN 78 ELSE IF b12 THEN d
            ELSE IF b13 THEN 78 ELSE 0
      BY <1>3, <2>3
    <3>2. CASE b6 \/ b7 \/ b8
      <4>1. Refusal(s) = 78
        BY <3>1, <3>2, Zenon
      <4> QED  BY <3>2, <4>1
    <3>3. CASE ~b6 /\ ~b7 /\ ~b8 /\ (b9 \/ b10)
      BY <3>1, <3>3
    <3>4. CASE ~b6 /\ ~b7 /\ ~b8 /\ ~b9 /\ ~b10
      <4>1. Refusal(s) = IF b11 THEN 78 ELSE IF b12 THEN d ELSE IF b13 THEN 78 ELSE 0
        BY <3>1, <3>4
      <4> QED  BY <1>2, <2>3, <3>4, <4>1
    <3> QED  BY <3>2, <3>3, <3>4
  <2> QED  BY <2>1, <2>2, <2>3
<1>5. d = 0 /\ s.cmd = "decision-run" => CatsOf(s) # <<>>
  BY <1>1, DecisionRefusalIs
<1>6. b12 <=> s.cmd = "decision-run" /\ d # 0
  BY <1>1 DEF b12
<1>7. Refusal(s) = 0 =>
         /\ ~b4 /\ ~b7 /\ ~b9 /\ ~b10 /\ ~b11
         /\ s.cmd = "decision-run" => CatsOf(s) # <<>>
  BY <1>4, <1>5, <1>6
<1> QED
  BY <1>1, <1>4, <1>6, <1>7 DEF b3, b4, b5, b6, b7, b8, b9, b10, b11, b13

\* What validate-config or doctor accepts is refused only for what they do not
\* look at.
LEMMA RefusalBlamed ==
    ASSUME CommandsAssumption, NEW i \in Invocations, NEW s \in Setups[i], Refusal(s) = 78
    PROVE  Blamed(s)
<1> DEFINE c == CfgOf(s)
<1>1. \/ s.cmd = "reindex --abort" /\ s.dry
      \/ ~Structural(c, s.env)
      \/ s.cmd = "validate-config" /\ ~Validated(c, s.env, s.filter)
      \/ s.cmd \in {"ingest", "run"} /\ ~SourcesReady(c, s.env, s.filter)
      \/ s.cmd = "ai-run" /\ ~c.ai
      \/ s.cmd \in {"publish", "publish-all"} /\ ~PublishReady(c, s.env, s.local)
      \/ s.cmd = "ai-run" /\ c.ai /\ CatsOf(s) # <<>> /\ ~LoneCredentials(s)
      \/ s.cmd = "decision-run" /\ DecisionRefusal(s) = 78
      \/ s.cmd # "validate-config" /\ ~DatabaseReady(c, s.env)
  BY RefusalIs
<1>2. CASE ~Structural(c, s.env) \/ ~SourcesReady(c, s.env, s.filter)
  BY <1>2 DEF Blamed, Validated, DoctorAccepts
<1>3. CASE s.cmd = "validate-config" /\ ~Validated(c, s.env, s.filter)
  BY <1>3 DEF Blamed
<1>4. CASE s.cmd = "ai-run" /\ ~c.ai
  BY <1>4 DEF Blamed
<1>5. CASE s.cmd \in {"publish", "publish-all"} /\ ~PublishReady(c, s.env, s.local)
  <2>1. ~PublishReady(c, s.env, FALSE)
    BY <1>5 DEF PublishReady, RemoteWanted
  <2> QED  BY <1>5, <2>1 DEF Blamed, DoctorAccepts
<1>6. CASE s.cmd = "ai-run" /\ c.ai /\ CatsOf(s) # <<>> /\ ~LoneCredentials(s)
  <2>1. CatsOf(s)[1] \in ToSet(CatsOf(s)) /\ ~Credentials(CatsOf(s)[1], s.env)
    BY <1>6, SetupIs DEF LoneCredentials
  <2>2. CatsOf(s)[1] \in Unprovided(s)
    BY <1>6, <2>1 DEF Unprovided
  <2>3. PICK n \in DOMAIN c.cats : ~Credentials(c.cats[n], s.env)
    <3>1. CatsOf(s)[1] \in ToSet(CfgOf(s).cats)
      BY <2>1, SetupIs
    <3>2. PICK n \in DOMAIN CfgOf(s).cats : CatsOf(s)[1] = CfgOf(s).cats[n]
      BY <3>1 DEF ToSet
    <3> QED  BY <2>1, <3>2
  <2>4. ~Validated(c, s.env, s.filter)
    BY <1>6, <2>3 DEF Validated, Audited
  <2> QED  BY <1>6, <2>2, <2>4 DEF Blamed
<1>7. CASE s.cmd = "decision-run" /\ DecisionRefusal(s) = 78
  <2> SUFFICES ASSUME Validated(c, s.env, s.filter), c.decision.enabled
               PROVE  ~EnoughToAsk(c, s.filter, RequestsOf(s))
    BY <1>7 DEF Blamed
  <2>1. \A cat \in ToSet(CatsOf(s)) : GoodQuestions(cat)
    <3>1. \A n \in DOMAIN c.cats : GoodQuestions(c.cats[n])
      BY DEF Validated
    <3>2. \A cat \in ToSet(CfgOf(s).cats) : GoodQuestions(cat)
      BY <3>1 DEF ToSet
    <3>3. ToSet(CatsOf(s)) \subseteq ToSet(CfgOf(s).cats)
      BY SetupIs
    <3> QED  BY <3>2, <3>3
  <2>2. DecisionProvided(c, s.env)
    BY DEF Validated, DecisionProvided
  <2> QED  BY <1>7, <2>1, <2>2, DecisionRefusalIs
<1>8. CASE s.cmd = "reindex --abort" /\ s.dry
  BY <1>8 DEF Blamed
<1>9. CASE s.cmd # "validate-config" /\ ~DatabaseReady(c, s.env)
  BY <1>9 DEF Blamed
<1> QED
  BY <1>1, <1>2, <1>3, <1>4, <1>5, <1>6, <1>7, <1>8, <1>9

-----------------------------------------------------------------------------
(* Ends, and the passage from stage to stage.                              *)

\* A call whose migrations are done and which was not refused.
Went(i, r) ==
    /\ IsCall(r) /\ r.setup \in Setups[i] /\ Refusal(r.setup) = 0
    /\ CodesFit(r) /\ Reached(r)

\* What the fields say is so of every record that has them.
LEMMA SameMet ==
    ASSUME NEW q, NEW r, NEW left, q.setup = r.setup,
           q.done = r.done, q.hit = r.hit, q.codes = r.codes
    PROVE  /\ AiMetBut(q, left) <=> AiMetBut(r, left)
           /\ AfterAiFits(q) <=> AfterAiFits(r)
           /\ q.seen = r.seen => (Reached(q) <=> Reached(r)) /\ (Accounted(q) <=> Accounted(r))
           /\ q.wrote = r.wrote => (CodesFit(q) <=> CodesFit(r))
           /\ q.batch = r.batch => (PublishMetBut(q, left) <=> PublishMetBut(r, left))
<1>1. \A cat : AiMet(q, cat) <=> AiMet(r, cat)
  BY DEF AiMet
<1>2. \A l : AiMetBut(q, l) <=> AiMetBut(r, l)
  BY <1>1 DEF AiMetBut
<1>3. AfterAiFits(q) <=> AfterAiFits(r)
  BY <1>2 DEF AfterAiFits, Ingested
<1>4. q.wrote = r.wrote => (CodesFit(q) <=> CodesFit(r))
  BY DEF CodesFit, RateLimited, Told
<1>5. q.batch = r.batch => (PublishMetBut(q, left) <=> PublishMetBut(r, left))
  BY DEF PublishMetBut
<1>6. q.seen = r.seen => (Reached(q) <=> Reached(r))
  BY DEF Reached
<1>7. q.seen = r.seen => (Accounted(q) <=> Accounted(r))
  BY <1>2, <1>6 DEF Accounted, RateLimited
<1> QED
  BY <1>2, <1>3, <1>4, <1>5, <1>6, <1>7

LEMMA EndFits ==
    ASSUME NEW i, NEW r, IsCall(r), r.setup \in Setups[i], CodesFit(r), Accounted(r)
    PROVE  CallFits(i, Ended(r)) /\ Ended(r).pc = "ended"
<1>1. PICK q : q = Ended(r)
  OBVIOUS
<1>2. /\ IsCall(q) /\ q.pc = "ended" /\ q.exit = Worst(q.codes)
      /\ q.setup = r.setup /\ q.done = r.done /\ q.hit = r.hit /\ q.codes = r.codes
      /\ q.seen = r.seen /\ q.wrote = r.wrote
  BY <1>1, EndedRow DEF Record
<1>3. CodesFit(q) /\ EndedFits(q)
  BY <1>2, SameMet DEF EndedFits
<1>4. CommandFits(q) /\ StageFits(q) /\ q.pc \notin Stages /\ q.pc \in Steps
  BY <1>2, <1>3 DEF CommandFits, StageFits, Stages, Untouched, Steps
<1> QED
  BY <1>1, <1>2, <1>3, <1>4 DEF CallFits

\* Of most calls nothing more is asked than that they say what went wrong.
LEMMA PlainEndFits ==
    ASSUME NEW i, NEW r, IsCall(r), r.setup \in Setups[i], CodesFit(r),
           r.codes = {} => Due(r.setup) \subseteq r.done,
           r.setup.cmd = "run" => <<"ingest", NoOne>> \notin r.done,
           r.setup.cmd \in {"ai-run", "publish-all"} => ~Reached(r)
    PROVE  CallFits(i, Ended(r)) /\ Ended(r).pc = "ended"
<1>1. Accounted(r)
  BY DEF Accounted
<1> QED
  BY <1>1, EndFits

\* run goes on after its AI stage; ai-run is over.
LEMMA AfterAiStep ==
    ASSUME NEW i, NEW r, Went(i, r), r.setup.cmd \in {"ai-run", "run"}, r.batch = {},
           AfterAiFits(r), r.setup.cmd = "ai-run" => AiMetBut(r, {}) /\ CfgOf(r.setup).ai
    PROVE  CallFits(i, AfterAi(r)) /\ AfterAi(r).pc \in {"preflight", "ended"}
           /\ AfterAi(r).setup = r.setup
<1>1. CASE r.setup.cmd = "run"
  <2>1. PICK q : q = [r EXCEPT !.pc = "preflight", !.todo = <<>>]
    OBVIOUS
  <2>2. /\ IsCall(q) /\ q.pc = "preflight" /\ q.setup = r.setup /\ q.done = r.done
        /\ q.hit = r.hit /\ q.codes = r.codes /\ q.seen = r.seen /\ q.wrote = r.wrote
        /\ q.batch = r.batch
    <3>1. Record(q, "preflight", r.setup, r.seen, <<>>, r.batch, r.done, r.hit, r.codes, r.wrote)
      <4>1. IsCall(r)
        BY DEF Went
      <4> QED  BY <2>1, <4>1, StepTodoRow
    <3> QED  BY <3>1 DEF Record
  <2>3. CodesFit(q) /\ PreflightFits(q) /\ Reached(q)
    BY <2>2, SameMet DEF PreflightFits, Went
  <2>4. CommandFits(q) /\ StageFits(q) /\ q.pc \in Steps
    BY <1>1, <2>2, <2>3 DEF CommandFits, StageFits, Untouched, Steps
  <2>5. CallFits(i, q)
    BY <2>2, <2>3, <2>4 DEF CallFits, Went
  <2> QED  BY <1>1, <2>1, <2>2, <2>5 DEF AfterAi
<1>2. CASE r.setup.cmd = "ai-run"
  <2>1. r.codes = {} => Due(r.setup) \subseteq r.done
    <3> SUFFICES ASSUME r.codes = {}, NEW x \in Due(r.setup)
                 PROVE  x \in r.done
      OBVIOUS
    <3>1. Due(r.setup) = {<<"ai", k>> : k \in Keys(r.setup)}
      BY <1>2 DEF Due, Readers, Workers
    <3>2. PICK cat \in ToSet(CatsOf(r.setup)) : x = <<"ai", cat.key>>
      BY <3>1 DEF Keys
    <3>3. AiMet(r, cat)
      BY <1>2, <3>2 DEF AiMetBut
    <3>4. r.hit = {}
      BY <1>2 DEF CodesFit, Went, RateLimited
    <3> QED  BY <3>2, <3>3, <3>4 DEF AiMet
  <2>2. Accounted(r)
    BY <1>2, <2>1 DEF Accounted
  <2>3. AfterAi(r) = Ended(r)
    BY <1>2 DEF AfterAi
  <2> QED  BY <2>2, <2>3, EndFits, EndedRow DEF Went, Record
<1> QED
  BY <1>1, <1>2

\* Every category was published, or failed: the call can be accounted for.
LEMMA PublishAccounted ==
    ASSUME NEW i, NEW r, Went(i, r), Publishes(r.setup.cmd), AfterAiFits(r),
           \A cat \in ToSet(CatsOf(r.setup)) : <<"publish", cat.key>> \in r.done \cup r.hit
    PROVE  Accounted(r)
<1>1. r.codes = {} => Due(r.setup) \subseteq r.done
  <2> SUFFICES ASSUME r.codes = {}, NEW x \in Due(r.setup)
               PROVE  x \in r.done
    OBVIOUS
  <2>1. r.hit = {}
    BY DEF CodesFit, Went, RateLimited, Publishes
  <2>2. CASE \E k \in Keys(r.setup) : x = <<"publish", k>>
    BY <2>1, <2>2 DEF Keys
  <2>3. CASE x = <<"ingest", NoOne>> /\ r.setup.cmd = "run"
    BY <2>1, <2>3 DEF AfterAiFits, Ingested
  <2>4. CASE (\E k \in Keys(r.setup) : x = <<"ai", k>>) /\ r.setup.cmd = "run" /\ CfgOf(r.setup).ai
    <3>1. PICK cat \in ToSet(CatsOf(r.setup)) : x = <<"ai", cat.key>>
      BY <2>4 DEF Keys
    <3>2. AiMet(r, cat)
      BY <2>4, <3>1 DEF AfterAiFits, AiMetBut
    <3> QED  BY <2>1, <3>1, <3>2 DEF AiMet
  <2>5. \/ \E k \in Keys(r.setup) : x = <<"publish", k>>
        \/ x = <<"ingest", NoOne>> /\ r.setup.cmd = "run"
        \/ (\E k \in Keys(r.setup) : x = <<"ai", k>>) /\ r.setup.cmd = "run" /\ CfgOf(r.setup).ai
    BY DEF Due, Publishes, Readers, Workers
  <2> QED  BY <2>2, <2>3, <2>4, <2>5
<1>2. r.setup.cmd = "run" /\ Unprovided(r.setup) # {} => 78 \in r.codes
  <2> SUFFICES ASSUME r.setup.cmd = "run", NEW cat \in Unprovided(r.setup)
               PROVE  78 \in r.codes
    OBVIOUS
  <2>1. cat \in ToSet(CatsOf(r.setup)) /\ CfgOf(r.setup).ai
    BY DEF Unprovided
  <2>2. AiMet(r, cat)
    BY <2>1 DEF AfterAiFits, AiMetBut
  <2> QED  BY <2>2 DEF AiMet
<1> QED
  BY <1>1, <1>2 DEF Accounted, Publishes, AfterAiFits

\* After the last category a publish stage is over, but for its remote batch.
LEMMA AfterPublishStep ==
    ASSUME NEW i, NEW r, Went(i, r), Publishes(r.setup.cmd), AfterAiFits(r), PublishMetBut(r, {})
    PROVE  CallFits(i, AfterPublish(r)) /\ AfterPublish(r).pc \in {"batch", "ended"}
           /\ AfterPublish(r).setup = r.setup
<1>1. CASE r.batch # {}
  <2>1. PICK q : q = [r EXCEPT !.pc = "batch"]
    OBVIOUS
  <2>2. /\ IsCall(q) /\ q.pc = "batch" /\ q.setup = r.setup /\ q.done = r.done
        /\ q.hit = r.hit /\ q.codes = r.codes /\ q.seen = r.seen /\ q.wrote = r.wrote
        /\ q.batch = r.batch
    BY <2>1, PcRow DEF Record, Went
  <2>3. CodesFit(q) /\ BatchFits(q) /\ Reached(q)
    BY <2>2, SameMet DEF BatchFits, Went
  <2>4. CommandFits(q) /\ StageFits(q) /\ q.pc \in Steps
    BY <2>2, <2>3 DEF CommandFits, StageFits, Untouched, Steps
  <2>5. CallFits(i, q)
    BY <2>2, <2>3, <2>4 DEF CallFits, Went
  <2> QED  BY <1>1, <2>1, <2>2, <2>5 DEF AfterPublish
<1>2. CASE r.batch = {}
  <2>1. Accounted(r)
    BY <1>2, PublishAccounted DEF PublishMetBut
  <2>2. AfterPublish(r) = Ended(r)
    BY <1>2 DEF AfterPublish
  <2> QED  BY <2>1, <2>2, EndFits, EndedRow DEF Went, Record
<1> QED
  BY <1>1, <1>2

LEMMA EnterAiStep ==
    ASSUME CommandsAssumption, NEW i \in Invocations, NEW r, Went(i, r), r.batch = {},
           r.setup.cmd \in {"ai-run", "run"}, CfgOf(r.setup).ai, CatsOf(r.setup) # <<>>,
           r.setup.cmd = "run" => Ingested(r)
    PROVE  CallFits(i, Enter(r, "ai")) /\ Enter(r, "ai").pc = "ai"
           /\ Enter(r, "ai").setup = r.setup
<1>1. PICK q : q = Enter(r, "ai")
  OBVIOUS
<1>2. Record(q, "ai", r.setup, r.seen, CatsOf(r.setup), r.batch, r.done, r.hit, r.codes, r.wrote)
  <2>1. IsCall(r)
    BY DEF Went
  <2> QED  BY <1>1, <2>1, StepTodoRow DEF Enter
<1>3. /\ IsCall(q) /\ q.pc = "ai" /\ q.setup = r.setup /\ q.done = r.done /\ q.hit = r.hit
      /\ q.codes = r.codes /\ q.seen = r.seen /\ q.wrote = r.wrote /\ q.batch = r.batch
      /\ q.todo = CatsOf(r.setup)
  BY <1>2 DEF Record
<1>4. CodesFit(q) /\ Reached(q)
  BY <1>3, SameMet DEF Went
<1>5. Line(q)
  BY <1>3, SetupIs DEF Line, Went
<1>6. AiMetBut(q, ToSet(q.todo))
  BY <1>3 DEF AiMetBut
<1>7. AiFits(q)
  BY <1>3, <1>5, <1>6 DEF AiFits, Ingested
<1>8. CommandFits(q) /\ StageFits(q) /\ q.pc \in Steps
  BY <1>3, <1>7 DEF CommandFits, StageFits, Untouched, Steps
<1>9. CallFits(i, q)
  BY <1>3, <1>4, <1>8 DEF CallFits, Went
<1> QED
  BY <1>1, <1>3, <1>9

\* The rules of the publish stage come before its categories.
LEMMA ToRulesStep ==
    ASSUME NEW i, NEW r, Went(i, r), Publishes(r.setup.cmd), CatsOf(r.setup) # <<>>,
           AfterAiFits(r), r.batch = {}
    PROVE  LET q == [r EXCEPT !.pc = "rules"]
           IN  CallFits(i, q) /\ q.pc = "rules" /\ q.setup = r.setup
<1>1. PICK q : q = [r EXCEPT !.pc = "rules"]
  OBVIOUS
<1>2. /\ IsCall(q) /\ q.pc = "rules" /\ q.setup = r.setup /\ q.done = r.done /\ q.hit = r.hit
      /\ q.codes = r.codes /\ q.seen = r.seen /\ q.wrote = r.wrote /\ q.batch = r.batch
  BY <1>1, PcRow DEF Record, Went
<1>3. CodesFit(q) /\ Reached(q) /\ AfterAiFits(q)
  BY <1>2, SameMet DEF Went
<1>4. RulesFits(q)
  BY <1>2, <1>3 DEF RulesFits
<1>5. CommandFits(q) /\ StageFits(q) /\ q.pc \in Steps
  BY <1>2, <1>4 DEF CommandFits, StageFits, Untouched, Steps
<1>6. CallFits(i, q)
  BY <1>2, <1>3, <1>5 DEF CallFits, Went
<1> QED
  BY <1>1, <1>2, <1>6

LEMMA EnterPublishStep ==
    ASSUME CommandsAssumption, NEW i \in Invocations, NEW r, Went(i, r),
           Publishes(r.setup.cmd), CatsOf(r.setup) # <<>>, AfterAiFits(r)
    PROVE  CallFits(i, Enter(r, "publish")) /\ Enter(r, "publish").pc = "publish"
           /\ Enter(r, "publish").setup = r.setup
<1>1. PICK q : q = Enter(r, "publish")
  OBVIOUS
<1>2. Record(q, "publish", r.setup, r.seen, CatsOf(r.setup), r.batch, r.done, r.hit, r.codes,
             r.wrote)
  <2>1. IsCall(r)
    BY DEF Went
  <2> QED  BY <1>1, <2>1, StepTodoRow DEF Enter
<1>3. /\ IsCall(q) /\ q.pc = "publish" /\ q.setup = r.setup /\ q.done = r.done /\ q.hit = r.hit
      /\ q.codes = r.codes /\ q.seen = r.seen /\ q.wrote = r.wrote
      /\ q.todo = CatsOf(r.setup)
  BY <1>2 DEF Record
<1>4. CodesFit(q) /\ Reached(q) /\ AfterAiFits(q)
  BY <1>3, SameMet DEF Went
<1>5. Line(q)
  BY <1>3, SetupIs DEF Line, Went
<1>6. PublishMetBut(q, ToSet(q.todo))
  BY <1>3 DEF PublishMetBut
<1>7. PublishFits(q)
  BY <1>4, <1>5, <1>6 DEF PublishFits
<1>8. CommandFits(q) /\ StageFits(q) /\ q.pc \in Steps
  BY <1>3, <1>7 DEF CommandFits, StageFits, Untouched, Steps
<1>9. CallFits(i, q)
  BY <1>3, <1>4, <1>8 DEF CallFits, Went
<1> QED
  BY <1>1, <1>3, <1>9

\* What a category has met stays met.
LEMMA StaysMet ==
    ASSUME NEW f, NEW r, f.setup = r.setup,
           r.done \subseteq f.done, r.hit \subseteq f.hit, r.codes \subseteq f.codes
    PROVE  /\ \A cat : AiMet(r, cat) => AiMet(f, cat)
           /\ AfterAiFits(r) => AfterAiFits(f)
           /\ Ingested(r) => Ingested(f)
<1>1. \A cat : AiMet(r, cat) => AiMet(f, cat)
  BY DEF AiMet
<1>2. AfterAiFits(r) => AfterAiFits(f)
  BY <1>1 DEF AfterAiFits, AiMetBut, Ingested
<1> QED
  BY <1>1, <1>2 DEF Ingested

\* The category at the head of the line of r is done with in f.
LEMMA AiAdvances ==
    ASSUME CommandsAssumption, NEW i \in Invocations, NEW r, CallFits(i, r), r.pc = "ai",
           NEW f, IsCall(f), f.pc = "ai", f.setup = r.setup, f.seen = r.seen,
           f.todo = r.todo, f.batch = r.batch, CodesFit(f), Reached(f),
           r.done \subseteq f.done, r.hit \subseteq f.hit, r.codes \subseteq f.codes,
           AiMet(f, Head(r.todo))
    PROVE  LET q == Advanced(f, AfterAi)
           IN  CallFits(i, q) /\ q.pc \in {"ai", "preflight", "ended"} /\ q.setup = r.setup
<1>1. AiFits(r) /\ r.setup \in Setups[i] /\ Refusal(r.setup) = 0 /\ r.setup.cmd \in {"ai-run", "run"}
  BY DEF CallFits, StageFits, CommandFits, Silent
<1>2. PICK rest : rest = [f EXCEPT !.todo = Tail(f.todo)]
  OBVIOUS
<1>3. /\ IsCall(rest) /\ rest.pc = "ai" /\ rest.setup = r.setup /\ rest.done = f.done
      /\ rest.hit = f.hit /\ rest.codes = f.codes /\ rest.seen = f.seen /\ rest.wrote = f.wrote
      /\ rest.batch = r.batch /\ rest.todo = Tail(r.todo)
  <2>1. Record(rest, f.pc, f.setup, f.seen, Tail(f.todo), f.batch, f.done, f.hit, f.codes, f.wrote)
    BY <1>2, TodoRow
  <2> QED  BY <2>1 DEF Record
<1>4. CodesFit(rest) /\ Reached(rest)
  BY <1>3, SameMet
<1>5. /\ Tail(r.todo) \in Seq(ToSet(CatsOf(r.setup)))
      /\ ToSet(r.todo) = {Head(r.todo)} \cup ToSet(Tail(r.todo))
  <2>1. PICK X, q : X = ToSet(CatsOf(r.setup)) /\ q = r.todo
    OBVIOUS
  <2>2. q \in Seq(X) /\ q # <<>>
    BY <1>1, <2>1 DEF AiFits, Line
  <2>3. Tail(q) \in Seq(X) /\ ToSet(q) = {Head(q)} \cup ToSet(Tail(q))
    BY <2>2, Elements
  <2> QED  BY <2>1, <2>3
<1>6. \A cat \in ToSet(CatsOf(r.setup)) \ ToSet(Tail(r.todo)) : AiMet(rest, cat)
  <2> SUFFICES ASSUME NEW cat \in ToSet(CatsOf(r.setup)), cat \notin ToSet(Tail(r.todo))
               PROVE  AiMet(rest, cat)
    OBVIOUS
  <2>1. AiMet(f, cat)
    <3>1. CASE cat = Head(r.todo)
      BY <3>1
    <3>2. CASE cat # Head(r.todo)
      <4>1. AiMet(r, cat)
        BY <1>1, <1>5, <3>2 DEF AiFits, AiMetBut
      <4> QED  BY <4>1, StaysMet
    <3> QED  BY <3>1, <3>2
  <2> QED  BY <2>1, <1>3, StaysMet
<1>7. /\ r.setup.cmd = "run" => Ingested(rest)
      /\ CfgOf(r.setup).ai /\ rest.batch = {}
  BY <1>1, <1>3, StaysMet DEF AiFits
<1>8. Advanced(f, AfterAi) = IF rest.todo = <<>> THEN AfterAi(rest) ELSE rest
  BY <1>2 DEF Advanced
<1>9. CASE rest.todo = <<>>
  <2>1. AiMetBut(rest, {})
    <3>1. ToSet(Tail(r.todo)) = {}
      BY <1>3, <1>9, NoElements
    <3> QED  BY <1>3, <1>6, <3>1 DEF AiMetBut
  <2>2. Went(i, rest) /\ AfterAiFits(rest)
    BY <1>1, <1>3, <1>4, <1>7, <2>1 DEF Went, AfterAiFits
  <2>3. CallFits(i, AfterAi(rest)) /\ AfterAi(rest).pc \in {"preflight", "ended"}
        /\ AfterAi(rest).setup = rest.setup
    BY <1>1, <1>3, <1>7, <2>1, <2>2, AfterAiStep
  <2> QED  BY <1>3, <1>8, <1>9, <2>3
<1>10. CASE rest.todo # <<>>
  <2>1. AiFits(rest)
    BY <1>3, <1>5, <1>6, <1>7, <1>10 DEF AiFits, Line, AiMetBut
  <2>2. CommandFits(rest) /\ StageFits(rest) /\ rest.pc \in Steps
    BY <1>1, <1>3, <2>1 DEF CommandFits, StageFits, Untouched, Steps
  <2>3. CallFits(i, rest)
    BY <1>1, <1>3, <1>4, <2>2 DEF CallFits
  <2> QED  BY <1>3, <1>8, <1>10, <2>3
<1> QED
  BY <1>9, <1>10

LEMMA PublishAdvances ==
    ASSUME CommandsAssumption, NEW i \in Invocations, NEW r, CallFits(i, r), r.pc = "publish",
           NEW f, IsCall(f), f.pc = "publish", f.setup = r.setup, f.seen = r.seen,
           f.todo = r.todo, CodesFit(f), Reached(f), r.batch \subseteq f.batch,
           r.done \subseteq f.done, r.hit \subseteq f.hit, r.codes \subseteq f.codes,
           \/ <<"publish", Head(r.todo).key>> \in f.done \cup f.hit
           \/ Head(r.todo).key \in f.batch
    PROVE  LET q == Advanced(f, AfterPublish)
           IN  CallFits(i, q) /\ q.pc \in {"publish", "batch", "ended"} /\ q.setup = r.setup
<1>1. PublishFits(r) /\ r.setup \in Setups[i] /\ Refusal(r.setup) = 0 /\ Publishes(r.setup.cmd)
  BY DEF CallFits, StageFits, CommandFits, Silent
<1>2. PICK rest : rest = [f EXCEPT !.todo = Tail(f.todo)]
  OBVIOUS
<1>3. /\ IsCall(rest) /\ rest.pc = "publish" /\ rest.setup = r.setup /\ rest.done = f.done
      /\ rest.hit = f.hit /\ rest.codes = f.codes /\ rest.seen = f.seen /\ rest.wrote = f.wrote
      /\ rest.batch = f.batch /\ rest.todo = Tail(r.todo)
  <2>1. Record(rest, f.pc, f.setup, f.seen, Tail(f.todo), f.batch, f.done, f.hit, f.codes, f.wrote)
    BY <1>2, TodoRow
  <2> QED  BY <2>1 DEF Record
<1>4. CodesFit(rest) /\ Reached(rest)
  BY <1>3, SameMet
<1>5. /\ Tail(r.todo) \in Seq(ToSet(CatsOf(r.setup)))
      /\ ToSet(r.todo) = {Head(r.todo)} \cup ToSet(Tail(r.todo))
  <2>1. PICK X, q : X = ToSet(CatsOf(r.setup)) /\ q = r.todo
    OBVIOUS
  <2>2. q \in Seq(X) /\ q # <<>>
    BY <1>1, <2>1 DEF PublishFits, Line
  <2>3. Tail(q) \in Seq(X) /\ ToSet(q) = {Head(q)} \cup ToSet(Tail(q))
    BY <2>2, Elements
  <2> QED  BY <2>1, <2>3
<1>6. \A cat \in ToSet(CatsOf(r.setup)) \ ToSet(Tail(r.todo)) :
         <<"publish", cat.key>> \in rest.done \cup rest.hit \/ cat.key \in rest.batch
  <2> SUFFICES ASSUME NEW cat \in ToSet(CatsOf(r.setup)), cat \notin ToSet(Tail(r.todo))
               PROVE  <<"publish", cat.key>> \in rest.done \cup rest.hit \/ cat.key \in rest.batch
    OBVIOUS
  <2>1. CASE cat = Head(r.todo)
    BY <1>3, <2>1
  <2>2. CASE cat # Head(r.todo)
    <3>1. <<"publish", cat.key>> \in r.done \cup r.hit \/ cat.key \in r.batch
      BY <1>1, <1>5, <2>2 DEF PublishFits, PublishMetBut
    <3> QED  BY <1>3, <3>1
  <2> QED  BY <2>1, <2>2
<1>7. AfterAiFits(rest)
  BY <1>1, <1>3, StaysMet DEF PublishFits
<1>8. Advanced(f, AfterPublish) = IF rest.todo = <<>> THEN AfterPublish(rest) ELSE rest
  BY <1>2 DEF Advanced
<1>9. CASE rest.todo = <<>>
  <2>1. PublishMetBut(rest, {})
    <3>1. ToSet(Tail(r.todo)) = {}
      BY <1>3, <1>9, NoElements
    <3> QED  BY <1>3, <1>6, <3>1 DEF PublishMetBut
  <2>2. Went(i, rest)
    BY <1>1, <1>3, <1>4 DEF Went
  <2>3. CallFits(i, AfterPublish(rest)) /\ AfterPublish(rest).pc \in {"batch", "ended"}
        /\ AfterPublish(rest).setup = rest.setup
    BY <1>1, <1>3, <1>7, <2>1, <2>2, AfterPublishStep
  <2> QED  BY <1>3, <1>8, <1>9, <2>3
<1>10. CASE rest.todo # <<>>
  <2>1. PublishFits(rest)
    BY <1>3, <1>5, <1>6, <1>7, <1>10 DEF PublishFits, Line, PublishMetBut
  <2>2. CommandFits(rest) /\ StageFits(rest) /\ rest.pc \in Steps
    BY <1>1, <1>3, <2>1 DEF CommandFits, StageFits, Untouched, Steps
  <2>3. CallFits(i, rest)
    BY <1>1, <1>3, <1>4, <2>2 DEF CallFits
  <2> QED  BY <1>3, <1>8, <1>10, <2>3
<1> QED
  BY <1>9, <1>10

-----------------------------------------------------------------------------
(* One step of one call.                                                   *)

\* f is r with more in its books.
Booked(f, r, done, hit, codes) ==
    /\ IsCall(f) /\ f.pc = r.pc /\ f.setup = r.setup /\ f.seen = r.seen
    /\ f.todo = r.todo /\ f.batch = r.batch /\ f.wrote = r.wrote
    /\ f.done = r.done \cup done /\ f.hit = r.hit \cup hit /\ f.codes = r.codes \cup codes

LEMMA DidBooks ==
    ASSUME NEW r, IsCall(r), CodesFit(r), NEW what
    PROVE  Booked(Did(r, what), r, {what}, {}, {}) /\ CodesFit(Did(r, what))
<1>1. PICK f : f = Did(r, what)
  OBVIOUS
<1>2. Booked(f, r, {what}, {}, {})
  BY <1>1, DidRow DEF Record, Booked
<1>3. CodesFit(f)
  BY <1>2 DEF Booked, CodesFit, RateLimited, Told
<1> QED  BY <1>1, <1>2, <1>3

LEMMA HitBooks ==
    ASSUME NEW r, IsCall(r), CodesFit(r), NEW what, what # Refused
    PROVE  Booked(Hit(r, what), r, {}, {what}, {1}) /\ CodesFit(Hit(r, what))
<1>1. PICK f : f = Hit(r, what)
  OBVIOUS
<1>2. Booked(f, r, {}, {what}, {1})
  BY <1>1, HitWhatRow DEF Record, Booked
<1>3. CodesFit(f)
  BY <1>2 DEF Booked, CodesFit, Told
<1> QED  BY <1>1, <1>2, <1>3

LEMMA FailingBooks ==
    ASSUME NEW r, IsCall(r), CodesFit(r), NEW code \in {1, 2, 78},
           code = 78 =>
              /\ Blamed(r.setup)
              /\ ChecksFirst(r.setup) => ~r.wrote
    PROVE  Booked(Failing(r, code), r, {}, {}, {code}) /\ CodesFit(Failing(r, code))
<1>1. PICK f : f = Failing(r, code)
  OBVIOUS
<1>2. Booked(f, r, {}, {}, {code})
  BY <1>1, FailingRow DEF Record, Booked
<1>3. CodesFit(f)
  BY <1>2 DEF Booked, CodesFit, Told
<1> QED  BY <1>1, <1>2, <1>3

Busy == Steps \ {"idle", "crashed", "ended"}

\* What is known of a call that is under way.
LEMMA UnderWay ==
    ASSUME Inv, NEW i \in Invocations, call[i].pc \in Busy
    PROVE  LET r == call[i] IN
           /\ IsCall(r) /\ r.setup \in Setups[i] /\ Refusal(r.setup) = 0
           /\ CodesFit(r) /\ CommandFits(r) /\ StageFits(r)
           /\ r.pc \in Stages => Went(i, r) /\ r.setup.bin <= applied
BY DEF Inv, CallFits, Busy, Silent, Went, SchemaFits

LEMMA Moved ==
    ASSUME Inv, NEW i \in Invocations, NEW q, Becomes(i, q), UNCHANGED backend,
           CallFits(i, q), SchemaFits'
    PROVE  Inv'
<1>1. DOMAIN call' = Invocations /\ \A j \in Invocations : call'[j] = IF j = i THEN q ELSE call[j]
  BY DEF Inv, Becomes
<1>2. \A j \in Invocations : CallFits(j, call'[j])
  BY <1>1 DEF Inv
<1> QED
  BY <1>1, <1>2 DEF Inv

\* Most steps are about neither the migrations nor their lock.
LEMMA StageMoved ==
    ASSUME Inv, NEW i \in Invocations, NEW q, Becomes(i, q), UNCHANGED <<backend, applied, lock>>,
           CallFits(i, q), call[i].pc # "migrate", q.pc # "migrate",
           q.pc \in Stages => call[i].pc \in Stages /\ q.setup = call[i].setup
    PROVE  Inv'
<1>1. DOMAIN call' = Invocations /\ \A j \in Invocations : call'[j] = IF j = i THEN q ELSE call[j]
  BY DEF Inv, Becomes
<1>2. SchemaFits'
  BY <1>1 DEF Inv, SchemaFits
<1> QED
  BY <1>2, Moved

\* A call that has done nothing fails plainly.
LEMMA FreshFails ==
    ASSUME Inv, CommandsAssumption, NEW i \in Invocations, call[i].pc \in Busy, Fresh(call[i]),
           NEW what, what # Refused,
           \/ call[i].setup.cmd \notin {"ai-run", "publish-all"}
           \/ call[i].seen = 0
           \/ what = <<"open", NoOne>>
    PROVE  LET q == Ended(Hit(call[i], what)) IN CallFits(i, q) /\ q.pc = "ended"
<1>1. PICK r : r = call[i]
  OBVIOUS
<1>2. IsCall(r) /\ CodesFit(r) /\ r.setup \in Setups[i] /\ Fresh(r)
  BY <1>1, UnderWay
<1>3. PICK f : f = Hit(r, what)
  OBVIOUS
<1>4. Booked(f, r, {}, {what}, {1}) /\ CodesFit(f)
  BY <1>2, <1>3, HitBooks
<1>5. f.done = {} /\ f.codes # {} /\ f.setup = r.setup /\ IsCall(f) /\ what \in f.hit /\ f.seen = r.seen
  BY <1>2, <1>4 DEF Booked, Fresh
<1>6. r.setup.cmd \in {"ai-run", "publish-all"} => ~Reached(f)
  BY <1>1, <1>2, <1>5, SetupIs DEF Reached
<1>7. CallFits(i, Ended(f)) /\ Ended(f).pc = "ended"
  BY <1>2, <1>4, <1>5, <1>6, PlainEndFits
<1> QED
  BY <1>1, <1>3, <1>7

LEMMA FreshRefused ==
    ASSUME Inv, CommandsAssumption, NEW i \in Invocations, call[i].pc \in Busy, Fresh(call[i]),
           \/ call[i].setup.cmd \notin {"ai-run", "publish-all"}
           \/ call[i].seen = 0
    PROVE  LET q == Ended(Failing(call[i], 1)) IN CallFits(i, q) /\ q.pc = "ended"
<1>1. PICK r : r = call[i]
  OBVIOUS
<1>2. IsCall(r) /\ CodesFit(r) /\ r.setup \in Setups[i] /\ Fresh(r)
  BY <1>1, UnderWay
<1>3. PICK f : f = Failing(r, 1)
  OBVIOUS
<1>4. Booked(f, r, {}, {}, {1}) /\ CodesFit(f)
  BY <1>2, <1>3, FailingBooks
<1>5. f.done = {} /\ f.codes # {} /\ f.setup = r.setup /\ IsCall(f) /\ f.seen = r.seen
  BY <1>2, <1>4 DEF Booked, Fresh
<1>6. r.setup.cmd \in {"ai-run", "publish-all"} => ~Reached(f)
  BY <1>1, <1>2, <1>5, SetupIs DEF Reached
<1>7. CallFits(i, Ended(f)) /\ Ended(f).pc = "ended"
  BY <1>2, <1>4, <1>5, <1>6, PlainEndFits
<1> QED
  BY <1>1, <1>3, <1>7

\* It is through with all it owes.
LEMMA FreshDone ==
    ASSUME Inv, NEW i \in Invocations, call[i].pc \in Busy, Fresh(call[i]), NEW what,
           Due(call[i].setup) = {what}, call[i].setup.cmd \notin {"run", "ai-run", "publish-all"}
    PROVE  LET q == Ended(Did(call[i], what)) IN CallFits(i, q) /\ q.pc = "ended"
<1>1. PICK r : r = call[i]
  OBVIOUS
<1>2. IsCall(r) /\ CodesFit(r) /\ r.setup \in Setups[i] /\ Fresh(r)
  BY <1>1, UnderWay
<1>3. PICK f : f = Did(r, what)
  OBVIOUS
<1>4. Booked(f, r, {what}, {}, {}) /\ CodesFit(f)
  BY <1>2, <1>3, DidBooks
<1>5. what \in f.done /\ f.setup = r.setup /\ IsCall(f)
  BY <1>4 DEF Booked
<1>6. CallFits(i, Ended(f)) /\ Ended(f).pc = "ended"
  BY <1>1, <1>2, <1>4, <1>5, PlainEndFits
<1> QED
  BY <1>1, <1>3, <1>6

LEMMA EntryIs ==
    ASSUME NEW cmd
    PROVE  /\ Entry(cmd) \in {"ended", "read", "probe", "gate", "open"}
           /\ Entry(cmd) = "ended" <=> cmd = "validate-config"
           /\ Entry(cmd) = "read" => Reads(cmd)
           /\ Entry(cmd) = "probe" => cmd \in Doctors
           /\ Entry(cmd) = "gate" => cmd = "migrate run"
           /\ Entry(cmd) = "open" => Migrates(cmd)
<1>1. CASE cmd = "validate-config"
  BY <1>1 DEF Entry, Readers, Doctors, Reads, Migrates
<1>2. CASE cmd \in Readers \cup {"migrate check"}
  BY <1>2 DEF Entry, Readers, Doctors, Reads, Migrates
<1>3. CASE cmd \in Doctors
  BY <1>3 DEF Entry, Readers, Doctors, Reads, Migrates
<1>4. CASE cmd = "migrate run"
  BY <1>4 DEF Entry, Readers, Doctors, Reads, Migrates
<1>5. CASE cmd \notin Readers \cup {"migrate check"} \cup Doctors \cup {"validate-config", "migrate run"}
  <2>1. Entry(cmd) = "open"
    BY <1>5 DEF Entry, Readers, Doctors
  <2> QED  BY <1>5, <2>1 DEF Reads, Migrates
<1> QED
  BY <1>1, <1>2, <1>3, <1>4, <1>5

\* A call begins: it is refused, or goes where its command leads.
LEMMA StartStep ==
    ASSUME CommandsAssumption, Inv, NEW i \in Invocations, Start(i)
    PROVE  Inv'
<1>1. PICK s \in Setups[i] :
         Becomes(i, IF Refusal(s) # 0 THEN Ended(Failing(Called(s, "ended"), Refusal(s)))
                                      ELSE Called(s, Entry(s.cmd)))
  BY Zenon DEF Start
<1>2. call[i].pc = "idle" /\ UNCHANGED <<backend, applied, lock>>
  BY DEF Start
<1>3. PICK c : c = Refusal(s)
  OBVIOUS
<1>4. c \in {0, 1, 2, 78} /\ s.bin > 0 /\ s.bin \in Nat
  BY <1>3, RefusalIs, SetupIs
<1>5. CASE c # 0
  <2>1. PICK r : r = Called(s, "ended")
    OBVIOUS
  <2>2. /\ IsCall(r) /\ r.setup = s /\ r.seen = 0 /\ r.done = {} /\ r.hit = {} /\ r.codes = {}
        /\ r.wrote = FALSE
    <3>1. Record(r, "ended", s, 0, <<>>, {}, {}, {}, {}, FALSE)
      BY <2>1, CalledRow
    <3> QED  BY <3>1 DEF Record
  <2>3. CodesFit(r)
    BY <2>2 DEF CodesFit
  <2>4. c \in {1, 2, 78} /\ (c = 78 => Blamed(s))
    BY <1>3, <1>4, <1>5, RefusalBlamed
  <2>5. PICK f : f = Failing(r, c)
    OBVIOUS
  <2>6. Booked(f, r, {}, {}, {c}) /\ CodesFit(f)
    BY <2>2, <2>3, <2>4, <2>5, FailingBooks
  <2>7. f.done = {} /\ f.codes # {} /\ f.setup = s /\ IsCall(f) /\ f.seen = 0
    BY <2>2, <2>6 DEF Booked
  <2>8. ~Reached(f)
    BY <1>4, <2>7 DEF Reached
  <2>9. CallFits(i, Ended(f)) /\ Ended(f).pc = "ended"
    BY <2>6, <2>7, <2>8, PlainEndFits
  <2>10. Becomes(i, Ended(f))
    BY <1>1, <1>3, <1>5, <2>1, <2>5
  <2> QED  BY <1>2, <2>9, <2>10, StageMoved DEF Stages
<1>6. CASE c = 0
  <2>1. PICK q : q = Called(s, Entry(s.cmd))
    OBVIOUS
  <2>2. /\ IsCall(q) /\ q.setup = s /\ q.seen = 0 /\ q.done = {} /\ q.hit = {} /\ q.codes = {}
        /\ q.batch = {} /\ q.pc = Entry(s.cmd) /\ q.exit = 0
    <3>1. Record(q, Entry(s.cmd), s, 0, <<>>, {}, {}, {}, {}, FALSE) /\ q.exit = 0
      BY <2>1, CalledRow
    <3> QED  BY <3>1 DEF Record
  <2>3. CodesFit(q) /\ Fresh(q)
    BY <2>2 DEF CodesFit, Fresh
  <2>4. q.pc \in {"ended", "read", "probe", "gate", "open"}
    BY <2>2, EntryIs
  <2>5. q.pc = "ended" => EndedFits(q)
    <3> SUFFICES ASSUME q.pc = "ended"
                 PROVE  EndedFits(q)
      OBVIOUS
    <3>1. s.cmd = "validate-config"
      BY <2>2, EntryIs
    <3>2. Due(s) = {}
      BY <3>1 DEF Due, Readers, Workers
    <3>3. Worst({}) = 0
      BY WorstIs
    <3> QED  BY <2>2, <3>1, <3>2, <3>3 DEF EndedFits, Accounted
  <2>6. CommandFits(q)
    BY <2>2, <2>4, EntryIs DEF CommandFits
  <2>7. StageFits(q) /\ q.pc \notin Stages /\ q.pc \in Steps
    BY <2>2, <2>3, <2>4, <2>5 DEF StageFits, Stages, Steps
  <2>8. CallFits(i, q)
    BY <1>3, <1>6, <2>2, <2>3, <2>6, <2>7 DEF CallFits
  <2>9. Becomes(i, q)
    BY <1>1, <1>3, <1>6, <2>1
  <2> QED  BY <1>2, <2>4, <2>7, <2>8, <2>9, StageMoved
<1> QED
  BY <1>4, <1>5, <1>6

LEMMA OpenForReadingStep ==
    ASSUME CommandsAssumption, Inv, NEW i \in Invocations, OpenForReading(i)
    PROVE  Inv'
<1>1. PICK r : r = call[i]
  OBVIOUS
<1>2. r.pc = "read" /\ UNCHANGED <<backend, applied, lock>> /\ applied \in Nat
  BY <1>1 DEF OpenForReading, Inv, SchemaFits
<1>3. IsCall(r) /\ CodesFit(r) /\ r.setup \in Setups[i] /\ Fresh(r) /\ Reads(r.setup.cmd)
  BY <1>1, <1>2, UnderWay DEF Busy, Steps, StageFits, CommandFits, Untouched
<1>4. r.setup.cmd \notin {"run", "ai-run", "publish-all"} /\ Due(r.setup) = {<<"read", NoOne>>}
  BY <1>3 DEF Reads, Readers, Workers, Due
<1>5. PICK f, q : f = Did(r, <<"read", NoOne>>) /\ q = [f EXCEPT !.seen = applied]
  OBVIOUS
<1>6. Booked(f, r, {<<"read", NoOne>>}, {}, {}) /\ CodesFit(f)
  BY <1>3, <1>5, DidBooks
<1>7. Record(q, f.pc, f.setup, applied, f.todo, f.batch, f.done, f.hit, f.codes, f.wrote)
  BY <1>2, <1>5, <1>6, SeenRow DEF Booked
<1>8. /\ IsCall(q) /\ q.setup = r.setup /\ q.done = f.done /\ q.hit = f.hit /\ q.codes = f.codes
      /\ q.wrote = f.wrote /\ f.setup = r.setup /\ <<"read", NoOne>> \in f.done
  BY <1>6, <1>7 DEF Record, Booked
<1>9. CodesFit(q)
  BY <1>6, <1>8, SameMet
<1>10. CallFits(i, Ended(q)) /\ Ended(q).pc = "ended"
  BY <1>3, <1>4, <1>8, <1>9, PlainEndFits
<1>11. CallFits(i, Ended(Failing(r, 1))) /\ Ended(Failing(r, 1)).pc = "ended"
  BY <1>1, <1>2, <1>3, <1>4, FreshRefused DEF Busy, Steps
<1>12. Becomes(i, Ended(q)) \/ Becomes(i, Ended(Failing(r, 1)))
  BY <1>1, <1>5 DEF OpenForReading
<1> QED
  BY <1>1, <1>2, <1>10, <1>11, <1>12, StageMoved DEF Stages

LEMMA GateStep ==
    ASSUME CommandsAssumption, Inv, NEW i \in Invocations, Gate(i)
    PROVE  Inv'
<1>1. PICK r : r = call[i]
  OBVIOUS
<1>2. r.pc = "gate" /\ UNCHANGED <<backend, applied, lock>>
  BY <1>1 DEF Gate
<1>3. /\ IsCall(r) /\ CodesFit(r) /\ r.setup \in Setups[i] /\ Fresh(r) /\ r.setup.cmd = "migrate run"
      /\ r.seen = 0 /\ Refusal(r.setup) = 0
  BY <1>1, <1>2, UnderWay DEF Busy, Steps, StageFits, CommandFits, Untouched
<1>4. CallFits(i, Ended(Failing(r, 1))) /\ Ended(Failing(r, 1)).pc = "ended"
  BY <1>1, <1>2, <1>3, FreshRefused DEF Busy, Steps
<1>5. PICK q : q = [r EXCEPT !.pc = "open"]
  OBVIOUS
<1>6. /\ IsCall(q) /\ q.pc = "open" /\ q.setup = r.setup /\ q.done = r.done /\ q.hit = r.hit
      /\ q.codes = r.codes /\ q.wrote = r.wrote /\ q.batch = r.batch /\ q.seen = r.seen
  <2>1. Record(q, "open", r.setup, r.seen, r.todo, r.batch, r.done, r.hit, r.codes, r.wrote)
    BY <1>3, <1>5, PcRow
  <2> QED  BY <2>1 DEF Record
<1>7. CodesFit(q) /\ Fresh(q)
  BY <1>3, <1>6, SameMet DEF Fresh
<1>8. CommandFits(q) /\ StageFits(q) /\ q.pc \notin Stages /\ q.pc \in Steps
  BY <1>3, <1>6, <1>7 DEF CommandFits, StageFits, Stages, Steps, Migrates, Reads, Readers, Doctors
<1>9. CallFits(i, q)
  BY <1>3, <1>6, <1>7, <1>8 DEF CallFits
<1>10. Becomes(i, q) \/ Becomes(i, Ended(Failing(r, 1)))
  BY <1>1, <1>5 DEF Gate
<1> QED
  BY <1>1, <1>2, <1>4, <1>6, <1>9, <1>10, StageMoved DEF Stages

LEMMA OpenStep ==
    ASSUME CommandsAssumption, Inv, NEW i \in Invocations, Open(i)
    PROVE  Inv'
<1>1. PICK r : r = call[i]
  OBVIOUS
<1>2. r.pc = "open" /\ UNCHANGED <<backend, applied>> /\ applied \in Nat
  BY <1>1 DEF Open, Inv, SchemaFits
<1>3. /\ IsCall(r) /\ CodesFit(r) /\ r.setup \in Setups[i] /\ Fresh(r) /\ Migrates(r.setup.cmd)
      /\ r.seen = 0 /\ Refusal(r.setup) = 0
  BY <1>1, <1>2, UnderWay DEF Busy, Steps, StageFits, CommandFits, Untouched
<1>4. CASE applied > r.setup.bin
  <2>1. CallFits(i, Ended(Failing(r, 1))) /\ Ended(Failing(r, 1)).pc = "ended"
    BY <1>1, <1>2, <1>3, FreshRefused DEF Busy, Steps
  <2>2. Becomes(i, Ended(Failing(r, 1))) /\ UNCHANGED lock
    BY <1>1, <1>4 DEF Open
  <2> QED  BY <1>1, <1>2, <2>1, <2>2, StageMoved DEF Stages
<1>5. CASE ~(applied > r.setup.bin)
  <2>1. PICK q : q = [r EXCEPT !.pc = "migrate", !.seen = applied]
    OBVIOUS
  <2>2. Record(q, "migrate", r.setup, applied, r.todo, r.batch, r.done, r.hit, r.codes, r.wrote)
    BY <1>2, <1>3, <2>1, StepSeenRow
  <2>3. /\ IsCall(q) /\ q.pc = "migrate" /\ q.setup = r.setup /\ q.done = r.done /\ q.hit = r.hit
        /\ q.codes = r.codes /\ q.wrote = r.wrote /\ q.batch = r.batch /\ q.seen = applied
    BY <2>2 DEF Record
  <2>4. CodesFit(q) /\ Fresh(q)
    BY <1>3, <2>3, SameMet DEF Fresh
  <2>5. CommandFits(q) /\ StageFits(q) /\ q.pc \notin Stages /\ q.pc \in Steps
    BY <1>3, <2>3, <2>4 DEF CommandFits, StageFits, Stages, Steps
  <2>6. CallFits(i, q)
    BY <1>3, <2>3, <2>4, <2>5 DEF CallFits
  <2>7. /\ Becomes(i, q) /\ (backend = "postgres" => lock = NoOne)
        /\ lock' = IF backend = "postgres" THEN i ELSE lock
    BY <1>1, <1>5, <2>1 DEF Open
  <2>8. applied <= r.setup.bin /\ r.setup.bin \in Nat
    BY <1>2, <1>3, <1>5, SetupIs
  <2>9. \A j \in Invocations : call'[j] = IF j = i THEN q ELSE call[j]
    BY <2>7 DEF Inv, Becomes
  <2>10. NoOne \notin Invocations /\ backend \in {"sqlite", "postgres"}
    BY DEF CommandsAssumption, Inv
  <2>11. SchemaFits'
    BY <1>2, <2>3, <2>7, <2>8, <2>9, <2>10 DEF Inv, SchemaFits, Stages
  <2> QED  BY <1>2, <2>6, <2>7, <2>11, Moved
<1> QED
  BY <1>4, <1>5

LEMMA MigrateStep ==
    ASSUME CommandsAssumption, Inv, NEW i \in Invocations, Migrate(i)
    PROVE  Inv'
<1>1. PICK r : r = call[i]
  OBVIOUS
<1>2. /\ r.pc = "migrate" /\ r.seen < r.setup.bin /\ UNCHANGED backend
      /\ applied \in Nat /\ NoOne \notin Invocations /\ backend \in {"sqlite", "postgres"}
  BY <1>1 DEF Migrate, Inv, SchemaFits, CommandsAssumption
<1>3. /\ IsCall(r) /\ CodesFit(r) /\ r.setup \in Setups[i] /\ Fresh(r) /\ Migrates(r.setup.cmd)
      /\ Refusal(r.setup) = 0
  BY <1>1, <1>2, UnderWay DEF Busy, Steps, StageFits, CommandFits, Untouched
<1>4. r.setup.bin \in Nat /\ r.seen \in Nat
  BY <1>3, SetupIs DEF IsCall
<1>5. CASE Becomes(i, [r EXCEPT !.seen = applied + 1, !.wrote = TRUE])
           /\ applied = r.seen /\ applied' = applied + 1 /\ UNCHANGED lock
  <2>1. PICK q : q = [r EXCEPT !.seen = applied + 1, !.wrote = TRUE]
    OBVIOUS
  <2>2. Record(q, r.pc, r.setup, applied + 1, r.todo, r.batch, r.done, r.hit, r.codes, TRUE)
    <3>1. applied + 1 \in Nat
      BY <1>2
    <3> QED  BY <1>3, <2>1, <3>1, AppliedRow
  <2>3. /\ IsCall(q) /\ q.pc = "migrate" /\ q.setup = r.setup /\ q.done = r.done /\ q.hit = r.hit
        /\ q.codes = r.codes /\ q.batch = r.batch /\ q.seen = applied + 1
    BY <1>2, <2>2 DEF Record
  <2>4. CodesFit(q) /\ Fresh(q)
    BY <1>3, <2>3 DEF Fresh, CodesFit
  <2>5. CommandFits(q) /\ StageFits(q) /\ q.pc \notin Stages /\ q.pc \in Steps
    BY <1>3, <2>3, <2>4 DEF CommandFits, StageFits, Stages, Steps
  <2>6. CallFits(i, q)
    BY <1>3, <2>3, <2>4, <2>5 DEF CallFits
  <2>7. \A j \in Invocations : call'[j] = IF j = i THEN q ELSE call[j]
    BY <1>5, <2>1 DEF Inv, Becomes
  <2>8. SchemaFits'
    <3>1. applied' \in Nat /\ lock' \in Invocations \cup {NoOne} /\ (backend' = "sqlite" => lock' = NoOne)
      BY <1>2, <1>5 DEF Inv, SchemaFits
    <3>2. ASSUME NEW j \in Invocations, j # i
          PROVE  /\ lock' = j => call'[j].pc = "migrate" /\ backend' = "postgres"
                 /\ call'[j].pc = "migrate" =>
                       /\ call'[j].seen <= applied' /\ call'[j].seen <= call'[j].setup.bin
                       /\ backend' = "postgres" => lock' = j /\ call'[j].seen = applied'
                 /\ call'[j].pc \in Stages => call'[j].setup.bin <= applied'
      <4>1. call'[j] = call[j] /\ IsCall(call[j])
        BY <2>7, <3>2 DEF Inv, CallFits
      <4>2. lock = j => call[j].pc = "migrate" /\ backend = "postgres"
        BY DEF Inv, SchemaFits
      <4>3. backend = "postgres" => lock = i
        BY <1>1, <1>2 DEF Inv, SchemaFits
      <4>4. call[j].pc = "migrate" =>
               /\ call[j].seen <= applied /\ call[j].seen <= call[j].setup.bin
               /\ backend = "postgres" => lock = j
        BY DEF Inv, SchemaFits
      <4>5. call[j].pc = "migrate" => call[j].seen <= applied'
        BY <1>2, <1>5, <4>1, <4>4 DEF IsCall
      <4>6. call[j].pc \in Stages => call[j].setup.bin <= applied'
        <5> SUFFICES ASSUME call[j].pc \in Stages
                     PROVE  call[j].setup.bin <= applied'
          OBVIOUS
        <5>1. call[j].setup.bin <= applied /\ call[j].setup \in Setups[j]
          BY DEF Inv, SchemaFits, CallFits, Stages, Silent
        <5>2. call[j].setup.bin \in Nat
          BY <5>1, SetupIs
        <5> QED  BY <5>1, <5>2, <1>2, <1>5
      <4> QED  BY <1>2, <1>5, <3>2, <4>1, <4>2, <4>3, <4>4, <4>5, <4>6
    <3>3. /\ lock' = i => call'[i].pc = "migrate" /\ backend' = "postgres"
          /\ call'[i].pc = "migrate" =>
                /\ call'[i].seen <= applied' /\ call'[i].seen <= call'[i].setup.bin
                /\ backend' = "postgres" => lock' = i /\ call'[i].seen = applied'
          /\ call'[i].pc \in Stages => call'[i].setup.bin <= applied'
      <4>1. lock = i => backend = "postgres"
        BY DEF Inv, SchemaFits
      <4>2. backend = "postgres" => lock = i
        BY <1>1, <1>2 DEF Inv, SchemaFits
      <4>3. call'[i] = q /\ applied + 1 <= r.setup.bin /\ applied + 1 <= applied'
        BY <1>2, <1>4, <1>5, <2>7
      <4> QED  BY <1>2, <1>5, <2>3, <2>5, <4>1, <4>2, <4>3
    <3> QED  BY <3>1, <3>2, <3>3 DEF SchemaFits
  <2> QED  BY <1>2, <1>5, <2>1, <2>6, <2>8, Moved
<1>6. CASE Becomes(i, Ended(Hit(r, <<"open", NoOne>>))) /\ lock' = Unlocked(i) /\ UNCHANGED applied
  <2>1. PICK q : q = Ended(Hit(r, <<"open", NoOne>>))
    OBVIOUS
  <2>2. CallFits(i, q) /\ q.pc = "ended"
    BY <1>1, <1>2, <1>3, <2>1, FreshFails DEF Busy, Steps, Refused
  <2>3. \A j \in Invocations : call'[j] = IF j = i THEN q ELSE call[j]
    BY <1>6, <2>1 DEF Inv, Becomes
  <2>4. SchemaFits'
    BY <1>1, <1>2, <1>6, <2>2, <2>3 DEF Inv, SchemaFits, Stages, Unlocked
  <2> QED  BY <1>2, <1>6, <2>1, <2>2, <2>4, Moved
<1> QED
  BY <1>1, <1>5, <1>6 DEF Migrate

LEMMA FirstStageIs ==
    ASSUME NEW cmd
    PROVE  /\ FirstStage(cmd) \in {"ended", "ingest", "ai", "rules", "work"}
           /\ FirstStage(cmd) = "ended" <=> cmd = "migrate run"
           /\ FirstStage(cmd) = "ingest" => cmd \in {"ingest", "run"}
           /\ FirstStage(cmd) = "ai" => cmd = "ai-run"
           /\ FirstStage(cmd) = "rules" => cmd \in {"publish", "publish-all"}
           /\ cmd = "publish-all" => FirstStage(cmd) = "rules"
           /\ cmd = "ai-run" => FirstStage(cmd) = "ai"
           /\ cmd = "run" => FirstStage(cmd) = "ingest"
<1>1. CASE cmd \in {"ingest", "run"}
  BY <1>1 DEF FirstStage
<1>2. CASE cmd = "ai-run"
  BY <1>2 DEF FirstStage
<1>3. CASE cmd \in {"publish", "publish-all"}
  BY <1>3 DEF FirstStage
<1>4. CASE cmd = "migrate run"
  BY <1>4 DEF FirstStage
<1>5. CASE cmd \notin {"ingest", "run", "ai-run", "publish", "publish-all", "migrate run"}
  BY <1>5 DEF FirstStage
<1> QED
  BY <1>1, <1>2, <1>3, <1>4, <1>5

\* The migrations are done: the first stage begins on them.
LEMMA MigratedStep ==
    ASSUME CommandsAssumption, Inv, NEW i \in Invocations, Migrated(i)
    PROVE  Inv'
<1>1. PICK b : b = call[i]
  OBVIOUS
<1>2. /\ b.pc = "migrate" /\ b.seen = b.setup.bin /\ UNCHANGED <<backend, applied>>
      /\ lock' = Unlocked(i) /\ NoOne \notin Invocations
  BY <1>1 DEF Migrated, CommandsAssumption
<1>3. /\ IsCall(b) /\ CodesFit(b) /\ b.setup \in Setups[i] /\ Fresh(b) /\ Migrates(b.setup.cmd)
      /\ Refusal(b.setup) = 0
  BY <1>1, <1>2, UnderWay DEF Busy, Steps, StageFits, CommandFits, Untouched
<1>4. ASSUME NEW q, Becomes(i, q), CallFits(i, q), q.pc # "migrate", q.setup = b.setup
      PROVE  Inv'
  <2>1. \A j \in Invocations : call'[j] = IF j = i THEN q ELSE call[j]
    BY <1>4 DEF Inv, Becomes
  <2>2. b.setup.bin <= applied
    BY <1>1, <1>2 DEF Inv, SchemaFits
  <2>3. SchemaFits'
    BY <1>1, <1>2, <1>4, <2>1, <2>2 DEF Inv, SchemaFits, Unlocked
  <2> QED  BY <1>2, <1>4, <2>3, Moved
<1>5. PICK cmd : cmd = b.setup.cmd
  OBVIOUS
<1>6. PICK r : r = [call[i] EXCEPT !.wrote = @ \/ call[i].setup.cmd # "migrate run"]
  OBVIOUS
<1>7. /\ IsCall(r) /\ r.pc = "migrate" /\ r.setup = b.setup /\ r.done = {} /\ r.hit = {}
      /\ r.codes = {} /\ r.batch = {} /\ r.seen = b.seen
  <2>1. (b.wrote \/ cmd # "migrate run") \in BOOLEAN
    OBVIOUS
  <2>2. Record(r, b.pc, b.setup, b.seen, b.todo, b.batch, b.done, b.hit, b.codes,
               b.wrote \/ cmd # "migrate run")
    BY <1>1, <1>3, <1>5, <1>6, <2>1, WroteRow
  <2> QED  BY <1>2, <1>3, <2>2 DEF Record, Fresh
<1>8. CodesFit(r) /\ Reached(r) /\ Went(i, r)
  BY <1>2, <1>3, <1>7 DEF CodesFit, Reached, Went
<1>9. ASSUME Becomes(i, Ended(Did(r, <<"open", NoOne>>))), FirstStage(cmd) = "ended"
      PROVE  Inv'
  <2>1. PICK f : f = Did(r, <<"open", NoOne>>)
    OBVIOUS
  <2>2. Booked(f, r, {<<"open", NoOne>>}, {}, {}) /\ CodesFit(f)
    BY <1>7, <1>8, <2>1, DidBooks
  <2>3. IsCall(f) /\ f.setup = b.setup /\ <<"open", NoOne>> \in f.done
    BY <1>7, <2>2 DEF Booked
  <2>4. cmd = "migrate run"
    BY <1>9, FirstStageIs
  <2>5. Due(b.setup) = {<<"open", NoOne>>}
    BY <1>5, <2>4 DEF Due, Readers, Workers
  <2>6. CallFits(i, Ended(f)) /\ Ended(f).pc = "ended"
    BY <1>3, <1>5, <2>2, <2>3, <2>4, <2>5, PlainEndFits
  <2>7. Ended(f).setup = b.setup
    BY <2>3, EndedRow DEF Record
  <2> QED  BY <1>4, <1>9, <2>1, <2>6, <2>7
<1>10. ASSUME Becomes(i, Ended(Hit(b, <<"open", NoOne>>)))
       PROVE  Inv'
  <2>1. PICK q : q = Ended(Hit(b, <<"open", NoOne>>))
    OBVIOUS
  <2>2. CallFits(i, q) /\ q.pc = "ended"
    BY <1>1, <1>2, <1>3, <2>1, FreshFails DEF Busy, Steps, Refused
  <2>3. q.setup = b.setup
    <3>1. PICK f : f = Hit(b, <<"open", NoOne>>)
      OBVIOUS
    <3>2. IsCall(f) /\ f.setup = b.setup
      BY <1>3, <3>1, HitWhatRow DEF Record
    <3> QED  BY <2>1, <3>1, <3>2, EndedRow DEF Record
  <2> QED  BY <1>4, <1>10, <2>1, <2>2, <2>3
<1>11. ASSUME Becomes(i, Enter(r, "ai")), FirstStage(cmd) = "ai"
       PROVE  Inv'
  <2>1. cmd = "ai-run" /\ CfgOf(b.setup).ai /\ CatsOf(b.setup) # <<>>
    BY <1>3, <1>5, <1>11, FirstStageIs, RefusalIs
  <2>2. CallFits(i, Enter(r, "ai")) /\ Enter(r, "ai").pc = "ai" /\ Enter(r, "ai").setup = r.setup
    BY <1>5, <1>7, <1>8, <2>1, EnterAiStep
  <2> QED  BY <1>4, <1>7, <1>11, <2>2
<1>12. ASSUME Becomes(i, [r EXCEPT !.pc = "rules"]), FirstStage(cmd) = "rules"
       PROVE  Inv'
  <2>1. cmd \in {"publish", "publish-all"}
    BY <1>12, FirstStageIs
  <2>2. CatsOf(b.setup) # <<>>
    <3>1. PICK l : l = CatsOf(b.setup)
      OBVIOUS
    <3>2. l # <<>> \/ Len(l) = 1
      BY <1>3, <1>5, <2>1, <3>1, RefusalIs
    <3>3. l # <<>>
      BY <3>2
    <3> QED  BY <3>1, <3>3
  <2>3. AfterAiFits(r) /\ Publishes(cmd)
    BY <1>5, <1>7, <2>1 DEF AfterAiFits, Publishes
  <2>4. PICK q : q = [r EXCEPT !.pc = "rules"]
    OBVIOUS
  <2>5. CallFits(i, q) /\ q.pc = "rules" /\ q.setup = r.setup
    BY <1>5, <1>7, <1>8, <2>2, <2>3, <2>4, ToRulesStep
  <2> QED  BY <1>4, <1>7, <1>12, <2>4, <2>5
<1>13. ASSUME NEW pc, pc = FirstStage(cmd), Becomes(i, [r EXCEPT !.pc = pc]), pc \in {"ingest", "work"}
       PROVE  Inv'
  <2>1. PICK q : q = [r EXCEPT !.pc = pc]
    OBVIOUS
  <2>2. Record(q, pc, r.setup, r.seen, r.todo, r.batch, r.done, r.hit, r.codes, r.wrote)
    BY <1>7, <2>1, PcRow
  <2>3. /\ IsCall(q) /\ q.pc = pc /\ q.setup = b.setup /\ q.done = r.done /\ q.hit = r.hit
        /\ q.codes = r.codes /\ q.batch = r.batch /\ q.seen = r.seen /\ q.wrote = r.wrote
    BY <1>7, <2>2 DEF Record
  <2>4. CodesFit(q) /\ Reached(q) /\ Fresh(q)
    BY <1>7, <1>8, <2>3, SameMet DEF Fresh
  <2>5. CommandFits(q)
    BY <1>3, <1>5, <1>13, <2>3, FirstStageIs DEF CommandFits
  <2>6. StageFits(q) /\ q.pc \in Steps /\ q.pc # "migrate"
    BY <1>13, <2>3, <2>4 DEF StageFits, Steps
  <2>7. CallFits(i, q)
    BY <1>3, <2>3, <2>4, <2>5, <2>6 DEF CallFits
  <2> QED  BY <1>4, <1>13, <2>1, <2>3, <2>6, <2>7
<1>14. \/ Becomes(i, CASE FirstStage(cmd) = "ended" -> Ended(Did(r, <<"open", NoOne>>))
                       [] FirstStage(cmd) = "ai" -> Enter(r, "ai")
                       [] OTHER -> [r EXCEPT !.pc = FirstStage(cmd)])
       \/ Becomes(i, Ended(Hit(b, <<"open", NoOne>>)))
  BY <1>1, <1>5, <1>6, Zenon DEF Migrated
<1>15. FirstStage(cmd) \in {"ended", "ingest", "ai", "rules", "work"}
  BY FirstStageIs
<1> QED
  BY <1>9, <1>10, <1>11, <1>12, <1>13, <1>14, <1>15

\* run goes on after ingest unless it returned an error; ingest is over.
LEMMA AfterIngestStep ==
    ASSUME CommandsAssumption, NEW i \in Invocations, NEW f, NEW failed \in BOOLEAN,
           Went(i, f), f.batch = {}, f.setup.cmd \in {"ingest", "run"}, Ingested(f),
           failed => f.codes # {} /\ <<"ingest", NoOne>> \notin f.done,
           f.codes = {} => <<"ingest", NoOne>> \in f.done
    PROVE  LET q == AfterIngest(f, failed)
           IN  CallFits(i, q) /\ q.pc \in {"ended", "ai", "preflight"} /\ q.setup = f.setup
<1>1. CASE failed \/ f.setup.cmd # "run"
  <2>1. AfterIngest(f, failed) = Ended(f)
    BY <1>1 DEF AfterIngest
  <2>2. f.codes = {} => Due(f.setup) \subseteq f.done
    <3> SUFFICES ASSUME f.codes = {}
                 PROVE  Due(f.setup) \subseteq f.done
      OBVIOUS
    <3>1. f.setup.cmd = "ingest"
      BY <1>1
    <3>2. Due(f.setup) = {<<"ingest", NoOne>>}
      BY <3>1 DEF Due, Readers, Workers
    <3> QED  BY <3>2
  <2>3. CallFits(i, Ended(f)) /\ Ended(f).pc = "ended"
    BY <1>1, <2>2, PlainEndFits DEF Went
  <2>4. Ended(f).setup = f.setup
    BY EndedRow DEF Record, Went
  <2> QED  BY <2>1, <2>3, <2>4
<1>2. CASE ~failed /\ f.setup.cmd = "run" /\ CfgOf(f.setup).ai /\ CatsOf(f.setup) # <<>>
  <2>1. AfterIngest(f, failed) = Enter(f, "ai")
    BY <1>2 DEF AfterIngest
  <2> QED  BY <1>2, <2>1, EnterAiStep
<1>3. CASE ~failed /\ f.setup.cmd = "run" /\ ~(CfgOf(f.setup).ai /\ CatsOf(f.setup) # <<>>)
  <2>1. AfterIngest(f, failed) = AfterAi(f)
    BY <1>3 DEF AfterIngest
  <2>2. AfterAiFits(f)
    BY <1>3, NoElements DEF AfterAiFits, AiMetBut
  <2> QED  BY <1>3, <2>1, <2>2, AfterAiStep
<1> QED
  BY <1>1, <1>2, <1>3

LEMMA IngestStep ==
    ASSUME CommandsAssumption, Inv, NEW i \in Invocations, Ingest(i)
    PROVE  Inv'
<1>1. PICK r : r = call[i]
  OBVIOUS
<1>2. r.pc = "ingest" /\ UNCHANGED <<backend, applied, lock>>
  BY <1>1 DEF Ingest
<1>3. /\ IsCall(r) /\ CodesFit(r) /\ r.setup \in Setups[i] /\ Fresh(r) /\ Went(i, r)
      /\ r.setup.cmd \in {"ingest", "run"}
  BY <1>1, <1>2, UnderWay DEF Busy, Steps, StageFits, CommandFits, Untouched, Stages
<1>4. ASSUME NEW q, Becomes(i, q), CallFits(i, q), q.pc \in {"ended", "ai", "preflight"},
             q.setup = r.setup
      PROVE  Inv'
  BY <1>1, <1>2, <1>4, StageMoved DEF Stages
<1>5. PICK what : what = <<"ingest", NoOne>>
  OBVIOUS
<1>6. CASE Becomes(i, AfterIngest(Did(r, what), FALSE))
  <2>1. PICK f : f = Did(r, what)
    OBVIOUS
  <2>2. Booked(f, r, {what}, {}, {}) /\ CodesFit(f)
    BY <1>3, <2>1, DidBooks
  <2>3. /\ f.setup = r.setup /\ f.seen = r.seen /\ f.done = {what} /\ f.hit = {} /\ f.batch = {}
        /\ IsCall(f)
    BY <1>3, <2>2 DEF Booked, Fresh
  <2>4. Went(i, f) /\ Ingested(f)
    BY <1>3, <1>5, <2>2, <2>3 DEF Went, Reached, Ingested
  <2>5. LET q == AfterIngest(f, FALSE)
        IN  CallFits(i, q) /\ q.pc \in {"ended", "ai", "preflight"} /\ q.setup = f.setup
    BY <1>3, <1>5, <2>3, <2>4, AfterIngestStep
  <2> QED  BY <1>4, <1>6, <2>1, <2>3, <2>5
<1>7. ASSUME NEW error \in BOOLEAN, Becomes(i, AfterIngest(Hit(r, what), error))
      PROVE  Inv'
  <2>1. PICK f : f = Hit(r, what)
    OBVIOUS
  <2>2. Booked(f, r, {}, {what}, {1}) /\ CodesFit(f)
    BY <1>3, <1>5, <2>1, HitBooks DEF Refused
  <2>3. /\ f.setup = r.setup /\ f.seen = r.seen /\ f.done = {} /\ f.hit = {what} /\ f.batch = {}
        /\ f.codes # {} /\ IsCall(f)
    BY <1>3, <2>2 DEF Booked, Fresh
  <2>4. Went(i, f) /\ Ingested(f)
    BY <1>3, <1>5, <2>2, <2>3 DEF Went, Reached, Ingested
  <2>5. LET q == AfterIngest(f, error)
        IN  CallFits(i, q) /\ q.pc \in {"ended", "ai", "preflight"} /\ q.setup = f.setup
    BY <1>3, <1>5, <2>3, <2>4, AfterIngestStep
  <2> QED  BY <1>4, <1>7, <2>1, <2>3, <2>5
<1> QED
  BY <1>1, <1>5, <1>6, <1>7 DEF Ingest

\* A category without its credentials is what validate-config looks for.
LEMMA UnprovidedBlamed ==
    ASSUME CommandsAssumption, NEW i \in Invocations, NEW s \in Setups[i],
           s.cmd \in {"ai-run", "run"}, NEW cat \in Unprovided(s)
    PROVE  Blamed(s)
<1>1. cat \in ToSet(CatsOf(s)) /\ CfgOf(s).ai /\ ~Credentials(cat, s.env)
  BY DEF Unprovided
<1>2. cat \in ToSet(CfgOf(s).cats)
  BY <1>1, SetupIs
<1>3. PICK n \in DOMAIN CfgOf(s).cats : cat = CfgOf(s).cats[n]
  BY <1>2 DEF ToSet
<1>4. ~Validated(CfgOf(s), s.env, s.filter)
  BY <1>1, <1>3 DEF Validated, Audited
<1> QED
  BY <1>4 DEF Blamed

LEMMA AiCategoryStep ==
    ASSUME CommandsAssumption, Inv, NEW i \in Invocations, AiCategory(i)
    PROVE  Inv'
<1>1. PICK r : r = call[i]
  OBVIOUS
<1>2. r.pc = "ai" /\ UNCHANGED <<backend, applied, lock>>
  BY <1>1 DEF AiCategory
<1>3. /\ IsCall(r) /\ CodesFit(r) /\ r.setup \in Setups[i] /\ AiFits(r) /\ Went(i, r)
      /\ r.setup.cmd \in {"ai-run", "run"} /\ Refusal(r.setup) = 0 /\ CallFits(i, r)
  BY <1>1, <1>2, UnderWay DEF Busy, Steps, StageFits, CommandFits, Stages, Inv
<1>4. PICK s, cat : s = r.setup /\ cat = Head(r.todo)
  OBVIOUS
<1>5. cat \in ToSet(CatsOf(s)) /\ CfgOf(s).ai
  <2>1. PICK X, q : X = ToSet(CatsOf(r.setup)) /\ q = r.todo
    OBVIOUS
  <2>2. q \in Seq(X) /\ q # <<>>
    BY <1>3, <2>1 DEF AiFits, Line
  <2>3. Head(q) \in X
    BY <2>2
  <2> QED  BY <1>3, <1>4, <2>1, <2>3 DEF AiFits
<1>6. ASSUME NEW f, NEW done, NEW hit, NEW codes, Booked(f, r, done, hit, codes), CodesFit(f),
             <<"open", NoOne>> \notin hit, AiMet(f, cat), Becomes(i, Advanced(f, AfterAi))
      PROVE  Inv'
  <2>1. /\ IsCall(f) /\ f.pc = "ai" /\ f.setup = r.setup /\ f.seen = r.seen /\ f.todo = r.todo
        /\ f.batch = r.batch /\ r.done \subseteq f.done /\ r.hit \subseteq f.hit
        /\ r.codes \subseteq f.codes /\ Reached(f)
    BY <1>2, <1>3, <1>6 DEF Booked, Reached, Went
  <2>2. PICK q : q = Advanced(f, AfterAi)
    OBVIOUS
  <2>3. CallFits(i, q) /\ q.pc \in {"ai", "preflight", "ended"} /\ q.setup = r.setup
    BY <1>2, <1>3, <1>4, <1>6, <2>1, <2>2, AiAdvances
  <2> QED  BY <1>1, <1>2, <1>6, <2>2, <2>3, StageMoved DEF Stages
<1>7. CASE ~Credentials(cat, s.env) /\ Becomes(i, Advanced(Failing(r, 78), AfterAi))
  <2>1. cat \in Unprovided(s)
    BY <1>5, <1>7 DEF Unprovided
  <2>2. Blamed(s)
    BY <1>3, <1>4, <2>1, UnprovidedBlamed
  <2>3. s.cmd # "run" => Len(CatsOf(s)) > 1
    <3>0. SUFFICES ASSUME s.cmd = "ai-run", ~(Len(CatsOf(s)) > 1)
                 PROVE  FALSE
      BY <1>3, <1>4
    <3>1. PICK l : l = CatsOf(s)
      OBVIOUS
    <3>2. l \in Seq(ToSet(l)) /\ l # <<>> /\ LoneCredentials(s)
      <4>1. s \in Setups[i] /\ Refusal(s) = 0 /\ s.cmd = "ai-run"
        BY <1>3, <1>4, <3>0
      <4>2. l \in Seq(ToSet(l))
        BY <3>1, <4>1, SetupIs
      <4>3. l # <<>> /\ LoneCredentials(s)
        BY <3>1, <4>1, RefusalIs
      <4> QED  BY <4>2, <4>3
    <3>3. Len(l) = 1 /\ DOMAIN l = 1..Len(l)
      <4>1. PICK X : X = ToSet(l)
        OBVIOUS
      <4>2. l \in Seq(X) /\ l # <<>> /\ ~(Len(l) > 1)
        BY <3>0, <3>1, <3>2, <4>1
      <4>3. Len(l) > 0
        BY <4>2, Elements
      <4>4. Len(l) \in Nat /\ DOMAIN l = 1..Len(l)
        BY <4>2
      <4> QED  BY <4>2, <4>3, <4>4
    <3>4. ToSet(l) = {l[1]}
      BY <3>3 DEF ToSet
    <3>5. cat = l[1] /\ Credentials(l[1], s.env)
      BY <1>5, <3>1, <3>2, <3>3, <3>4 DEF LoneCredentials
    <3> QED  BY <1>7, <3>5
  <2>4. Len(CatsOf(s)) \in Nat
    <3>1. CatsOf(s) \in Seq(ToSet(CatsOf(s)))
      BY <1>3, <1>4, SetupIs
    <3> QED  BY <3>1
  <2>5. ChecksFirst(s) => ~r.wrote
    BY <1>3, <1>4, <2>3, <2>4 DEF ChecksFirst
  <2>6. PICK f : f = Failing(r, 78)
    OBVIOUS
  <2>7. Booked(f, r, {}, {}, {78}) /\ CodesFit(f)
    BY <1>3, <1>4, <2>2, <2>5, <2>6, FailingBooks
  <2>8. AiMet(f, cat)
    BY <1>4, <2>1, <2>7 DEF Booked, AiMet
  <2> QED  BY <1>6, <1>7, <2>6, <2>7, <2>8
<1>8. CASE Credentials(cat, s.env) /\ ~FitsItsLease(s, cat)
           /\ Becomes(i, Advanced(Failing(r, 1), AfterAi))
  <2>1. PICK f : f = Failing(r, 1)
    OBVIOUS
  <2>2. Booked(f, r, {}, {}, {1}) /\ CodesFit(f)
    BY <1>3, <2>1, FailingBooks
  <2>3. AiMet(f, cat)
    BY <1>4, <1>8, <2>2 DEF Booked, AiMet, Unprovided
  <2> QED  BY <1>6, <1>8, <2>1, <2>2, <2>3
<1>9. CASE Credentials(cat, s.env) /\ FitsItsLease(s, cat)
           /\ Becomes(i, Advanced(Did(r, <<"ai", cat.key>>), AfterAi))
  <2>1. PICK f : f = Did(r, <<"ai", cat.key>>)
    OBVIOUS
  <2>2. Booked(f, r, {<<"ai", cat.key>>}, {}, {}) /\ CodesFit(f)
    BY <1>3, <2>1, DidBooks
  <2>3. AiMet(f, cat)
    BY <1>4, <1>9, <2>2 DEF Booked, AiMet, Unprovided
  <2> QED  BY <1>6, <1>9, <2>1, <2>2, <2>3
<1>10. CASE Credentials(cat, s.env) /\ FitsItsLease(s, cat)
            /\ Becomes(i, Advanced(Hit(r, <<"ai", cat.key>>), AfterAi))
  <2>1. PICK f : f = Hit(r, <<"ai", cat.key>>)
    OBVIOUS
  <2>2. Booked(f, r, {}, {<<"ai", cat.key>>}, {1}) /\ CodesFit(f)
    BY <1>3, <2>1, HitBooks DEF Refused
  <2>3. AiMet(f, cat)
    BY <1>4, <1>10, <2>2 DEF Booked, AiMet, Unprovided
  <2>4. <<"open", NoOne>> \notin {<<"ai", cat.key>>}
    OBVIOUS
  <2> QED  BY <1>6, <1>10, <2>1, <2>2, <2>3, <2>4
<1> QED
  BY <1>1, <1>4, <1>7, <1>8, <1>9, <1>10 DEF AiCategory


\* run looks once more at its publish target and its categories.
LEMMA PublishPreflightStep ==
    ASSUME CommandsAssumption, Inv, NEW i \in Invocations, PublishPreflight(i)
    PROVE  Inv'
<1>1. PICK r : r = call[i]
  OBVIOUS
<1>2. r.pc = "preflight" /\ UNCHANGED <<backend, applied, lock>>
  BY <1>1 DEF PublishPreflight
<1>3. /\ IsCall(r) /\ CodesFit(r) /\ r.setup \in Setups[i] /\ AfterAiFits(r) /\ Went(i, r)
      /\ r.setup.cmd = "run" /\ Refusal(r.setup) = 0 /\ r.batch = {}
  BY <1>1, <1>2, UnderWay DEF Busy, Steps, StageFits, PreflightFits, CommandFits, Stages
<1>4. PICK s : s = r.setup
  OBVIOUS
<1>5. ASSUME NEW q, Becomes(i, q), CallFits(i, q), q.pc \in {"ended", "rules"},
             q.setup = r.setup
      PROVE  Inv'
  BY <1>1, <1>2, <1>5, StageMoved DEF Stages
<1>6. CASE ~PublishReady(CfgOf(s), s.env, s.local) /\ Becomes(i, Ended(Failing(r, 78)))
  <2>1. Blamed(s)
    <3>1. ~PublishReady(CfgOf(s), s.env, FALSE)
      BY <1>6 DEF PublishReady, RemoteWanted
    <3> QED  BY <1>3, <1>4, <1>6, <3>1 DEF Blamed, DoctorAccepts
  <2>2. PICK f : f = Failing(r, 78)
    OBVIOUS
  <2>3. Booked(f, r, {}, {}, {78}) /\ CodesFit(f)
    BY <1>3, <1>4, <2>1, <2>2, FailingBooks DEF ChecksFirst
  <2>4. /\ IsCall(f) /\ f.setup = r.setup /\ 78 \in f.codes
        /\ r.done \subseteq f.done /\ r.hit \subseteq f.hit /\ r.codes \subseteq f.codes
    BY <2>3 DEF Booked
  <2>5. AfterAiFits(f)
    BY <1>3, <2>4, StaysMet
  <2>6. Accounted(f)
    BY <1>3, <1>4, <1>6, <2>4, <2>5 DEF Accounted, AfterAiFits
  <2>7. CallFits(i, Ended(f)) /\ Ended(f).pc = "ended"
    BY <1>3, <2>3, <2>4, <2>6, EndFits
  <2>8. Ended(f).setup = r.setup
    BY <2>4, EndedRow DEF Record
  <2> QED  BY <1>5, <1>6, <2>2, <2>7, <2>8
<1>7. CASE CatsOf(s) = <<>> /\ Becomes(i, Ended(Failing(r, 1)))
  <2>1. PICK f : f = Failing(r, 1)
    OBVIOUS
  <2>2. Booked(f, r, {}, {}, {1}) /\ CodesFit(f)
    BY <1>3, <2>1, FailingBooks
  <2>3. IsCall(f) /\ f.setup = r.setup /\ 1 \in f.codes
    BY <2>2 DEF Booked
  <2>4. ToSet(CatsOf(s)) = {}
    BY <1>7, NoElements
  <2>5. Unprovided(s) = {}
    BY <2>4 DEF Unprovided
  <2>6. Accounted(f)
    BY <1>3, <1>4, <2>3, <2>4, <2>5 DEF Accounted, AiMetBut
  <2>7. CallFits(i, Ended(f)) /\ Ended(f).pc = "ended"
    BY <1>3, <2>2, <2>3, <2>6, EndFits
  <2>8. Ended(f).setup = r.setup
    BY <2>3, EndedRow DEF Record
  <2> QED  BY <1>5, <1>7, <2>1, <2>7, <2>8
<1>8. CASE CatsOf(s) # <<>> /\ Becomes(i, [r EXCEPT !.pc = "rules"])
  <2>1. Publishes(r.setup.cmd)
    BY <1>3 DEF Publishes
  <2>2. PICK q : q = [r EXCEPT !.pc = "rules"]
    OBVIOUS
  <2>3. CallFits(i, q) /\ q.pc = "rules" /\ q.setup = r.setup
    BY <1>3, <1>4, <1>8, <2>1, <2>2, ToRulesStep
  <2> QED  BY <1>5, <1>8, <2>2, <2>3
<1>9. \/ ~PublishReady(CfgOf(s), s.env, s.local) /\ Becomes(i, Ended(Failing(r, 78)))
      \/ CatsOf(s) = <<>> /\ Becomes(i, Ended(Failing(r, 1)))
      \/ CatsOf(s) # <<>> /\ Becomes(i, [r EXCEPT !.pc = "rules"])
  BY <1>1, <1>4 DEF PublishPreflight
<1> QED
  BY <1>6, <1>7, <1>8, <1>9

\* Where the rules cannot be read no category is published, and the call says so.
LEMMA PublishRulesStep ==
    ASSUME CommandsAssumption, Inv, NEW i \in Invocations, PublishRules(i)
    PROVE  Inv'
<1>1. PICK r : r = call[i]
  OBVIOUS
<1>2. r.pc = "rules" /\ UNCHANGED <<backend, applied, lock>>
  BY <1>1 DEF PublishRules
<1>3. /\ IsCall(r) /\ CodesFit(r) /\ r.setup \in Setups[i] /\ AfterAiFits(r) /\ Went(i, r)
      /\ Publishes(r.setup.cmd) /\ CatsOf(r.setup) # <<>>
  BY <1>1, <1>2, UnderWay DEF Busy, Steps, StageFits, RulesFits, CommandFits, Stages
<1>4. CASE Becomes(i, Enter(r, "publish"))
  <2>1. PICK q : q = Enter(r, "publish")
    OBVIOUS
  <2>2. CallFits(i, q) /\ q.pc = "publish" /\ q.setup = r.setup
    BY <1>3, <2>1, EnterPublishStep
  <2> QED  BY <1>1, <1>2, <1>4, <2>1, <2>2, StageMoved DEF Stages
<1>5. CASE Becomes(i, Ended(Hit(r, <<"rules", NoOne>>)))
  <2>1. PICK f : f = Hit(r, <<"rules", NoOne>>)
    OBVIOUS
  <2>2. Booked(f, r, {}, {<<"rules", NoOne>>}, {1}) /\ CodesFit(f)
    BY <1>3, <2>1, HitBooks DEF Refused
  <2>3. /\ IsCall(f) /\ f.setup = r.setup /\ f.codes # {} /\ <<"rules", NoOne>> \in f.hit
        /\ r.done = f.done /\ r.hit \subseteq f.hit /\ r.codes \subseteq f.codes
    BY <2>2 DEF Booked
  <2>4. AfterAiFits(f)
    BY <1>3, <2>3, StaysMet
  <2>5. r.setup.cmd = "run" /\ Unprovided(r.setup) # {} => 78 \in f.codes
    <3> SUFFICES ASSUME r.setup.cmd = "run", NEW cat \in Unprovided(r.setup)
                 PROVE  78 \in f.codes
      OBVIOUS
    <3>1. cat \in ToSet(CatsOf(r.setup)) /\ CfgOf(r.setup).ai
      BY DEF Unprovided
    <3>2. AiMet(f, cat)
      BY <2>3, <2>4, <3>1 DEF AfterAiFits, AiMetBut
    <3> QED  BY <2>3, <3>2 DEF AiMet
  <2>6. Accounted(f)
    BY <1>3, <2>3, <2>4, <2>5 DEF Accounted, Publishes, AfterAiFits
  <2>7. CallFits(i, Ended(f)) /\ Ended(f).pc = "ended"
    BY <1>3, <2>2, <2>3, <2>6, EndFits
  <2> QED  BY <1>1, <1>2, <1>5, <2>1, <2>7, StageMoved DEF Stages
<1> QED
  BY <1>1, <1>4, <1>5 DEF PublishRules

LEMMA PublishCategoryStep ==
    ASSUME CommandsAssumption, Inv, NEW i \in Invocations, PublishCategory(i)
    PROVE  Inv'
<1>1. PICK r : r = call[i]
  OBVIOUS
<1>2. r.pc = "publish" /\ UNCHANGED <<backend, applied, lock>>
  BY <1>1 DEF PublishCategory
<1>3. IsCall(r) /\ CodesFit(r) /\ Went(i, r) /\ CallFits(i, r)
  BY <1>1, <1>2, UnderWay DEF Busy, Steps, Stages, Inv
<1>4. PICK key : key = Head(r.todo).key
  OBVIOUS
<1>5. ASSUME NEW f, IsCall(f), f.pc = "publish", f.setup = r.setup, f.seen = r.seen,
             f.todo = r.todo, CodesFit(f), r.batch \subseteq f.batch, <<"open", NoOne>> \notin f.hit,
             r.done \subseteq f.done, r.hit \subseteq f.hit, r.codes \subseteq f.codes,
             <<"publish", key>> \in f.done \cup f.hit \/ key \in f.batch,
             Becomes(i, Advanced(f, AfterPublish))
      PROVE  Inv'
  <2>1. Reached(f)
    BY <1>3, <1>5 DEF Reached, Went
  <2>2. PICK q : q = Advanced(f, AfterPublish)
    OBVIOUS
  <2>3. CallFits(i, q) /\ q.pc \in {"publish", "batch", "ended"} /\ q.setup = r.setup
    BY <1>2, <1>3, <1>4, <1>5, <2>1, <2>2, PublishAdvances
  <2> QED  BY <1>1, <1>2, <1>5, <2>2, <2>3, StageMoved DEF Stages
<1>6. <<"open", NoOne>> \notin r.hit /\ <<"open", NoOne>> # <<"publish", key>>
  BY <1>3 DEF Went, Reached
<1>7. CASE Becomes(i, Advanced([r EXCEPT !.batch = @ \cup {key}], AfterPublish))
  <2>1. PICK f : f = [r EXCEPT !.batch = @ \cup {key}]
    OBVIOUS
  <2>2. Record(f, r.pc, r.setup, r.seen, r.todo, r.batch \cup {key}, r.done, r.hit, r.codes, r.wrote)
    BY <1>3, <2>1, BatchRow
  <2>3. /\ IsCall(f) /\ f.pc = "publish" /\ f.setup = r.setup /\ f.seen = r.seen /\ f.todo = r.todo
        /\ f.batch = r.batch \cup {key} /\ f.done = r.done /\ f.hit = r.hit /\ f.codes = r.codes
        /\ f.wrote = r.wrote
    BY <1>2, <2>2 DEF Record
  <2>4. CodesFit(f)
    BY <1>3, <2>3, SameMet
  <2> QED  BY <1>5, <1>6, <1>7, <2>1, <2>3, <2>4
<1>8. CASE Becomes(i, Advanced(Did(r, <<"publish", key>>), AfterPublish))
  <2>1. PICK f : f = Did(r, <<"publish", key>>)
    OBVIOUS
  <2>2. Booked(f, r, {<<"publish", key>>}, {}, {}) /\ CodesFit(f)
    BY <1>3, <2>1, DidBooks
  <2> QED  BY <1>2, <1>5, <1>6, <1>8, <2>1, <2>2 DEF Booked
<1>9. CASE Becomes(i, Advanced(Hit(r, <<"publish", key>>), AfterPublish))
  <2>1. PICK f : f = Hit(r, <<"publish", key>>)
    OBVIOUS
  <2>2. Booked(f, r, {}, {<<"publish", key>>}, {1}) /\ CodesFit(f)
    BY <1>3, <2>1, HitBooks DEF Refused
  <2> QED  BY <1>2, <1>5, <1>6, <1>9, <2>1, <2>2 DEF Booked
<1>10. \/ Becomes(i, Advanced([r EXCEPT !.batch = @ \cup {key}], AfterPublish))
       \/ Becomes(i, Advanced(Did(r, <<"publish", key>>), AfterPublish))
       \/ Becomes(i, Advanced(Hit(r, <<"publish", key>>), AfterPublish))
  BY <1>1, <1>4 DEF PublishCategory
<1> QED
  BY <1>7, <1>8, <1>9, <1>10

\* Each report of the batch is published or fails; then the call is over.
LEMMA PublishBatchStep ==
    ASSUME CommandsAssumption, Inv, NEW i \in Invocations, PublishBatch(i)
    PROVE  Inv'
<1>1. PICK r : r = call[i]
  OBVIOUS
<1>2. r.pc = "batch" /\ UNCHANGED <<backend, applied, lock>>
  BY <1>1 DEF PublishBatch
<1>3. /\ IsCall(r) /\ CodesFit(r) /\ r.setup \in Setups[i] /\ BatchFits(r) /\ Went(i, r)
      /\ Publishes(r.setup.cmd)
  BY <1>1, <1>2, UnderWay DEF Busy, Steps, StageFits, CommandFits, Stages
<1>4. PICK out \in SUBSET r.batch :
         LET f == [r EXCEPT !.done = @ \cup {<<"publish", k>> : k \in out},
                            !.hit = @ \cup {<<"publish", k>> : k \in r.batch \ out}]
         IN  Becomes(i, Ended(IF out = r.batch THEN f ELSE Failing(f, 1)))
  BY <1>1 DEF PublishBatch
<1>5. PICK sent, failed : /\ sent = {<<"publish", k>> : k \in out}
                          /\ failed = {<<"publish", k>> : k \in r.batch \ out}
  OBVIOUS
<1>6. PICK f : f = [r EXCEPT !.done = @ \cup sent, !.hit = @ \cup failed]
  OBVIOUS
<1>7. /\ IsCall(f) /\ f.setup = r.setup /\ f.seen = r.seen /\ f.codes = r.codes
      /\ f.done = r.done \cup sent /\ f.hit = r.hit \cup failed /\ f.wrote = r.wrote
  <2>1. Record(f, r.pc, r.setup, r.seen, r.todo, r.batch, r.done \cup sent, r.hit \cup failed,
               r.codes, r.wrote)
    BY <1>3, <1>6, OutRow
  <2> QED  BY <2>1 DEF Record
<1>8. out = r.batch => failed = {}
  BY <1>5
<1>9. <<"open", NoOne>> \notin failed
  BY <1>5
<1>10. PICK e : e = IF out = r.batch THEN f ELSE Failing(f, 1)
  OBVIOUS
<1>11. /\ IsCall(e) /\ e.setup = r.setup /\ e.seen = r.seen /\ r.codes \subseteq e.codes
       /\ e.done = f.done /\ e.hit = f.hit /\ CodesFit(e)
  <2>1. CASE out = r.batch
    BY <1>3, <1>7, <1>8, <1>10, <2>1 DEF CodesFit, RateLimited, Told
  <2>2. CASE out # r.batch
    <3>1. e = Failing(f, 1)
      BY <1>10, <2>2
    <3>2. Record(e, f.pc, f.setup, f.seen, f.todo, f.batch, f.done, f.hit, f.codes \cup {1}, f.wrote)
      BY <1>7, <3>1, FailingRow
    <3>3. /\ IsCall(e) /\ e.setup = f.setup /\ e.seen = f.seen /\ e.codes = f.codes \cup {1}
          /\ e.done = f.done /\ e.hit = f.hit /\ e.wrote = f.wrote
      BY <3>2 DEF Record
    <3>4. CodesFit(e)
      <4>1. Refused \notin failed
        BY <1>5 DEF Refused
      <4> QED  BY <1>3, <1>7, <3>3, <4>1 DEF CodesFit, Told
    <3> QED  BY <1>7, <3>3, <3>4
  <2> QED  BY <2>1, <2>2
<1>12. Went(i, e)
  BY <1>3, <1>7, <1>9, <1>11 DEF Went, Reached
<1>13. AfterAiFits(e)
  BY <1>3, <1>7, <1>11, StaysMet DEF BatchFits
<1>14. \A cat \in ToSet(CatsOf(e.setup)) : <<"publish", cat.key>> \in e.done \cup e.hit
  <2> SUFFICES ASSUME NEW cat \in ToSet(CatsOf(r.setup))
               PROVE  <<"publish", cat.key>> \in e.done \cup e.hit
    BY <1>11
  <2>1. <<"publish", cat.key>> \in r.done \cup r.hit \/ cat.key \in r.batch
    BY <1>3 DEF BatchFits, PublishMetBut
  <2>2. cat.key \in r.batch => <<"publish", cat.key>> \in sent \cup failed
    BY <1>5
  <2> QED  BY <1>7, <1>11, <2>1, <2>2
<1>15. Accounted(e)
  BY <1>3, <1>11, <1>12, <1>13, <1>14, PublishAccounted
<1>16. CallFits(i, Ended(e)) /\ Ended(e).pc = "ended"
  BY <1>3, <1>11, <1>15, EndFits
<1>17. Becomes(i, Ended(e))
  BY <1>4, <1>5, <1>6, <1>10
<1> QED
  BY <1>1, <1>2, <1>16, <1>17, StageMoved DEF Stages

\* backfill and reindex owe their work, and nothing else.
LEMMA WorkIs ==
    ASSUME NEW s, s.cmd \in Workers
    PROVE  Due(s) = {<<"work", NoOne>>} /\ s.cmd \notin {"run", "ai-run", "publish-all"}
BY DEF Due, Readers, Workers

LEMMA WorkStep ==
    ASSUME CommandsAssumption, Inv, NEW i \in Invocations, Work(i)
    PROVE  Inv'
<1>1. /\ call[i].pc = "work" /\ UNCHANGED <<backend, applied, lock>>
      /\ call[i].setup.cmd = "backfill"
  BY DEF Work
<1>2. call[i].pc \in Busy /\ Fresh(call[i]) /\ call[i].setup.cmd \in Workers
  BY <1>1, UnderWay DEF Busy, Steps, StageFits, Untouched, Workers
<1>3. PICK q1, q2 : /\ q1 = Ended(Hit(call[i], <<"work", NoOne>>))
                    /\ q2 = Ended(Did(call[i], <<"work", NoOne>>))
  OBVIOUS
<1>4. CallFits(i, q1) /\ q1.pc = "ended"
  BY <1>2, <1>3, FreshFails, WorkIs DEF Refused
<1>5. CallFits(i, q2) /\ q2.pc = "ended"
  BY <1>2, <1>3, FreshDone, WorkIs
<1>6. Becomes(i, q1) \/ Becomes(i, q2)
  BY <1>3 DEF Work
<1> QED
  BY <1>1, <1>4, <1>5, <1>6, StageMoved DEF Stages

\* What stopped a decision-run is in its books, and in its code.
LEMMA StoppedRow ==
    ASSUME NEW r, IsCall(r), NEW stops \in SUBSET Stops
    PROVE  \E f : /\ Stopped(r, stops) = Ended(f) /\ IsCall(f)
                  /\ f.pc = r.pc /\ f.setup = r.setup /\ f.done = r.done /\ f.wrote = r.wrote
                  /\ f.hit = r.hit \cup {<<stop, NoOne>> : stop \in stops}
                  /\ f.codes = r.codes \cup UNION {StopCodes(stop) : stop \in stops}
<1>1. PICK met, codes : /\ met = {<<stop, NoOne>> : stop \in stops}
                        /\ codes = UNION {StopCodes(stop) : stop \in stops}
  OBVIOUS
<1>2. PICK q : q = [r EXCEPT !.hit = r.hit \cup met]
  OBVIOUS
<1>3. Record(q, r.pc, r.setup, r.seen, r.todo, r.batch, r.done, r.hit \cup met, r.codes, r.wrote)
  BY <1>2, HitRow
<1>4. IsCall(q) /\ q.codes = r.codes /\ r.codes \subseteq {1, 2, 78}
  BY <1>3 DEF Record, IsCall
<1>5. codes \subseteq {1, 78}
  BY <1>1 DEF StopCodes
<1>6. r.codes \cup codes \in SUBSET {1, 2, 78}
  BY <1>4, <1>5
<1>7. PICK f : f = [q EXCEPT !.codes = r.codes \cup codes]
  OBVIOUS
<1>8. Record(f, q.pc, q.setup, q.seen, q.todo, q.batch, q.done, q.hit, r.codes \cup codes, q.wrote)
  BY <1>4, <1>6, <1>7, CodesRow
<1>9. f = [r EXCEPT !.hit = @ \cup met, !.codes = @ \cup codes]
  BY <1>2, <1>7
<1>10. Stopped(r, stops) = Ended(f)
  BY <1>1, <1>9 DEF Stopped
<1> QED
  BY <1>1, <1>3, <1>8, <1>10 DEF Record

LEMMA DecisionsOwed ==
    ASSUME NEW s, s.cmd = "decision-run"
    PROVE  Due(s) = DecisionsDue(s)
BY DEF Due, Readers, Workers

\* A decision-run that nothing had stopped so far ends as its stops say, and
\* with none of them it has asked all it was to ask.
LEMMA StoppedFits ==
    ASSUME NEW i, NEW r, IsCall(r), r.setup \in Setups[i], Decides(r.setup.cmd), Unstopped(r),
           NEW stops \in SUBSET Stops, stops # {} \/ DecideMetBut(r, {})
    PROVE  LET q == Stopped(r, stops) IN CallFits(i, q) /\ q.pc = "ended"
<1>1. PICK f : /\ Stopped(r, stops) = Ended(f) /\ IsCall(f)
               /\ f.pc = r.pc /\ f.setup = r.setup /\ f.done = r.done /\ f.wrote = r.wrote
               /\ f.hit = r.hit \cup {<<stop, NoOne>> : stop \in stops}
               /\ f.codes = r.codes \cup UNION {StopCodes(stop) : stop \in stops}
  BY StoppedRow
<1>2. /\ f.hit = {<<stop, NoOne>> : stop \in stops}
      /\ f.codes = UNION {StopCodes(stop) : stop \in stops}
  BY <1>1 DEF Unstopped
<1>3. "refused" \in stops => Refused \in f.hit /\ 78 \in f.codes
  BY <1>2 DEF StopCodes, Refused
<1>4. "failed" \in stops => 1 \in f.codes
  BY <1>2 DEF StopCodes
<1>5. "refused" \notin stops => Refused \notin f.hit /\ 78 \notin f.codes
  <2> SUFFICES ASSUME "refused" \notin stops
               PROVE  Refused \notin f.hit /\ 78 \notin f.codes
    OBVIOUS
  <2>1. \A stop \in stops : stop # "refused"
    OBVIOUS
  <2>2. \A stop \in stops : StopCodes(stop) \subseteq {1}
    BY <2>1 DEF StopCodes
  <2> QED  BY <1>2, <2>1, <2>2 DEF Refused
<1>6. stops = {"limited"} => f.hit = {<<"limited", NoOne>>}
  BY <1>2
<1>7. f.hit # {} => f.codes # {} \/ RateLimited(f)
  <2> SUFFICES ASSUME f.hit # {}, f.codes = {}
               PROVE  RateLimited(f)
    OBVIOUS
  <2>1. stops # {}
    BY <1>2
  <2>2. stops = {"limited"}
    BY <1>3, <1>4, <2>1 DEF Stops
  <2> QED  BY <1>1, <1>6, <2>2 DEF RateLimited, Decides
<1>8. CodesFit(f)
  BY <1>1, <1>3, <1>5, <1>7 DEF CodesFit, Told
<1>9. f.codes = {} => RateLimited(f) \/ Due(f.setup) \subseteq f.done
  <2> SUFFICES ASSUME f.codes = {}, ~RateLimited(f), NEW x \in Due(f.setup)
               PROVE  x \in f.done
    OBVIOUS
  <2>1. f.hit = {}
    BY <1>7
  <2>2. stops = {}
    <3>1. \A stop \in stops : <<stop, NoOne>> \in f.hit
      BY <1>2
    <3> QED  BY <2>1, <3>1
  <2>3. DecideMetBut(r, {})
    BY <2>2
  <2>4. PICK cat \in ToSet(CatsOf(r.setup)) : cat.asks = "asks" /\ x = <<"decide", cat.key>>
    <3>1. r.setup.cmd = "decision-run"
      BY DEF Decides
    <3>2. Due(r.setup) = DecisionsDue(r.setup)
      BY <3>1, DecisionsOwed
    <3>3. x \in DecisionsDue(r.setup)
      BY <1>1, <3>2
    <3> QED  BY <3>3 DEF DecisionsDue
  <2> QED  BY <1>1, <2>3, <2>4 DEF DecideMetBut
<1>10. Accounted(f)
  BY <1>1, <1>9 DEF Accounted, Decides
<1>11. CallFits(i, Ended(f)) /\ Ended(f).pc = "ended"
  BY <1>1, <1>8, <1>10, EndFits
<1> QED
  BY <1>1, <1>11

\* decision-run has prepared, and asks its categories in turn, or has failed.
LEMMA PrepareDecisionsStep ==
    ASSUME CommandsAssumption, Inv, NEW i \in Invocations, PrepareDecisions(i)
    PROVE  Inv'
<1>1. PICK r : r = call[i]
  OBVIOUS
<1>2. /\ r.pc = "work" /\ r.setup.cmd = "decision-run" /\ UNCHANGED <<backend, applied, lock>>
      /\ call[i].pc \in Busy
  BY <1>1 DEF PrepareDecisions, Busy, Steps
<1>3. /\ IsCall(r) /\ CodesFit(r) /\ r.setup \in Setups[i] /\ Fresh(r) /\ Went(i, r)
      /\ Refusal(r.setup) = 0
  BY <1>1, <1>2, UnderWay DEF StageFits, Untouched, Stages
<1>4. CASE Becomes(i, Enter(r, "decide"))
  <2>1. PICK q : q = Enter(r, "decide")
    OBVIOUS
  <2>2. Record(q, "decide", r.setup, r.seen, CatsOf(r.setup), r.batch, r.done, r.hit, r.codes, r.wrote)
    BY <1>3, <2>1, StepTodoRow DEF Enter
  <2>3. /\ IsCall(q) /\ q.pc = "decide" /\ q.setup = r.setup /\ q.done = r.done /\ q.hit = r.hit
        /\ q.codes = r.codes /\ q.seen = r.seen /\ q.wrote = r.wrote /\ q.batch = r.batch
        /\ q.todo = CatsOf(r.setup)
    BY <2>2 DEF Record
  <2>4. CodesFit(q) /\ Reached(q)
    BY <1>3, <2>3, SameMet DEF Went
  <2>5. Line(q)
    BY <1>2, <1>3, <2>3, SetupIs, RefusalIs DEF Line
  <2>6. Unstopped(q) /\ DecideMetBut(q, ToSet(q.todo))
    BY <1>3, <2>3 DEF Unstopped, Fresh, DecideMetBut
  <2>7. CommandFits(q) /\ StageFits(q) /\ q.pc \in Steps
    BY <1>2, <2>3, <2>5, <2>6 DEF CommandFits, StageFits, DecideFits, Untouched, Steps, Decides
  <2>8. CallFits(i, q)
    BY <1>3, <2>3, <2>4, <2>7 DEF CallFits
  <2> QED  BY <1>1, <1>2, <1>4, <2>1, <2>3, <2>8, StageMoved DEF Stages
<1>5. CASE Becomes(i, Ended(Hit(r, <<"work", NoOne>>)))
  <2>1. PICK q : q = Ended(Hit(call[i], <<"work", NoOne>>))
    OBVIOUS
  <2>2. CallFits(i, q) /\ q.pc = "ended"
    BY <1>1, <1>2, <1>3, <2>1, FreshFails DEF Refused
  <2> QED  BY <1>1, <1>2, <1>5, <2>1, <2>2, StageMoved DEF Stages
<1> QED
  BY <1>1, <1>4, <1>5 DEF PrepareDecisions

\* The category at the head of the line was passed over, or had its window.
LEMMA DecideAdvances ==
    ASSUME CommandsAssumption, NEW i \in Invocations, NEW r, CallFits(i, r), r.pc = "decide",
           NEW f, IsCall(f), f.pc = "decide", f.setup = r.setup, f.seen = r.seen,
           f.todo = r.todo, Unstopped(f), CodesFit(f), Reached(f), r.done \subseteq f.done,
           Head(r.todo).asks = "asks" => <<"decide", Head(r.todo).key>> \in f.done
    PROVE  LET q == Advanced(f, AfterFirstRound)
           IN  CallFits(i, q) /\ q.pc \in {"decide", "rounds"} /\ q.setup = r.setup
<1>1. DecideFits(r) /\ r.setup \in Setups[i] /\ Refusal(r.setup) = 0 /\ Decides(r.setup.cmd)
  BY DEF CallFits, StageFits, CommandFits, Silent
<1>2. PICK rest : rest = [f EXCEPT !.todo = Tail(f.todo)]
  OBVIOUS
<1>3. /\ IsCall(rest) /\ rest.pc = "decide" /\ rest.setup = r.setup /\ rest.done = f.done
      /\ rest.hit = f.hit /\ rest.codes = f.codes /\ rest.seen = f.seen /\ rest.wrote = f.wrote
      /\ rest.batch = f.batch /\ rest.todo = Tail(r.todo)
  <2>1. Record(rest, f.pc, f.setup, f.seen, Tail(f.todo), f.batch, f.done, f.hit, f.codes, f.wrote)
    BY <1>2, TodoRow
  <2> QED  BY <2>1 DEF Record
<1>4. CodesFit(rest) /\ Reached(rest) /\ Unstopped(rest)
  BY <1>3, SameMet DEF Unstopped
<1>5. /\ Tail(r.todo) \in Seq(ToSet(CatsOf(r.setup)))
      /\ ToSet(r.todo) = {Head(r.todo)} \cup ToSet(Tail(r.todo))
  <2>1. PICK X, q : X = ToSet(CatsOf(r.setup)) /\ q = r.todo
    OBVIOUS
  <2>2. q \in Seq(X) /\ q # <<>>
    BY <1>1, <2>1 DEF DecideFits, Line
  <2>3. Tail(q) \in Seq(X) /\ ToSet(q) = {Head(q)} \cup ToSet(Tail(q))
    BY <2>2, Elements
  <2> QED  BY <2>1, <2>3
<1>6. DecideMetBut(rest, ToSet(Tail(r.todo)))
  <2> SUFFICES ASSUME NEW cat \in ToSet(CatsOf(r.setup)), cat \notin ToSet(Tail(r.todo)),
                      cat.asks = "asks"
               PROVE  <<"decide", cat.key>> \in rest.done
    BY <1>3 DEF DecideMetBut
  <2>1. CASE cat = Head(r.todo)
    BY <1>3, <2>1
  <2>2. CASE cat # Head(r.todo)
    <3>1. <<"decide", cat.key>> \in r.done
      BY <1>1, <1>5, <2>2 DEF DecideFits, DecideMetBut
    <3> QED  BY <1>3, <3>1
  <2> QED  BY <2>1, <2>2
<1>7. Advanced(f, AfterFirstRound) = IF rest.todo = <<>> THEN AfterFirstRound(rest) ELSE rest
  BY <1>2 DEF Advanced
<1>8. CASE rest.todo = <<>>
  <2>1. PICK q : q = [rest EXCEPT !.pc = "rounds"]
    OBVIOUS
  <2>2. Record(q, "rounds", rest.setup, rest.seen, rest.todo, rest.batch, rest.done, rest.hit,
               rest.codes, rest.wrote)
    BY <1>3, <2>1, PcRow
  <2>3. /\ IsCall(q) /\ q.pc = "rounds" /\ q.setup = r.setup /\ q.done = rest.done
        /\ q.hit = rest.hit /\ q.codes = rest.codes /\ q.seen = rest.seen
        /\ q.wrote = rest.wrote /\ q.batch = rest.batch
    BY <1>3, <2>2 DEF Record
  <2>4. CodesFit(q) /\ Reached(q)
    BY <1>3, <1>4, <2>3, SameMet
  <2>5. ToSet(Tail(r.todo)) = {}
    BY <1>3, <1>8, NoElements
  <2>6. RoundsFits(q)
    BY <1>3, <1>4, <1>6, <2>3, <2>5 DEF RoundsFits, Unstopped, DecideMetBut
  <2>7. CommandFits(q) /\ StageFits(q) /\ q.pc \in Steps
    BY <1>1, <2>3, <2>6 DEF CommandFits, StageFits, Untouched, Steps
  <2>8. CallFits(i, q)
    BY <1>1, <2>3, <2>4, <2>7 DEF CallFits
  <2> QED  BY <1>7, <1>8, <2>1, <2>3, <2>8 DEF AfterFirstRound
<1>9. CASE rest.todo # <<>>
  <2>1. DecideFits(rest)
    BY <1>3, <1>4, <1>5, <1>6, <1>9 DEF DecideFits, Line
  <2>2. CommandFits(rest) /\ StageFits(rest) /\ rest.pc \in Steps
    BY <1>1, <1>3, <2>1 DEF CommandFits, StageFits, Untouched, Steps
  <2>3. CallFits(i, rest)
    BY <1>1, <1>3, <1>4, <2>2 DEF CallFits
  <2> QED  BY <1>3, <1>7, <1>9, <2>3
<1> QED
  BY <1>8, <1>9

LEMMA DecideCategoryStep ==
    ASSUME CommandsAssumption, Inv, NEW i \in Invocations, DecideCategory(i)
    PROVE  Inv'
<1>1. PICK r, cat : r = call[i] /\ cat = Head(r.todo)
  OBVIOUS
<1>2. r.pc = "decide" /\ UNCHANGED <<backend, applied, lock>>
  BY <1>1 DEF DecideCategory
<1>3. /\ IsCall(r) /\ CodesFit(r) /\ r.setup \in Setups[i] /\ DecideFits(r) /\ Went(i, r)
      /\ Decides(r.setup.cmd) /\ CallFits(i, r)
  BY <1>1, <1>2, UnderWay DEF Busy, Steps, StageFits, CommandFits, Stages, Inv
<1>4. Unstopped(r) /\ Reached(r)
  BY <1>3 DEF DecideFits, Went
<1>5. ASSUME NEW f, IsCall(f), f.pc = "decide", f.setup = r.setup, f.seen = r.seen,
             f.todo = r.todo, Unstopped(f), CodesFit(f), Reached(f), r.done \subseteq f.done,
             cat.asks = "asks" => <<"decide", cat.key>> \in f.done,
             Becomes(i, Advanced(f, AfterFirstRound))
      PROVE  Inv'
  <2>1. PICK q : q = Advanced(f, AfterFirstRound)
    OBVIOUS
  <2>2. CallFits(i, q) /\ q.pc \in {"decide", "rounds"} /\ q.setup = r.setup
    BY <1>1, <1>2, <1>3, <1>5, <2>1, DecideAdvances
  <2> QED  BY <1>1, <1>2, <1>5, <2>1, <2>2, StageMoved DEF Stages
<1>6. CASE cat.asks # "asks" /\ Becomes(i, Advanced(r, AfterFirstRound))
  BY <1>2, <1>3, <1>4, <1>5, <1>6
<1>7. CASE Becomes(i, Advanced(Did(r, <<"decide", cat.key>>), AfterFirstRound))
  <2>1. PICK f : f = Did(r, <<"decide", cat.key>>)
    OBVIOUS
  <2>2. Booked(f, r, {<<"decide", cat.key>>}, {}, {}) /\ CodesFit(f)
    BY <1>3, <2>1, DidBooks
  <2>3. /\ IsCall(f) /\ f.pc = "decide" /\ f.setup = r.setup /\ f.seen = r.seen
        /\ f.todo = r.todo /\ f.batch = r.batch /\ f.hit = r.hit /\ f.codes = r.codes
        /\ r.done \subseteq f.done /\ <<"decide", cat.key>> \in f.done
    BY <1>2, <2>2 DEF Booked
  <2>4. Unstopped(f) /\ Reached(f)
    BY <1>4, <2>3 DEF Unstopped, Reached
  <2> QED  BY <1>5, <1>7, <2>1, <2>2, <2>3, <2>4
<1>8. ASSUME NEW stops \in (SUBSET Stops) \ {{}}, Becomes(i, Stopped(r, stops))
      PROVE  Inv'
  <2>1. PICK q : q = Stopped(r, stops)
    OBVIOUS
  <2>2. stops \in SUBSET Stops /\ stops # {}
    BY <1>8
  <2>3. CallFits(i, q) /\ q.pc = "ended"
    BY <1>3, <1>4, <2>1, <2>2, StoppedFits
  <2> QED  BY <1>1, <1>2, <1>8, <2>1, <2>3, StageMoved DEF Stages
<1> QED
  BY <1>1, <1>6, <1>7, <1>8 DEF DecideCategory

LEMMA LaterRoundsStep ==
    ASSUME CommandsAssumption, Inv, NEW i \in Invocations, LaterRounds(i)
    PROVE  Inv'
<1>1. PICK r : r = call[i]
  OBVIOUS
<1>2. r.pc = "rounds" /\ UNCHANGED <<backend, applied, lock>>
  BY <1>1 DEF LaterRounds
<1>3. IsCall(r) /\ r.setup \in Setups[i] /\ RoundsFits(r) /\ Decides(r.setup.cmd)
  BY <1>1, <1>2, UnderWay DEF Busy, Steps, StageFits, CommandFits
<1>4. PICK stops \in SUBSET Stops : Becomes(i, Stopped(r, stops))
  BY <1>1 DEF LaterRounds
<1>5. PICK q : q = Stopped(r, stops)
  OBVIOUS
<1>6. CallFits(i, q) /\ q.pc = "ended"
  BY <1>3, <1>5, StoppedFits DEF RoundsFits
<1> QED
  BY <1>1, <1>2, <1>4, <1>5, <1>6, StageMoved DEF Stages

LEMMA ReindexStep ==
    ASSUME CommandsAssumption, Inv, NEW i \in Invocations, Reindex(i)
    PROVE  Inv'
<1>1. PICK r : r = call[i]
  OBVIOUS
<1>2. /\ r.pc \in {"work", "job"} /\ UNCHANGED <<backend, applied, lock>>
      /\ r.pc = "work" => r.setup.cmd \in {"reindex", "reindex --abort"}
  BY <1>1 DEF Reindex
<1>3. /\ IsCall(r) /\ CodesFit(r) /\ r.setup \in Setups[i] /\ Fresh(r) /\ Went(i, r)
      /\ Refusal(r.setup) = 0 /\ call[i].pc \in Busy
      /\ r.setup.cmd \in Workers
  BY <1>1, <1>2, UnderWay DEF Busy, Steps, StageFits, CommandFits, Untouched, Stages, Workers
<1>4. PICK q1, q2 : /\ q1 = Ended(Hit(call[i], <<"work", NoOne>>))
                    /\ q2 = Ended(Did(call[i], <<"work", NoOne>>))
  OBVIOUS
<1>5. CallFits(i, q1) /\ q1.pc = "ended"
  BY <1>1, <1>3, <1>4, FreshFails, WorkIs DEF Refused
<1>6. CallFits(i, q2) /\ q2.pc = "ended"
  BY <1>1, <1>3, <1>4, FreshDone, WorkIs
<1>7. PICK q3 : q3 = [r EXCEPT !.pc = "job"]
  OBVIOUS
<1>8. CASE Becomes(i, q3) /\ r.pc = "work" /\ r.setup.cmd = "reindex"
  <2>1. Record(q3, "job", r.setup, r.seen, r.todo, r.batch, r.done, r.hit, r.codes, r.wrote)
    BY <1>3, <1>7, PcRow
  <2>2. /\ IsCall(q3) /\ q3.pc = "job" /\ q3.setup = r.setup /\ q3.done = r.done
        /\ q3.hit = r.hit /\ q3.codes = r.codes /\ q3.wrote = r.wrote /\ q3.batch = r.batch
        /\ q3.seen = r.seen
    BY <2>1 DEF Record
  <2>3. CodesFit(q3) /\ Reached(q3) /\ Fresh(q3)
    BY <1>3, <2>2, SameMet DEF Fresh, Went
  <2>4. CommandFits(q3) /\ StageFits(q3) /\ q3.pc \in Steps
    BY <1>8, <2>2, <2>3 DEF CommandFits, StageFits, Steps
  <2>5. CallFits(i, q3)
    BY <1>3, <2>2, <2>3, <2>4 DEF CallFits
  <2> QED  BY <1>1, <1>2, <1>8, <2>2, <2>5, StageMoved DEF Stages
<1>9. \/ Becomes(i, q1) \/ Becomes(i, q2)
      \/ Becomes(i, q3) /\ r.pc = "work" /\ r.setup.cmd = "reindex"
  BY <1>1, <1>4, <1>7 DEF Reindex
<1> QED
  BY <1>1, <1>2, <1>5, <1>6, <1>8, <1>9, StageMoved DEF Stages

\* Of doctor nothing is asked about categories or migrations.
LEMMA DoctorIs ==
    ASSUME NEW s, s.cmd \in Doctors
    PROVE  /\ s.cmd \notin {"run", "ai-run", "publish-all"}
           /\ s.cmd = "doctor" => Due(s) = {<<"check", NoOne>>}
           /\ s.cmd = "doctor --deep" => Due(s) = {<<"check", NoOne>>, <<"scan", NoOne>>}
BY DEF Due, Doctors, Readers, Workers

LEMMA OpenForDoctorStep ==
    ASSUME CommandsAssumption, Inv, NEW i \in Invocations, OpenForDoctor(i)
    PROVE  Inv'
<1>1. PICK r : r = call[i]
  OBVIOUS
<1>2. r.pc = "probe" /\ UNCHANGED <<backend, applied, lock>>
  BY <1>1 DEF OpenForDoctor
<1>3. /\ IsCall(r) /\ CodesFit(r) /\ r.setup \in Setups[i] /\ Fresh(r)
      /\ Refusal(r.setup) = 0 /\ call[i].pc \in Busy /\ r.setup.cmd \in Doctors
  BY <1>1, <1>2, UnderWay DEF Busy, Steps, StageFits, CommandFits, Untouched
<1>4. PICK q1, q2 : /\ q1 = Ended(Hit(call[i], <<"check", NoOne>>))
                    /\ q2 = [call[i] EXCEPT !.pc = "doctor", !.todo = Checks]
  OBVIOUS
<1>5. CallFits(i, q1) /\ q1.pc = "ended"
  BY <1>1, <1>3, <1>4, FreshFails, DoctorIs DEF Refused
<1>6. Record(q2, "doctor", r.setup, r.seen, Checks, r.batch, r.done, r.hit, r.codes, r.wrote)
  BY <1>1, <1>3, <1>4, StepTodoRow
<1>7. /\ IsCall(q2) /\ q2.pc = "doctor" /\ q2.setup = r.setup /\ q2.done = r.done
      /\ q2.hit = r.hit /\ q2.codes = r.codes /\ q2.wrote = r.wrote /\ q2.batch = {}
      /\ q2.seen = r.seen
  BY <1>3, <1>6 DEF Record, Fresh
<1>8. CodesFit(q2)
  BY <1>3, <1>7, SameMet
<1>9. CommandFits(q2) /\ StageFits(q2) /\ q2.pc \in Steps /\ q2.pc \notin Stages
  BY <1>3, <1>7 DEF CommandFits, StageFits, DoctorFits, Steps, Stages, Untouched
<1>10. CallFits(i, q2)
  BY <1>3, <1>7, <1>8, <1>9 DEF CallFits
<1>11. Becomes(i, q1) \/ Becomes(i, q2)
  BY <1>4 DEF OpenForDoctor
<1> QED
  BY <1>1, <1>2, <1>5, <1>7, <1>10, <1>11, StageMoved DEF Stages

\* A call of doctor that goes on, or is over.
LEMMA DoctorGoesOn ==
    ASSUME NEW i, NEW f, IsCall(f), CodesFit(f), f.setup \in Setups[i], f.setup.cmd \in Doctors,
           Refusal(f.setup) = 0, f.batch = {}, f.pc = "doctor"
    PROVE  CallFits(i, f)
<1>1. CommandFits(f) /\ StageFits(f) /\ f.pc \in Steps /\ f.pc \notin Stages
  BY DEF CommandFits, StageFits, DoctorFits, Steps, Stages, Untouched
<1> QED
  BY <1>1 DEF CallFits

LEMMA AfterChecksStep ==
    ASSUME NEW i, NEW f, IsCall(f), CodesFit(f), f.setup \in Setups[i], f.setup.cmd \in Doctors,
           Refusal(f.setup) = 0, f.batch = {}
    PROVE  CallFits(i, AfterChecks(f)) /\ AfterChecks(f).pc \in {"scan", "ended"}
<1>1. PICK c : c = Did(f, <<"check", NoOne>>)
  OBVIOUS
<1>2. Booked(c, f, {<<"check", NoOne>>}, {}, {}) /\ CodesFit(c)
  BY <1>1, DidBooks
<1>3. /\ IsCall(c) /\ c.setup = f.setup /\ <<"check", NoOne>> \in c.done /\ c.batch = {}
      /\ c.hit = f.hit /\ c.codes = f.codes
  BY <1>2 DEF Booked
<1>4. CASE f.setup.cmd = "doctor --deep" /\ <<"database", NoOne>> \notin f.hit
  <2>1. PICK q : q = [c EXCEPT !.pc = "scan"]
    OBVIOUS
  <2>2. Record(q, "scan", c.setup, c.seen, c.todo, c.batch, c.done, c.hit, c.codes, c.wrote)
    BY <1>3, <2>1, PcRow
  <2>3. /\ IsCall(q) /\ q.pc = "scan" /\ q.setup = c.setup /\ q.done = c.done
        /\ q.hit = c.hit /\ q.codes = c.codes /\ q.wrote = c.wrote /\ q.batch = c.batch
        /\ q.seen = c.seen
    BY <2>2 DEF Record
  <2>4. CodesFit(q)
    BY <1>2, <2>3, SameMet
  <2>5. CommandFits(q) /\ StageFits(q) /\ q.pc \in Steps /\ q.pc \notin Stages
    BY <1>3, <1>4, <2>3 DEF CommandFits, StageFits, DoctorFits, Steps, Stages, Untouched
  <2>6. CallFits(i, q)
    BY <1>3, <2>3, <2>4, <2>5 DEF CallFits
  <2>7. AfterChecks(f) = q
    BY <1>1, <1>4, <2>1 DEF AfterChecks
  <2> QED  BY <2>3, <2>6, <2>7
<1>5. CASE ~(f.setup.cmd = "doctor --deep" /\ <<"database", NoOne>> \notin f.hit)
  <2>1. AfterChecks(f) = Ended(c)
    BY <1>1, <1>5 DEF AfterChecks
  <2>2. c.codes = {} => Due(c.setup) \subseteq c.done
    <3> SUFFICES ASSUME c.codes = {}
                 PROVE  Due(c.setup) \subseteq c.done
      OBVIOUS
    <3>1. f.hit = {}
      BY <1>3 DEF CodesFit, RateLimited, Doctors
    <3>2. f.setup.cmd = "doctor"
      BY <1>5, <3>1 DEF Doctors
    <3> QED  BY <1>3, <3>2, DoctorIs
  <2>3. c.setup.cmd \notin {"run", "ai-run", "publish-all"}
    BY <1>3, DoctorIs
  <2>4. CallFits(i, Ended(c)) /\ Ended(c).pc = "ended"
    BY <1>2, <1>3, <2>2, <2>3, PlainEndFits
  <2> QED  BY <2>1, <2>4
<1> QED
  BY <1>4, <1>5

LEMMA DoctorStep ==
    ASSUME CommandsAssumption, Inv, NEW i \in Invocations, Doctor(i)
    PROVE  Inv'
<1>1. PICK r : r = call[i]
  OBVIOUS
<1>2. r.pc = "doctor" /\ UNCHANGED <<backend, applied, lock>>
  BY <1>1 DEF Doctor
<1>3. /\ IsCall(r) /\ CodesFit(r) /\ r.setup \in Setups[i] /\ r.batch = {}
      /\ Refusal(r.setup) = 0 /\ r.setup.cmd \in Doctors
  BY <1>1, <1>2, UnderWay DEF Busy, Steps, StageFits, DoctorFits, CommandFits
<1>4. ASSUME NEW f, IsCall(f), CodesFit(f), f.setup = r.setup, f.batch = {}, f.pc = "doctor",
             Becomes(i, Advanced(f, AfterChecks))
      PROVE  Inv'
  <2>1. PICK rest : rest = [f EXCEPT !.todo = Tail(f.todo)]
    OBVIOUS
  <2>2. Record(rest, f.pc, f.setup, f.seen, Tail(f.todo), f.batch, f.done, f.hit, f.codes, f.wrote)
    BY <1>4, <2>1, TodoRow
  <2>3. /\ IsCall(rest) /\ rest.pc = "doctor" /\ rest.setup = r.setup /\ rest.batch = {}
        /\ rest.done = f.done /\ rest.hit = f.hit /\ rest.codes = f.codes /\ rest.wrote = f.wrote
    BY <1>4, <2>2 DEF Record
  <2>4. CodesFit(rest)
    BY <1>4, <2>3, SameMet
  <2>5. CallFits(i, rest)
    BY <1>3, <2>3, <2>4, DoctorGoesOn
  <2>6. CallFits(i, AfterChecks(rest)) /\ AfterChecks(rest).pc \in {"scan", "ended"}
    BY <1>3, <2>3, <2>4, AfterChecksStep
  <2>7. Becomes(i, AfterChecks(rest)) \/ Becomes(i, rest)
    BY <1>4, <2>1 DEF Advanced
  <2> QED  BY <1>1, <1>2, <2>3, <2>5, <2>6, <2>7, StageMoved DEF Stages
<1>5. PICK what \in {"database", "check"} :
         \/ Becomes(i, Advanced(Hit(r, <<what, NoOne>>), AfterChecks))
         \/ Becomes(i, Advanced(r, AfterChecks))
  BY <1>1 DEF Doctor
<1>6. CASE Becomes(i, Advanced(Hit(r, <<what, NoOne>>), AfterChecks))
  <2>1. PICK f : f = Hit(r, <<what, NoOne>>)
    OBVIOUS
  <2>2. Booked(f, r, {}, {<<what, NoOne>>}, {1}) /\ CodesFit(f)
    BY <1>3, <2>1, HitBooks DEF Refused
  <2> QED  BY <1>2, <1>3, <1>4, <1>6, <2>1, <2>2 DEF Booked
<1>7. CASE Becomes(i, Advanced(r, AfterChecks))
  BY <1>2, <1>3, <1>4, <1>7
<1> QED
  BY <1>5, <1>6, <1>7

LEMMA DeepScanStep ==
    ASSUME CommandsAssumption, Inv, NEW i \in Invocations, DeepScan(i)
    PROVE  Inv'
<1>1. PICK r : r = call[i]
  OBVIOUS
<1>2. r.pc = "scan" /\ UNCHANGED <<backend, applied, lock>>
  BY <1>1 DEF DeepScan
<1>3. /\ IsCall(r) /\ CodesFit(r) /\ r.setup \in Setups[i] /\ <<"check", NoOne>> \in r.done
      /\ r.setup.cmd = "doctor --deep" /\ r.setup.cmd \in Doctors
  BY <1>1, <1>2, UnderWay DEF Busy, Steps, StageFits, DoctorFits, CommandFits, Doctors
<1>4. PICK f1, f2 : f1 = Did(r, <<"scan", NoOne>>) /\ f2 = Hit(r, <<"scan", NoOne>>)
  OBVIOUS
<1>5. Booked(f1, r, {<<"scan", NoOne>>}, {}, {}) /\ CodesFit(f1)
  BY <1>3, <1>4, DidBooks
<1>6. Booked(f2, r, {}, {<<"scan", NoOne>>}, {1}) /\ CodesFit(f2)
  BY <1>3, <1>4, HitBooks DEF Refused
<1>7. Due(r.setup) = {<<"check", NoOne>>, <<"scan", NoOne>>}
      /\ r.setup.cmd \notin {"run", "ai-run", "publish-all"}
  BY <1>3, DoctorIs
<1>8. CallFits(i, Ended(f1)) /\ Ended(f1).pc = "ended"
  <2>1. IsCall(f1) /\ f1.setup = r.setup /\ Due(r.setup) \subseteq f1.done
    BY <1>3, <1>5, <1>7 DEF Booked
  <2> QED  BY <1>3, <1>5, <1>7, <2>1, PlainEndFits
<1>9. CallFits(i, Ended(f2)) /\ Ended(f2).pc = "ended"
  <2>1. IsCall(f2) /\ f2.setup = r.setup /\ f2.codes # {}
    BY <1>6 DEF Booked
  <2> QED  BY <1>3, <1>6, <1>7, <2>1, PlainEndFits
<1>10. Becomes(i, Ended(f1)) \/ Becomes(i, Ended(f2))
  BY <1>1, <1>4 DEF DeepScan
<1> QED
  BY <1>1, <1>2, <1>8, <1>9, <1>10, StageMoved DEF Stages

\* A killed call leaves nothing behind but what is in the database.
LEMMA CrashStep ==
    ASSUME CommandsAssumption, Inv, NEW i \in Invocations, Crash(i)
    PROVE  Inv'
<1>1. PICK q : q = [NotCalled EXCEPT !.pc = "crashed"]
  OBVIOUS
<1>2. Record(q, "crashed", NoOne, 0, <<>>, {}, {}, {}, {}, FALSE)
  BY <1>1, CrashedRow
<1>3. IsCall(q) /\ q.pc = "crashed"
  BY <1>2 DEF Record
<1>4. CallFits(i, q)
  BY <1>3 DEF CallFits, Silent, Steps
<1>5. Becomes(i, q) /\ UNCHANGED <<backend, applied>> /\ lock' = Unlocked(i)
  BY <1>1 DEF Crash
<1>6. \A j \in Invocations : call'[j] = IF j = i THEN q ELSE call[j]
  BY <1>5 DEF Inv, Becomes
<1>7. NoOne \notin Invocations
  BY DEF CommandsAssumption
<1>8. SchemaFits'
  BY <1>3, <1>5, <1>6, <1>7 DEF Inv, SchemaFits, Stages, Unlocked
<1> QED
  BY <1>4, <1>5, <1>8, Moved

-----------------------------------------------------------------------------
(* The invariant holds, and what follows from it.                          *)

LEMMA InvInit ==
    ASSUME CommandsAssumption, Init
    PROVE  Inv
<1>1. \A i \in Invocations : call[i] = NotCalled
  BY DEF Init
<1>2. IsCall(NotCalled) /\ NotCalled.pc = "idle"
  BY NotCalledIs DEF Record
<1>3. \A i \in Invocations : CallFits(i, call[i])
  BY <1>1, <1>2 DEF CallFits, Silent, Steps
<1>4. SchemaFits
  BY <1>1, <1>2 DEF Init, SchemaFits, Stages, CommandsAssumption
<1> QED
  BY <1>3, <1>4 DEF Init, Inv

LEMMA InvStep ==
    ASSUME CommandsAssumption, Inv, [Next]_vars
    PROVE  Inv'
<1>1. CASE UNCHANGED vars
  BY <1>1 DEF vars, Inv, SchemaFits
<1>2. ASSUME NEW i \in Invocations,
             \/ Start(i) \/ OpenForReading(i) \/ Gate(i) \/ Open(i) \/ Migrate(i) \/ Migrated(i)
             \/ Ingest(i) \/ AiCategory(i) \/ PublishPreflight(i) \/ PublishRules(i)
             \/ PublishCategory(i) \/ PublishBatch(i) \/ Work(i) \/ Reindex(i)
             \/ PrepareDecisions(i) \/ DecideCategory(i) \/ LaterRounds(i)
             \/ OpenForDoctor(i) \/ Doctor(i) \/ DeepScan(i) \/ Crash(i)
      PROVE  Inv'
  BY <1>2, StartStep, OpenForReadingStep, GateStep, OpenStep, MigrateStep, MigratedStep,
     IngestStep, AiCategoryStep, PublishPreflightStep, PublishRulesStep, PublishCategoryStep,
     PublishBatchStep, WorkStep, PrepareDecisionsStep, DecideCategoryStep, LaterRoundsStep, ReindexStep, OpenForDoctorStep, DoctorStep, DeepScanStep, CrashStep
<1> QED
  BY <1>1, <1>2 DEF Next

LEMMA InvHolds ==
    ASSUME CommandsAssumption
    PROVE  Spec => []Inv
<1>1. Init => Inv
  BY InvInit
<1>2. Inv /\ [Next]_vars => Inv'
  BY InvStep
<1> QED
  BY <1>1, <1>2, PTL DEF Spec

\* What is known of a call that is over.
LEMMA OverIs ==
    ASSUME Inv, NEW i \in Invocations, Over(i)
    PROVE  LET r == call[i] IN
           /\ IsCall(r) /\ r.setup \in Setups[i] /\ CodesFit(r) /\ Accounted(r)
           /\ r.exit = Worst(r.codes)
           /\ r.exit = 0 <=> r.codes = {}
           /\ r.exit = 78 <=> 78 \in r.codes
<1>1. PICK r : r = call[i]
  OBVIOUS
<1>2. IsCall(r) /\ r.setup \in Setups[i] /\ CodesFit(r) /\ EndedFits(r)
  BY <1>1 DEF Inv, CallFits, Over, Silent, StageFits
<1>3. r.codes \in SUBSET {1, 2, 78}
  BY <1>2 DEF IsCall
<1>4. /\ Worst(r.codes) = 0 <=> r.codes = {}
      /\ Worst(r.codes) = 78 <=> 78 \in r.codes
  BY <1>3, WorstIs
<1> QED
  BY <1>1, <1>2, <1>4 DEF EndedFits

\* ExitIsTrue, for any calls that overlap, migrate, crash and fail in any way:
\* a call ends with 0 only when all it owes was carried through and nothing
\* failed, or when a rate limit alone stopped a decision-run; one whose provider
\* refuses it ends with 78, and so does a run in which a category lacks its
\* credentials.
THEOREM CommandsExitIsTrue ==
    ASSUME CommandsAssumption
    PROVE  Spec => []ExitIsTrue
<1>1. Inv => ExitIsTrue
  <2> SUFFICES ASSUME Inv, NEW i \in Invocations, Over(i)
               PROVE  LET r == call[i] IN
                      /\ r.exit = 0 => RateLimited(r) \/ (Due(r.setup) \subseteq r.done /\ r.hit = {})
                      /\ Refused \in r.hit => r.exit = 78
                      /\ r.setup.cmd = "run" /\ <<"ingest", NoOne>> \in r.done
                         /\ Unprovided(r.setup) # {} => r.exit = 78
    BY DEF ExitIsTrue, Refused
  <2>1. PICK r : r = call[i]
    OBVIOUS
  <2>2. /\ CodesFit(r) /\ Accounted(r)
        /\ r.exit = 0 <=> r.codes = {}
        /\ r.exit = 78 <=> 78 \in r.codes
    BY <2>1, OverIs
  <2> QED  BY <2>1, <2>2 DEF CodesFit, Accounted
<1> QED
  BY <1>1, InvHolds, PTL

\* OneCategoryStopsNoOther, for any number of categories: a category that has
\* what it needs is worked on, whatever becomes of the others, unless the
\* rules of the whole publish stage cannot be read.
THEOREM CommandsOneCategoryStopsNoOther ==
    ASSUME CommandsAssumption
    PROVE  Spec => []OneCategoryStopsNoOther
<1>1. Inv => OneCategoryStopsNoOther
  <2> SUFFICES ASSUME Inv, NEW i \in Invocations, Over(i), Reached(call[i]),
                      NEW cat \in ToSet(CatsOf(call[i].setup))
               PROVE  LET r == call[i]
                          s == r.setup
                      IN  /\ \/ s.cmd = "ai-run"
                             \/ s.cmd = "run" /\ <<"ingest", NoOne>> \in r.done /\ CfgOf(s).ai
                             => \/ <<"ai", cat.key>> \in r.done \cup r.hit
                                \/ cat \in Unprovided(s)
                                \/ ~FitsItsLease(s, cat)
                          /\ \/ s.cmd = "publish-all"
                             \/ s.cmd = "run" /\ <<"ingest", NoOne>> \in r.done
                                /\ PublishReady(CfgOf(s), s.env, s.local)
                             => <<"publish", cat.key>> \in r.done \cup r.hit \/ <<"rules", NoOne>> \in r.hit
    BY DEF OneCategoryStopsNoOther
  <2>1. PICK r : r = call[i]
    OBVIOUS
  <2>2. Accounted(r) /\ Reached(r)
    BY <2>1, OverIs
  <2>3. cat \in ToSet(CatsOf(r.setup))
    BY <2>1
  <2>4. AiMet(r, cat) => \/ <<"ai", cat.key>> \in r.done \cup r.hit
                         \/ cat \in Unprovided(r.setup)
                         \/ ~FitsItsLease(r.setup, cat)
    BY DEF AiMet
  <2> QED  BY <2>1, <2>2, <2>3, <2>4 DEF Accounted, AiMetBut
<1> QED
  BY <1>1, InvHolds, PTL

\* RefusedLeavesNoTrace: from a command that checks before it opens the database,
\* the code 78 means that the database was not touched, or that the provider of a
\* decision-run refused it.
THEOREM CommandsRefusedLeavesNoTrace ==
    ASSUME CommandsAssumption
    PROVE  Spec => []RefusedLeavesNoTrace
<1>1. Inv => RefusedLeavesNoTrace
  <2> SUFFICES ASSUME Inv, NEW i \in Invocations, Over(i), call[i].exit = 78,
                      ChecksFirst(call[i].setup), Refused \notin call[i].hit
               PROVE  ~call[i].wrote
    BY DEF RefusedLeavesNoTrace, Refused
  <2>1. PICK r : r = call[i]
    OBVIOUS
  <2>2. CodesFit(r) /\ (r.exit = 78 <=> 78 \in r.codes)
    BY <2>1, OverIs
  <2> QED  BY <2>1, <2>2 DEF CodesFit
<1> QED
  BY <1>1, InvHolds, PTL

\* ValidatedIsRunnable, for every configuration, environment and call: what
\* validate-config or doctor accepts ends with 78 only for what they leave out,
\* each of these being named in the property.
THEOREM CommandsValidatedIsRunnable ==
    ASSUME CommandsAssumption
    PROVE  Spec => []ValidatedIsRunnable
<1>1. Inv => ValidatedIsRunnable
  <2> SUFFICES ASSUME Inv, NEW i \in Invocations, Over(i), call[i].exit = 78
               PROVE  Blamed(call[i].setup) \/ Told(call[i])
    BY DEF ValidatedIsRunnable, Blamed, Told, Decides, Refused
  <2>1. PICK r : r = call[i]
    OBVIOUS
  <2>2. CodesFit(r) /\ (r.exit = 78 <=> 78 \in r.codes)
    BY <2>1, OverIs
  <2> QED  BY <2>1, <2>2 DEF CodesFit
<1> QED
  BY <1>1, InvHolds, PTL

\* WorksOnItsSchema, for any releases at one database: a command works only
\* where all its migrations are applied, and whoever holds their lock is alone.
THEOREM CommandsWorksOnItsSchema ==
    ASSUME CommandsAssumption
    PROVE  Spec => []WorksOnItsSchema
<1>1. Inv => WorksOnItsSchema
  BY DEF Inv, SchemaFits, WorksOnItsSchema, Stages
<1> QED
  BY <1>1, InvHolds, PTL

-----------------------------------------------------------------------------
(* The paths of reports.                                                   *)

\* Two equal sequences that end in pieces of one length have the same pieces.
LEMMA SameEnds ==
    ASSUME NEW X, NEW s \in Seq(X), NEW t \in Seq(X), NEW u \in Seq(X), NEW v \in Seq(X),
           Len(u) = Len(v), s \o u = t \o v
    PROVE  s = t /\ u = v
<1>1. /\ Len(s) \in Nat /\ Len(t) \in Nat /\ Len(u) \in Nat
      /\ Len(s \o u) = Len(s) + Len(u) /\ Len(t \o v) = Len(t) + Len(v)
  OBVIOUS
<1>2. Len(s) = Len(t)
  BY <1>1
<1>3. ASSUME NEW n \in 1..Len(s)
      PROVE  s[n] = t[n]
  <2>1. (s \o u)[n] = s[n] /\ (t \o v)[n] = t[n]
    BY <1>1, <1>2
  <2> QED  BY <2>1
<1>4. ASSUME NEW n \in 1..Len(u)
      PROVE  u[n] = v[n]
  <2>1. Len(s) + n \in 1..(Len(s) + Len(u)) /\ ~(Len(s) + n <= Len(s)) /\ (Len(s) + n) - Len(s) = n
    BY <1>1
  <2>2. (s \o u)[Len(s) + n] = u[n] /\ (t \o v)[Len(t) + n] = v[n]
    BY <1>1, <1>2, <2>1
  <2> QED  BY <1>2, <2>2
<1>5. s = [n \in 1..Len(s) |-> s[n]] /\ t = [n \in 1..Len(s) |-> t[n]]
  BY <1>2
<1>6. u = [n \in 1..Len(u) |-> u[n]] /\ v = [n \in 1..Len(u) |-> v[n]]
  OBVIOUS
<1>7. s = t
  BY <1>3, <1>5
<1>8. u = v
  BY <1>4, <1>6
<1> QED
  BY <1>7, <1>8

\* A function on 1..n is a sequence.
LEMMA FunctionIsSeq ==
    ASSUME NEW Y, NEW n \in Nat, NEW f \in [1..n -> Y]
    PROVE  f \in Seq(Y) /\ Len(f) = n
<1>1. PICK g : g = [k \in 1..n |-> f[k]]
  OBVIOUS
<1>2. f = g
  BY <1>1
<1>3. \A k \in 1..n : f[k] \in Y
  OBVIOUS
<1>4. g \in Seq(Y) /\ Len(g) = n
  BY <1>1, <1>3
<1> QED  BY <1>2, <1>4

\* FlattenSeq appends one piece after the other.
Flattens(f, W, X) ==
    /\ f \in [1..Len(W) -> Seq(X)]
    /\ f[1] = W[1] /\ FlattenSeq(W) = f[Len(W)]
    /\ \A n \in 2..Len(W) : f[n] = f[n - 1] \o W[n]

LEMMA FlattenIs ==
    ASSUME NEW X, NEW W \in Seq(Seq(X)), Len(W) # 0
    PROVE  \E f : Flattens(f, W, X)
<1> DEFINE L == Len(W)
           Good(k) == {f \in [1..k -> Seq(X)] :
                          f[1] = W[1] /\ \A n \in 2..k : f[n] = f[n - 1] \o W[n]}
           Missing == {k \in 1..L : Good(k) = {}}
<1>1. L \in Nat \ {0} /\ \A n \in 1..L : W[n] \in Seq(X)
  OBVIOUS
<1> HIDE DEF Good
<1>3. Missing = {}
  <2> SUFFICES ASSUME Missing # {} PROVE FALSE
    OBVIOUS
  <2>0. Missing \in SUBSET Nat
    <3>1. 1..L \subseteq Nat
      BY <1>1
    <3> QED  BY <3>1
  <2> HIDE DEF Missing
  <2>1. PICK m \in Missing : \A k \in Missing : m <= k
    BY <2>0, LeastId
  <2>2. m \in 1..L /\ Good(m) = {}
    BY <2>1 DEF Missing
  <2>3. CASE m = 1
    <3> DEFINE g == [n \in 1..1 |-> W[1]]
    <3>1. g \in [1..1 -> Seq(X)] /\ g[1] = W[1] /\ \A n \in 2..1 : g[n] = g[n - 1] \o W[n]
      BY <1>1
    <3> HIDE DEF g
    <3>2. g \in Good(1)
      BY <3>1 DEF Good
    <3> QED  BY <3>2, <2>2, <2>3
  <2>4. CASE m # 1
    <3>1. m - 1 \in 1..L /\ ~(m <= m - 1) /\ m \in 2..L
      BY <1>1, <2>2, <2>4
    <3>2. m - 1 \notin Missing
      BY <3>1, <2>1
    <3>3. PICK f : f \in Good(m - 1)
      BY <3>1, <3>2 DEF Missing
    <3>4. /\ f \in [1..(m - 1) -> Seq(X)] /\ f[1] = W[1]
          /\ \A n \in 2..(m - 1) : f[n] = f[n - 1] \o W[n]
      BY <3>3 DEF Good
    <3> DEFINE g == [n \in 1..m |-> IF n = m THEN f[m - 1] \o W[m] ELSE f[n]]
    <3>5. f[m - 1] \o W[m] \in Seq(X)
      <4>1. f[m - 1] \in Seq(X) /\ W[m] \in Seq(X)
        BY <1>1, <2>2, <3>1, <3>4
      <4> QED  BY <4>1
    <3>6. g \in [1..m -> Seq(X)]
      BY <3>1, <3>4, <3>5
    <3>7. g[1] = W[1]
      BY <3>1, <3>4, <2>4
    <3>8. ASSUME NEW n \in 2..m
          PROVE  g[n] = g[n - 1] \o W[n]
      <4>1. n - 1 \in 1..m /\ n - 1 # m /\ g[n - 1] = f[n - 1] /\ n \in 1..m
        BY <3>1
      <4>2. CASE n = m
        BY <4>1, <4>2
      <4>3. CASE n # m
        <5>1. n \in 2..(m - 1)
          BY <3>1, <4>3
        <5>2. g[n] = f[n]
          BY <4>1, <4>3
        <5> QED  BY <5>1, <5>2, <3>4, <4>1
      <4> QED  BY <4>2, <4>3
    <3> HIDE DEF g
    <3>9. g \in Good(m)
      BY <3>6, <3>7, <3>8 DEF Good
    <3> QED  BY <3>9, <2>2
  <2> QED  BY <2>3, <2>4
<1>4. PICK f : f \in Good(L)
  <2>1. L \in 1..L
    BY <1>1
  <2>2. Good(L) # {}
    BY <2>1, <1>3
  <2> QED  BY <2>2
<1>5. /\ f \in [1..L -> Seq(X)] /\ f[1] = W[1]
      /\ \A n \in 2..L : f[n] = f[n - 1] \o W[n]
  BY <1>4 DEF Good
<1> DEFINE Meets(g) == g = [i \in 1..Len(W) |-> IF i = 1 THEN W[i] ELSE g[i - 1] \o W[i]]
           flatten == CHOOSE g : Meets(g)
<1>6. Meets(f)
  <2>1. ASSUME NEW n \in 1..L
        PROVE  f[n] = IF n = 1 THEN W[n] ELSE f[n - 1] \o W[n]
    <3>1. n = 1 \/ n \in 2..L
      BY <1>1
    <3>2. CASE n = 1
      BY <1>5, <3>2
    <3>3. CASE n \in 2..L /\ n # 1
      BY <1>5, <3>3
    <3> QED  BY <3>1, <3>2, <3>3
  <2>2. f = [n \in 1..L |-> f[n]]
    BY <1>5
  <2> QED  BY <2>1, <2>2
<1>7. Meets(flatten)
  <2> HIDE DEF Meets
  <2> QED  BY <1>6
<1>8. /\ DOMAIN flatten = 1..L
      /\ \A n \in 1..L : flatten[n] = IF n = 1 THEN W[n] ELSE flatten[n - 1] \o W[n]
  <2> HIDE DEF flatten
  <2> QED  BY <1>7
<1>9. FlattenSeq(W) = flatten[L]
  BY DEF FlattenSeq
<1> HIDE DEF flatten
<1>10. \A n \in 1..L : flatten[n] \in Seq(X)
  <2> DEFINE Bad == {n \in 1..L : flatten[n] \notin Seq(X)}
  <2> SUFFICES ASSUME Bad # {} PROVE FALSE
    OBVIOUS
  <2>0. Bad \in SUBSET Nat
    BY <1>1
  <2> HIDE DEF Bad
  <2>1. PICK m \in Bad : \A k \in Bad : m <= k
    BY <2>0, LeastId
  <2>2. m \in 1..L /\ flatten[m] \notin Seq(X)
    BY <2>1 DEF Bad
  <2>3. m # 1
    BY <1>1, <1>8, <2>2
  <2>4. m - 1 \in 1..L /\ ~(m <= m - 1)
    BY <1>1, <2>2, <2>3
  <2>5. flatten[m - 1] \in Seq(X) /\ W[m] \in Seq(X)
    BY <1>1, <2>2, <2>4, <2>1 DEF Bad
  <2>6. flatten[m - 1] \o W[m] \in Seq(X)
    BY <2>5
  <2> QED  BY <2>2, <2>3, <2>6, <1>8
<1>11. flatten = [n \in 1..L |-> flatten[n]]
  <2>1. Meets(flatten)
    BY <1>7
  <2> QED  BY <2>1, <1>8
<1>12. flatten \in [1..L -> Seq(X)]
  BY <1>10, <1>11
<1>13. flatten[1] = W[1]
  <2>1. 1 \in 1..L
    BY <1>1
  <2> QED  BY <2>1, <1>8
<1>14. ASSUME NEW n \in 2..L
       PROVE  flatten[n] = flatten[n - 1] \o W[n]
  <2>1. n \in 1..L /\ n # 1
    BY <1>1
  <2> QED  BY <2>1, <1>8
<1> QED
  BY <1>9, <1>12, <1>13, <1>14 DEF Flattens

\* Pieces of the same lengths can be told apart in what they are flattened to.
LEMMA SamePieces ==
    ASSUME NEW X, NEW V \in Seq(Seq(X)), NEW W \in Seq(Seq(X)), Len(V) = Len(W), Len(V) # 0,
           \A n \in 1..Len(V) : Len(V[n]) = Len(W[n]),
           FlattenSeq(V) = FlattenSeq(W)
    PROVE  \A n \in 1..Len(V) : V[n] = W[n]
<1> DEFINE L == Len(V)
<1>1. L \in Nat \ {0} /\ \A n \in 1..L : V[n] \in Seq(X) /\ W[n] \in Seq(X)
  OBVIOUS
<1>2. PICK f : Flattens(f, V, X)
  BY FlattenIs
<1>3. PICK g : Flattens(g, W, X)
  <2>1. Len(W) # 0
    OBVIOUS
  <2> QED  BY <2>1, FlattenIs
<1>4. ASSUME NEW n \in 2..L, f[n] = g[n]
      PROVE  f[n - 1] = g[n - 1] /\ V[n] = W[n]
  <2>1. n - 1 \in 1..L /\ n \in 1..L
    BY <1>1
  <2>2. PICK s, t, u, v : s = f[n - 1] /\ t = g[n - 1] /\ u = V[n] /\ v = W[n]
    OBVIOUS
  <2>3. s \in Seq(X) /\ t \in Seq(X) /\ u \in Seq(X) /\ v \in Seq(X)
    BY <1>1, <1>2, <1>3, <2>1, <2>2 DEF Flattens
  <2>4. s \o u = t \o v /\ Len(u) = Len(v)
    BY <1>2, <1>3, <1>4, <2>1, <2>2 DEF Flattens
  <2>5. s = t /\ u = v
    BY <2>3, <2>4, SameEnds
  <2> QED  BY <2>2, <2>5
<1> DEFINE Same == {n \in 1..L : \A k \in n..L : f[k] = g[k]}
<1>5. L \in Same /\ Same \in SUBSET Nat
  <2>1. L \in 1..L /\ 1..L \subseteq Nat /\ \A k \in L..L : k = L
    BY <1>1
  <2>2. f[L] = g[L]
    BY <1>2, <1>3 DEF Flattens
  <2> QED  BY <2>1, <2>2
<1>6. PICK m \in Same : \A k \in Same : m <= k
  <2> HIDE DEF Same
  <2> QED  BY <1>5, LeastId
<1>7. m \in 1..L /\ \A k \in m..L : f[k] = g[k]
  BY <1>6
<1>8. m = 1
  <2> SUFFICES ASSUME m # 1 PROVE FALSE
    OBVIOUS
  <2>1. m \in 2..L /\ m - 1 \in 1..L /\ ~(m <= m - 1)
    BY <1>1, <1>7
  <2>2. f[m] = g[m]
    BY <1>1, <1>7, <2>1
  <2>3. f[m - 1] = g[m - 1]
    BY <1>4, <2>1, <2>2
  <2>4. \A k \in (m - 1)..L : k = m - 1 \/ k \in m..L
    BY <1>1, <2>1
  <2>5. m - 1 \in Same
    BY <1>7, <2>1, <2>3, <2>4
  <2> HIDE DEF Same
  <2> QED  BY <1>6, <2>1, <2>5
<1> SUFFICES ASSUME NEW n \in 1..L PROVE V[n] = W[n]
  OBVIOUS
<1>9. f[n] = g[n]
  BY <1>7, <1>8
<1>10. CASE n = 1
  <2>1. f[1] = V[1] /\ g[1] = W[1]
    BY <1>2, <1>3 DEF Flattens
  <2> QED  BY <2>1, <1>9, <1>10
<1>11. CASE n # 1
  <2>1. n \in 2..L
    BY <1>1, <1>11
  <2> QED  BY <2>1, <1>4, <1>9
<1> QED
  BY <1>10, <1>11

\* How long a word becomes does not depend on the day, and it tells what it
\* names of the day.
Tells(w, a, b) ==
    /\ w \in {"{date}", "{YYYYMMDD}"} => a.y = b.y /\ a.m = b.m /\ a.d = b.d
    /\ w = "{YYYY}" => a.y = b.y
    /\ w = "{MM}" => a.m = b.m
    /\ w = "{DD}" => a.d = b.d

WordFits(w, key, a, b, X) ==
    /\ Words(w, key, a) \in Seq(X) /\ Words(w, key, b) \in Seq(X)
    /\ Len(Words(w, key, a)) = Len(Words(w, key, b))
    /\ Words(w, key, a) = Words(w, key, b) => Tells(w, a, b)

LEMMA WordsAre ==
    ASSUME NEW w, NEW key, NEW a, NEW b, NEW X, w \in X, {key, Upper[key], "-"} \subseteq X,
           {a.y, a.m, a.d, b.y, b.m, b.d} \subseteq X
    PROVE  WordFits(w, key, a, b, X)
<1> DEFINE ya == a.y
           ma == a.m
           da == a.d
           yb == b.y
           mb == b.m
           db == b.d
           up == Upper[key]
<1>0. ya \in X /\ ma \in X /\ da \in X /\ yb \in X /\ mb \in X /\ db \in X /\ up \in X /\ key \in X
      /\ "-" \in X
  OBVIOUS
<1>1. CASE w = "{category_key}"
  <2>1. Words(w, key, a) = <<key>> /\ Words(w, key, b) = <<key>>
    BY <1>1 DEF Words
  <2>2. <<key>> \in Seq(X)
    BY <1>0
  <2> QED  BY <1>1, <2>1, <2>2 DEF WordFits, Tells
<1>2. CASE w = "{CATEGORY_KEY}"
  <2>1. Words(w, key, a) = <<up>> /\ Words(w, key, b) = <<up>>
    BY <1>2 DEF Words
  <2>2. <<up>> \in Seq(X)
    <3> HIDE DEF up
    <3> QED  BY <1>0
  <2> QED  BY <1>2, <2>1, <2>2 DEF WordFits, Tells
<1>3. CASE w = "{date}"
  <2>1. Words(w, key, a) = <<ya, "-", ma, "-", da>> /\ Words(w, key, b) = <<yb, "-", mb, "-", db>>
    BY <1>3 DEF Words
  <2>2. <<ya, "-", ma, "-", da>> = <<yb, "-", mb, "-", db>> => ya = yb /\ ma = mb /\ da = db
    OBVIOUS
  <2>3. w # "{YYYY}" /\ w # "{MM}" /\ w # "{DD}"
    BY <1>3
  <2>4. <<ya, "-", ma, "-", da>> \in Seq(X) /\ <<yb, "-", mb, "-", db>> \in Seq(X)
        /\ Len(<<ya, "-", ma, "-", da>>) = 5 /\ Len(<<yb, "-", mb, "-", db>>) = 5
    <3> HIDE DEF ya, ma, da, yb, mb, db
    <3> QED  BY <1>0
  <2> QED  BY <2>1, <2>2, <2>3, <2>4 DEF WordFits, Tells
<1>4. CASE w = "{YYYYMMDD}"
  <2>1. Words(w, key, a) = <<ya, ma, da>> /\ Words(w, key, b) = <<yb, mb, db>>
    BY <1>4 DEF Words
  <2>2. <<ya, ma, da>> = <<yb, mb, db>> => ya = yb /\ ma = mb /\ da = db
    OBVIOUS
  <2>3. w # "{YYYY}" /\ w # "{MM}" /\ w # "{DD}"
    BY <1>4
  <2>4. <<ya, ma, da>> \in Seq(X) /\ <<yb, mb, db>> \in Seq(X)
        /\ Len(<<ya, ma, da>>) = 3 /\ Len(<<yb, mb, db>>) = 3
    <3> HIDE DEF ya, ma, da, yb, mb, db
    <3> QED  BY <1>0
  <2> QED  BY <2>1, <2>2, <2>3, <2>4 DEF WordFits, Tells
<1>5. CASE w = "{YYYY}"
  <2>1. Words(w, key, a) = <<ya>> /\ Words(w, key, b) = <<yb>>
    BY <1>5 DEF Words
  <2>2. <<ya>> \in Seq(X) /\ <<yb>> \in Seq(X) /\ Len(<<ya>>) = 1 /\ Len(<<yb>>) = 1
        /\ (<<ya>> = <<yb>> => ya = yb)
    <3> HIDE DEF ya, yb
    <3> QED  BY <1>0
  <2> QED  BY <1>5, <2>1, <2>2 DEF WordFits, Tells
<1>6. CASE w = "{MM}"
  <2>1. Words(w, key, a) = <<ma>> /\ Words(w, key, b) = <<mb>>
    BY <1>6 DEF Words
  <2>2. <<ma>> \in Seq(X) /\ <<mb>> \in Seq(X) /\ Len(<<ma>>) = 1 /\ Len(<<mb>>) = 1
        /\ (<<ma>> = <<mb>> => ma = mb)
    <3> HIDE DEF ma, mb
    <3> QED  BY <1>0
  <2> QED  BY <1>6, <2>1, <2>2 DEF WordFits, Tells
<1>7. CASE w = "{DD}"
  <2>1. Words(w, key, a) = <<da>> /\ Words(w, key, b) = <<db>>
    BY <1>7 DEF Words
  <2>2. <<da>> \in Seq(X) /\ <<db>> \in Seq(X) /\ Len(<<da>>) = 1 /\ Len(<<db>>) = 1
        /\ (<<da>> = <<db>> => da = db)
    <3> HIDE DEF da, db
    <3> QED  BY <1>0
  <2> QED  BY <1>7, <2>1, <2>2 DEF WordFits, Tells
<1>8. CASE w \notin {"{category_key}", "{CATEGORY_KEY}", "{date}", "{YYYYMMDD}", "{YYYY}",
                    "{MM}", "{DD}"}
  <2>1. Words(w, key, a) = <<w>> /\ Words(w, key, b) = <<w>>
    BY <1>8 DEF Words
  <2>2. <<w>> \in Seq(X)
    OBVIOUS
  <2> QED  BY <1>8, <2>1, <2>2 DEF WordFits, Tells
<1> QED
  BY <1>1, <1>2, <1>3, <1>4, <1>5, <1>6, <1>7, <1>8

\* A good template makes two paths of two days.
LEMMA PathTellsDay ==
    ASSUME NEW tpl, tpl \in Seq(ToSet(tpl)), GoodTemplate(tpl), NEW key, NEW a, NEW b,
           a = [y |-> a.y, m |-> a.m, d |-> a.d], b = [y |-> b.y, m |-> b.m, d |-> b.d],
           PathOf(tpl, key, a) = PathOf(tpl, key, b)
    PROVE  a = b
<1>1. PICK X : X = ToSet(tpl) \cup {key, Upper[key], "-", a.y, a.m, a.d, b.y, b.m, b.d}
  OBVIOUS
<1>2. /\ DOMAIN tpl = 1..Len(tpl) /\ Len(tpl) \in Nat /\ Len(tpl) # 0
      /\ \A n \in 1..Len(tpl) : tpl[n] \in X
  <2>1. tpl # <<>>
    BY DEF GoodTemplate
  <2>2. \A n \in 1..Len(tpl) : tpl[n] \in ToSet(tpl)
    BY Elements
  <2> QED  BY <1>1, <2>1, <2>2
<1>3. PICK V : V = [n \in DOMAIN tpl |-> Words(tpl[n], key, a)]
  OBVIOUS
<1>4. PICK W : W = [n \in DOMAIN tpl |-> Words(tpl[n], key, b)]
  OBVIOUS
<1>5. ASSUME NEW n \in 1..Len(tpl)
      PROVE  WordFits(tpl[n], key, a, b, X)
  <2>1. {key, Upper[key], "-"} \subseteq X /\ {a.y, a.m, a.d, b.y, b.m, b.d} \subseteq X
    BY <1>1
  <2> QED  BY <1>2, <2>1, WordsAre
<1>6. V \in Seq(Seq(X)) /\ Len(V) = Len(tpl) /\ W \in Seq(Seq(X)) /\ Len(W) = Len(tpl)
  <2>1. V \in [1..Len(tpl) -> Seq(X)] /\ W \in [1..Len(tpl) -> Seq(X)]
    BY <1>2, <1>3, <1>4, <1>5 DEF WordFits
  <2>2. PICK Y, L : Y = Seq(X) /\ L = Len(tpl)
    OBVIOUS
  <2>3. V \in [1..L -> Y] /\ W \in [1..L -> Y] /\ L \in Nat
    BY <1>2, <2>1, <2>2
  <2>4. V \in Seq(Y) /\ Len(V) = L /\ W \in Seq(Y) /\ Len(W) = L
    BY <2>3, FunctionIsSeq
  <2> QED  BY <2>2, <2>4
<1>7. \A n \in 1..Len(tpl) : V[n] = Words(tpl[n], key, a) /\ W[n] = Words(tpl[n], key, b)
  BY <1>2, <1>3, <1>4
<1>8. FlattenSeq(V) = FlattenSeq(W)
  BY <1>3, <1>4 DEF PathOf
<1>9. \A n \in 1..Len(V) : Len(V[n]) = Len(W[n])
  BY <1>5, <1>6, <1>7 DEF WordFits
<1>10. \A n \in 1..Len(V) : V[n] = W[n]
  BY <1>2, <1>6, <1>8, <1>9, SamePieces
<1>11. \A n \in 1..Len(tpl) : Tells(tpl[n], a, b)
  BY <1>5, <1>6, <1>7, <1>10 DEF WordFits
<1>12. \A w \in ToSet(tpl) : \E n \in 1..Len(tpl) : tpl[n] = w
  BY <1>2 DEF ToSet
<1>13. \/ {"{date}", "{YYYYMMDD}"} \cap ToSet(tpl) # {}
       \/ {"{YYYY}", "{MM}", "{DD}"} \subseteq ToSet(tpl)
  BY DEF GoodTemplate, NamesItsDay
<1>14. a.y = b.y /\ a.m = b.m /\ a.d = b.d
  <2>1. CASE {"{date}", "{YYYYMMDD}"} \cap ToSet(tpl) # {}
    <3>1. PICK w \in ToSet(tpl) : w \in {"{date}", "{YYYYMMDD}"}
      BY <2>1
    <3>2. PICK n \in 1..Len(tpl) : tpl[n] = w
      BY <1>12
    <3> QED  BY <3>1, <3>2, <1>11 DEF Tells
  <2>2. CASE {"{YYYY}", "{MM}", "{DD}"} \subseteq ToSet(tpl)
    <3>1. "{YYYY}" \in ToSet(tpl) /\ "{MM}" \in ToSet(tpl) /\ "{DD}" \in ToSet(tpl)
      BY <2>2
    <3>2. PICK n \in 1..Len(tpl) : tpl[n] = "{YYYY}"
      BY <1>12, <3>1
    <3>3. PICK k \in 1..Len(tpl) : tpl[k] = "{MM}"
      BY <1>12, <3>1
    <3>4. PICK j \in 1..Len(tpl) : tpl[j] = "{DD}"
      BY <1>12, <3>1
    <3> QED  BY <3>2, <3>3, <3>4, <1>11 DEF Tells
  <2> QED  BY <1>13, <2>1, <2>2
<1> QED
  BY <1>14

\* A report stands where the configuration of a call that passed its checks puts
\* the category, on the day of the call.
Places(x, s, cat) ==
    /\ Structural(CfgOf(s), s.env)
    /\ x = [path |-> PathOf(TemplateOf(CfgOf(s), cat), cat.key, s.day),
            key |-> cat.key, day |-> s.day, cfg |-> s.cfg]

Reports ==
    \A x \in reports :
        \E i \in Invocations : \E s \in Setups[i] : \E cat \in ToSet(CfgOf(s).cats) :
            Places(x, s, cat)

LEMMA ReportsStep ==
    ASSUME CommandsAssumption, Inv, Reports, [Next]_vars
    PROVE  Reports'
<1>1. CASE reports' = reports
  BY <1>1 DEF Reports
<1>2. ASSUME NEW i \in Invocations, PublishCategory(i), reports' # reports
      PROVE  Reports'
  <2>1. PICK r : r = call[i]
    OBVIOUS
  <2>2. PICK s : s = r.setup
    OBVIOUS
  <2>3. PICK cat : cat = Head(r.todo)
    OBVIOUS
  <2>4. PICK x : x = [path |-> PathOf(TemplateOf(CfgOf(s), cat), cat.key, s.day),
                      key |-> cat.key, day |-> s.day, cfg |-> s.cfg]
    OBVIOUS
  <2>5. r.pc = "publish" /\ reports' = reports \cup {x}
    BY <1>2, <2>1, <2>2, <2>3, <2>4 DEF PublishCategory
  <2>6. CallFits(i, r)
    BY <2>1 DEF Inv
  <2>7. s \in Setups[i] /\ Refusal(s) = 0 /\ Line(r) /\ s.cmd \in {"run", "publish", "publish-all"}
    BY <2>2, <2>5, <2>6 DEF CallFits, Silent, StageFits, PublishFits, CommandFits, Publishes
  <2>8. Structural(CfgOf(s), s.env)
    BY <2>7, RefusalIs
  <2>9. CfgOf(s).cats \in Seq(ToSet(CfgOf(s).cats))
    BY <2>7 DEF CommandsAssumption, CfgOf
  <2>10. CatsOf(s) \in Seq(ToSet(CfgOf(s).cats))
    BY <2>9, SelectedIs DEF CatsOf
  <2>11. ToSet(CatsOf(s)) \subseteq ToSet(CfgOf(s).cats)
    BY <2>10, Elements
  <2>12. cat \in ToSet(CatsOf(s))
    <3>1. r.todo \in Seq(ToSet(CatsOf(s))) /\ r.todo # <<>>
      BY <2>2, <2>7 DEF Line
    <3> QED  BY <3>1, <2>3
  <2>13. cat \in ToSet(CfgOf(s).cats)
    BY <2>11, <2>12
  <2>14. Places(x, s, cat)
    BY <2>4, <2>8 DEF Places
  <2> QED  BY <2>5, <2>7, <2>13, <2>14 DEF Reports
<1>3. \/ reports' = reports
      \/ \E i \in Invocations : PublishCategory(i)
  BY DEF Next, vars, Start, OpenForReading, Gate, Open, Migrate, Migrated, Ingest, AiCategory,
         PublishPreflight, PublishRules, PublishBatch, Work, Reindex, PrepareDecisions,
         DecideCategory, LaterRounds, OpenForDoctor, Doctor, DeepScan, Crash
<1> QED
  BY <1>1, <1>2, <1>3

\* DaysNeverShareAPath, for any templates, categories and days: what the loader
\* accepts never makes a report overwrite the one of another day.
THEOREM CommandsDaysNeverShareAPath ==
    ASSUME CommandsAssumption, PathAssumption
    PROVE  Spec => []DaysNeverShareAPath
<1>1. Init => Reports
  BY DEF Init, Reports
<1>2. Inv /\ Reports /\ [Next]_vars => Reports'
  BY ReportsStep
<1>3. Reports => DaysNeverShareAPath
  <2> SUFFICES ASSUME Reports, NEW x \in reports, NEW z \in reports,
                      x.cfg = z.cfg, x.key = z.key, x.path = z.path
               PROVE  x.day = z.day
    BY DEF DaysNeverShareAPath
  <2>1. /\ \E i \in Invocations : \E s \in Setups[i] : \E cat \in ToSet(CfgOf(s).cats) :
              Places(x, s, cat)
        /\ \E j \in Invocations : \E q \in Setups[j] : \E other \in ToSet(CfgOf(q).cats) :
              Places(z, q, other)
    BY DEF Reports
  <2>2. PICK i \in Invocations : \E s \in Setups[i] : \E cat \in ToSet(CfgOf(s).cats) :
           Places(x, s, cat)
    BY <2>1
  <2>3. PICK s \in Setups[i] : \E cat \in ToSet(CfgOf(s).cats) : Places(x, s, cat)
    BY <2>2
  <2>4. PICK cat \in ToSet(CfgOf(s).cats) : Places(x, s, cat)
    BY <2>3
  <2>5. PICK j \in Invocations : \E q \in Setups[j] : \E other \in ToSet(CfgOf(q).cats) :
           Places(z, q, other)
    BY <2>1
  <2>6. PICK q \in Setups[j] : \E other \in ToSet(CfgOf(q).cats) : Places(z, q, other)
    BY <2>5
  <2>7. PICK other \in ToSet(CfgOf(q).cats) : Places(z, q, other)
    BY <2>6
  <2>8. PICK c : c = CfgOf(s)
    OBVIOUS
  <2>9. /\ Structural(c, s.env) /\ CfgOf(q) = c /\ other.key = cat.key
        /\ x.day = s.day /\ z.day = q.day
        /\ PathOf(TemplateOf(c, cat), cat.key, s.day) = PathOf(TemplateOf(c, other), cat.key, q.day)
    BY <2>4, <2>7, <2>8 DEF Places, CfgOf
  <2>10. other = cat
    <3>1. PICK n \in DOMAIN c.cats : cat = c.cats[n]
      BY <2>8 DEF ToSet
    <3>2. PICK k \in DOMAIN c.cats : other = c.cats[k]
      BY <2>9 DEF ToSet
    <3>3. Distinct([l \in DOMAIN c.cats |-> c.cats[l].key])
      BY <2>9 DEF Structural
    <3>4. n = k
      BY <2>9, <3>1, <3>2, <3>3 DEF Distinct
    <3> QED  BY <3>1, <3>2, <3>4
  <2>11. PICK tpl : tpl = TemplateOf(c, cat)
    OBVIOUS
  <2>12. tpl \in Seq(ToSet(tpl)) /\ GoodTemplate(tpl)
    <3>1. PICK n \in DOMAIN c.cats : cat = c.cats[n]
      BY <2>8 DEF ToSet
    <3>2. GoodTemplate(c.template) /\ (cat.template # Inherit => GoodTemplate(cat.template))
      BY <2>9, <3>1 DEF Structural, GoodCategory
    <3>3. /\ c.template \in Seq(ToSet(c.template))
          /\ cat.template # Inherit => cat.template \in Seq(ToSet(cat.template))
      BY <2>8 DEF PathAssumption, CfgOf
    <3>4. CASE cat.template \in {Inherit, <<>>}
      BY <2>11, <3>3, <3>2, <3>4 DEF TemplateOf
    <3>5. CASE cat.template \notin {Inherit, <<>>}
      BY <2>11, <3>2, <3>3, <3>5 DEF TemplateOf
    <3> QED  BY <3>4, <3>5
  <2>13. PICK a, b : a = s.day /\ b = q.day
    OBVIOUS
  <2>14. /\ a = [y |-> a.y, m |-> a.m, d |-> a.d] /\ b = [y |-> b.y, m |-> b.m, d |-> b.d]
         /\ PathOf(tpl, cat.key, a) = PathOf(tpl, cat.key, b)
    BY <2>9, <2>10, <2>11, <2>13 DEF PathAssumption
  <2>15. a = b
    BY <2>12, <2>14, PathTellsDay
  <2> QED  BY <2>9, <2>13, <2>15
<1> QED
  BY <1>1, <1>2, <1>3, InvHolds, PTL DEF Spec
=============================================================================
