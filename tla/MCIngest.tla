------------------------------ MODULE MCIngest ------------------------------
(* A small instance of Ingest: two configurations that give a source another *)
(* name and another endpoint, and feeds with a link that two entries have or  *)
(* that is none.                                                              *)
EXTENDS Ingest, TLC

CONSTANTS c1, c2, s1, u1, u2, e1, e2, e3, e4, l1, l2

MCUrlOf  == c1 :> (s1 :> u1) @@ c2 :> (s1 :> u2)
MCNameOf == c1 :> 1 @@ c2 :> 2
MCLast   == u1 :> 1 @@ u2 :> 0
MCShown  == u1 :> (0 :> {e1} @@ 1 :> {e2, e3}) @@ u2 :> (0 :> {e2, e4})
MCLinkOf == e1 :> l1 @@ e2 :> l2 @@ e3 :> l1 @@ e4 :> BadLink

AnyProc == Permutations(Procs)

\* SQLite's rotation is PostgreSQL's with nothing in between, so it is enough to
\* see one process there.
AloneOnSqlite == database = "sqlite" => Cardinality({p \in Procs : pc[p] # "off"}) <= 1

\* One endpoint takes validators that are not its own, once.
OneMistake == Cardinality(mistaken) <= 1
=============================================================================
