----------------------------- MODULE MCDrafting -----------------------------
(* A bounded instance of Drafting for TLC: a table with two columns, of which the
   prompt shows one, a term that the columns share and one that the table has too. *)
EXTENDS Drafting, TLC

CONSTANTS T, c, e, v, w

TableOfDef == (c :> T) @@ (e :> T)
RankDef == (T :> 1) @@ (c :> 2) @@ (e :> 3) @@ (v :> 4) @@ (w :> 5)
WordsDef == (T :> {w}) @@ (c :> {v, w}) @@ (e :> {v, w})
ScoreDef == (0 :> 5) @@ (1 :> 25)
=============================================================================
