-------------------------- MODULE MCReconciliation --------------------------
(* Bounded instances of Reconciliation for TLC. *)
EXTENDS Reconciliation, TLC

CONSTANTS c1, c2, i1

\* The document is about c2; while only c1 has been discovered it is taken for
\* a misspelling of it.
SomeClaims == i1 :> c2
SomeNear == [t \in Targets |-> IF t = c2 THEN {c1} ELSE {}]
=============================================================================
