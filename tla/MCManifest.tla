----------------------------- MODULE MCManifest -----------------------------
(* A bounded instance of Manifest for TLC: two tables with a column of the same
   name each, one KPI, one hierarchy, one rule and one description. *)
EXTENDS Manifest, TLC

CONSTANTS T, U, n, p, q

ColumnsDef == {<<T, n>>, <<U, n>>}
KpiFormsDef == {[tables |-> {T}, dims |-> {n}], [tables |-> {T, U}, dims |-> {n}],
                [tables |-> {U}, dims |-> {<<T, n>>}]}
HierarchyFormsDef == {{<<T, n>>, <<U, n>>}}

\* Processes differ in nothing but their names.
Symmetry == Permutations({p, q})
=============================================================================
