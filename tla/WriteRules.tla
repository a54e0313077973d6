----------------------------- MODULE WriteRules -----------------------------
(***************************************************************************)
(* The decision of write_artifact (apps/dla/src/dla/bundle/writer.py): what *)
(* a call does with an artifact, from the artifact it has just read.       *)
(***************************************************************************)
EXTENDS Provenance

CONSTANT NoDoc  \* "the file does not exist"

\* Bugs of the guards, each caught by a property of the modules that use them:
\* some SME work unprotected, no check of the transition, no change of origin.
BadSkips(old, force) ==
  old # NoDoc /\ old.prov \in {"ai-drafted-edited", "sme-authored"} /\ ~force
SkipsAuthored(old, force) == old # NoDoc /\ old.prov = "sme-authored" /\ ~force
Unchecked(old, prov) == TRUE
OnlySame(old, prov) == old # NoDoc => prov = old.prov

\* Existing SME work, and no force: the call returns having done nothing.
Skips(old, force) == old # NoDoc /\ PreservesSmeWork(old.prov) /\ ~force

\* assert_transition_allowed; the first write of an artifact is always legal.
TransitionAllowed(old, prov) == old # NoDoc => prov \in AllowedNext[old.prov]

\* The early returns, in their order; `same`: identical modulo timestamps.
Outcome(old, prov, force, same) ==
  IF Skips(old, force) THEN "skipped"
  ELSE IF ~TransitionAllowed(old, prov) THEN "refused"
  ELSE IF same THEN "current"
  ELSE "write"
=============================================================================
