--------------------------- MODULE MCBundleWriter ---------------------------
(* Bounded instances of BundleWriter for TLC. *)
EXTENDS BundleWriter

CONSTANTS p1, p2, a1, a2, t1, t2, s1, s2

\* Describe, describe --force, the accept and the save of a description.
DraftCalls == [prov : {"ai-drafted", "ai-drafted-edited"}, force : BOOLEAN]

\* The calls on a description: describe, the review UI, commit-edits, resolve.
DescriptionCalls == [prov : {"ai-drafted", "ai-drafted-edited"}, force : BOOLEAN]
                      \cup [prov : {"sme-authored"}, force : BOOLEAN]
=============================================================================
