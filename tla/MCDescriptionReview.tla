------------------------ MODULE MCDescriptionReview ------------------------
(* Bounded instances of DescriptionReview for TLC. *)
EXTENDS DescriptionReview, TLC

CONSTANTS c1, c2, t1, t2, x1, x2, g1, g2

Symmetry == Permutations({t1, t2}) \cup Permutations({g1, g2})
=============================================================================
