---------------------------- MODULE Descriptions ----------------------------
(***************************************************************************)
(* What the two sides of the descriptions share: DescriptionReview, where  *)
(* people and drafts meet, and Drafting, the loop that grounds the drafts. *)
(***************************************************************************)
EXTENDS WriteRules

CONSTANTS
  Columns,       \* the columns that are described; a page of DescriptionReview
                 \* has its table among them
  Insufficient   \* INSUFFICIENT_SIGNAL, the text that declines to describe
=============================================================================
