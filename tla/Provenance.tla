----------------------------- MODULE Provenance -----------------------------
(***************************************************************************)
(* The provenance state machine of a bundle artifact                       *)
(* (apps/dla/src/dla/bundle/provenance.py): who the content of an artifact *)
(* comes from, and which change of origin a write may make.                *)
(***************************************************************************)

Provenances == {"discovered", "client-provided", "client-provided-reconciled",
                "ai-drafted", "ai-drafted-edited", "sme-authored"}

\* _ALLOWED_TRANSITIONS: what may replace content of provenance p.
AllowedNext ==
  [p \in Provenances |->
     CASE p = "discovered"                 -> {"discovered", "sme-authored"}
       [] p = "client-provided"            -> {"client-provided", "client-provided-reconciled",
                                               "sme-authored"}
       [] p = "client-provided-reconciled" -> {"client-provided-reconciled", "sme-authored"}
       [] p = "ai-drafted"                 -> {"ai-drafted", "ai-drafted-edited", "sme-authored"}
       [] p = "ai-drafted-edited"          -> {"ai-drafted-edited", "sme-authored"}
       [] p = "sme-authored"               -> {"sme-authored"}]

\* preserves_sme_work: the origins that hold work of a subject-matter expert.
SmeWork == {"ai-drafted-edited", "sme-authored", "client-provided-reconciled"}

PreservesSmeWork(p) == p \in SmeWork
=============================================================================
