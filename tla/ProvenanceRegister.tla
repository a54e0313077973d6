------------------------- MODULE ProvenanceRegister -------------------------
(***************************************************************************)
(* What the bundle writer promises of an artifact, without its files: one  *)
(* register per artifact that a write changes in a single step, and only   *)
(* as the provenance rules allow.  BundleWriter implements this register   *)
(* with a read, four file operations and a rollback.                       *)
(***************************************************************************)
EXTENDS Provenance

CONSTANTS Artifacts,  \* the artifacts of the bundle
          Texts,      \* their content, timestamps and provenance apart
          Stamps,     \* values of created_at
          Calls,      \* the ways the code calls write_artifact: [prov, force]
          NoDoc       \* the artifact does not exist

VARIABLE reg

Docs == [prov : Provenances, text : Texts, created : Stamps]

Init == reg = [a \in Artifacts |-> NoDoc]

\* May a call with this force flag replace `old` by `doc`?  SME work yields
\* only to force, the transition must be in the table, and the artifact keeps
\* the creation stamp of its first write.
Admits(old, doc, force) ==
  old # NoDoc =>
    /\ PreservesSmeWork(old.prov) => force
    /\ doc.prov \in AllowedNext[old.prov]
    /\ doc.created = old.created

Put(a) ==
  \E c \in Calls, t \in Texts, s \in Stamps :
    LET doc == [prov |-> c.prov, text |-> t, created |-> s]
    IN  /\ Admits(reg[a], doc, c.force)
        /\ reg' = [reg EXCEPT ![a] = doc]

\* A write that fails half way takes the whole artifact away.
Drop(a) == reg' = [reg EXCEPT ![a] = NoDoc]

Next == \E a \in Artifacts : Put(a) \/ Drop(a)

Spec == Init /\ [][Next]_reg

\* As long as no write fails, nothing is taken away.
Lossless == Init /\ [][\E a \in Artifacts : Put(a)]_reg
=============================================================================
