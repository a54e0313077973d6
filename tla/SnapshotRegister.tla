--------------------------- MODULE SnapshotRegister ---------------------------
(***************************************************************************)
(* What the bundle writer promises when its calls overlap.  The register   *)
(* of ProvenanceRegister again, but a writer reads an artifact first and   *)
(* replaces it later, and nothing makes it look again: what it writes is   *)
(* legal for the document it has read.  If nobody has written in between,  *)
(* that is the document it replaces, and the write is one of the register. *)
(***************************************************************************)
EXTENDS ProvenanceRegister

CONSTANT Procs  \* the writers

VARIABLE read   \* read[p]: <<artifact, document>> as p has read it, or <<>>

SnapshotInit == Init /\ read = [p \in Procs |-> <<>>]

Read(p, a) ==
  /\ read[p] = <<>>
  /\ read' = [read EXCEPT ![p] = <<a, reg[a]>>]
  /\ UNCHANGED reg

Replace(p) ==
  /\ read[p] # <<>>
  /\ \E c \in Calls, t \in Texts, s \in Stamps :
       LET doc == [prov |-> c.prov, text |-> t, created |-> s]
       IN  /\ Admits(read[p][2], doc, c.force)
           /\ reg' = [reg EXCEPT ![read[p][1]] = doc]
  /\ read' = [read EXCEPT ![p] = <<>>]

\* A writer fails or dies before it has replaced anything.
GiveUp(p) == read' = [read EXCEPT ![p] = <<>>] /\ UNCHANGED reg

Lose(a) == Drop(a) /\ UNCHANGED read

SnapshotNext ==
  \/ \E p \in Procs : Replace(p) \/ GiveUp(p) \/ \E a \in Artifacts : Read(p, a)
  \/ \E a \in Artifacts : Lose(a)

SnapshotSpec == SnapshotInit /\ [][SnapshotNext]_<<reg, read>>
=============================================================================
