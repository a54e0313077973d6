------------------------- MODULE BundleWriterProofs -------------------------
(***************************************************************************)
(* Proofs about BundleWriter for any set of processes, artifacts, texts    *)
(* and call sites.                                                         *)
(***************************************************************************)
EXTENDS BundleWriter, TLAPS

-----------------------------------------------------------------------------
(* Type correctness *)

\* The document a call is about to write is a document, whichever artifact it
\* replaces (the merge of created_at in write_artifact).
LEMMA MergedIsDoc ==
  ASSUME NEW old \in MaybeDocs, NEW prov \in Provenances, NEW t \in Texts, NEW s \in Stamps
  PROVE  Merged(old, prov, t, s) \in Docs
BY DEF Merged, MaybeDocs, Docs

\* The state of write_artifact calls, files and histories is well typed.
THEOREM TypeCorrect == Spec => []TypeOK
<1>1. Init => TypeOK
  BY BoundsAssumption DEF Init, TypeOK, MaybeDocs
<1>2. TypeOK /\ [Next]_vars => TypeOK'
  <2> SUFFICES ASSUME TypeOK, [Next]_vars PROVE TypeOK'
    OBVIOUS
  <2> USE BoundsAssumption DEF TypeOK
  <2>1. ASSUME NEW p \in Procs, NEW a \in Artifacts, Begin(p, a) PROVE TypeOK'
    <3>1. PICK c \in Calls, t \in Texts, s \in Stamps :
            LET doc == Merged(json[a], c.prov, t, s)
            IN  IF Verdict(json[a], doc, c.force) = "write"
                THEN op' = [op EXCEPT ![p] = Running(a, json[a], doc, c.force)]
                ELSE UNCHANGED op
      BY <2>1 DEF Begin
    <3> DEFINE doc == Merged(json[a], c.prov, t, s)
    <3>2. c.prov \in Provenances /\ c.force \in BOOLEAN
      BY CallsAssumption
    <3>3. doc \in Docs
      BY <3>2, MergedIsDoc
    <3>4. Running(a, json[a], doc, c.force) \in Ops
      BY <3>2, <3>3 DEF Running, Ops, Places, MaybeDocs
    <3>5. op' \in [Procs -> Ops \cup {Idle}]
      BY <3>1, <3>4
    <3> QED
      BY <2>1, <3>5 DEF Begin
  <2>2. ASSUME NEW p \in Procs, Stage(p) PROVE TypeOK'
    BY <2>2 DEF Stage, TempFile, Ops, Places, Idle
  <2>3. ASSUME NEW p \in Procs, ReplaceJson(p) PROVE TypeOK'
    <3>1. op[p] \in Ops /\ op[p].art \in Artifacts /\ op[p].doc \in Docs
      BY <2>3 DEF ReplaceJson, Ops, Idle
    <3>2. [op[p] EXCEPT !.at = "stage-md", !.old = NoDoc] \in Ops
      BY <3>1 DEF Ops, Places
    <3>3. op' = [op EXCEPT ![p] = [op[p] EXCEPT !.at = "stage-md", !.old = NoDoc]]
      BY <2>3, <3>1 DEF ReplaceJson
    <3>4. op' \in [Procs -> Ops \cup {Idle}]
      BY <3>2, <3>3
    <3> QED
      BY <2>3, <3>1, <3>4 DEF ReplaceJson, CrossedBy, MaybeDocs
  <2>4. ASSUME NEW p \in Procs, ReplaceMd(p) PROVE TypeOK'
    BY <2>4 DEF ReplaceMd, Ops, Places, Idle, MaybeDocs
  <2>5. ASSUME NEW p \in Procs, Raise(p) PROVE TypeOK'
    BY <2>5 DEF Raise, WithoutTemp, AfterFailure, Ops, Places, Idle
  <2>6. ASSUME NEW p \in Procs, Rollback(p) PROVE TypeOK'
    BY <2>6 DEF Rollback, CrossedBy, Ops, Places, Idle, MaybeDocs
  <2>7. ASSUME NEW p \in Procs, Die(p) PROVE TypeOK'
    BY <2>7 DEF Die, InFlight, Ops, Places, Idle
  <2>8. CASE UNCHANGED vars
    BY <2>8 DEF vars
  <2> QED
    BY <2>1, <2>2, <2>3, <2>4, <2>5, <2>6, <2>7, <2>8 DEF Next, Step
<1> QED
  BY <1>1, <1>2, PTL DEF Spec

-----------------------------------------------------------------------------
(* Temporary files *)

\* A process never holds a temp file named for one of its later lives.
TempsOfPastLives == \A f \in tmp : f.life <= life[f.owner]

TempInv == TypeOK /\ TempFilesOwned /\ TempsOfPastLives

\* No exception leaves a temp file behind, however calls overlap, fail and die.
THEOREM TempsOwned == Spec => []TempFilesOwned
<1>1. Init => TempInv
  <2> SUFFICES ASSUME Init PROVE TempInv
    OBVIOUS
  <2>1. TypeOK
    BY BoundsAssumption DEF Init, TypeOK, MaybeDocs
  <2> QED
    BY <2>1 DEF Init, TempInv, TempFilesOwned, TempsOfPastLives
<1>2. TempInv /\ TypeOK' /\ [Next]_vars => TempInv'
  <2> SUFFICES ASSUME TempInv, TypeOK', [Next]_vars
               PROVE  TempFilesOwned' /\ TempsOfPastLives'
    BY DEF TempInv
  <2> USE BoundsAssumption DEF TempInv, TypeOK, TempFilesOwned, TempsOfPastLives
  <2>1. ASSUME NEW p \in Procs, NEW a \in Artifacts, Begin(p, a)
        PROVE  TempFilesOwned' /\ TempsOfPastLives'
    <3>1. UNCHANGED <<tmp, life>> /\ op[p].at = "idle" /\ \A q \in Procs \ {p} : op'[q] = op[q]
      BY <2>1 DEF Begin, InFlight
    <3> QED
      BY <3>1
  <2>2. ASSUME NEW p \in Procs, Stage(p) PROVE TempFilesOwned' /\ TempsOfPastLives'
    BY <2>2 DEF Stage, TempFile, Ops, Places, Idle
  <2>3. ASSUME NEW p \in Procs, ReplaceJson(p) PROVE TempFilesOwned' /\ TempsOfPastLives'
    BY <2>3 DEF ReplaceJson, TempFile, Ops, Places, Idle
  <2>4. ASSUME NEW p \in Procs, ReplaceMd(p) PROVE TempFilesOwned' /\ TempsOfPastLives'
    BY <2>4 DEF ReplaceMd, TempFile, Ops, Places, Idle
  <2>5. ASSUME NEW p \in Procs, Raise(p) PROVE TempFilesOwned' /\ TempsOfPastLives'
    BY <2>5 DEF Raise, WithoutTemp, TempFile, Ops, Places, Idle
  <2>6. ASSUME NEW p \in Procs, Rollback(p) PROVE TempFilesOwned' /\ TempsOfPastLives'
    BY <2>6 DEF Rollback, Ops, Places, Idle
  <2>7. ASSUME NEW p \in Procs, Die(p) PROVE TempFilesOwned' /\ TempsOfPastLives'
    BY <2>7 DEF Die, InFlight, Ops, Places, Idle
  <2>8. CASE UNCHANGED vars
    BY <2>8 DEF vars
  <2> QED
    BY <2>1, <2>2, <2>3, <2>4, <2>5, <2>6, <2>7, <2>8 DEF Next, Step
<1>3. TempInv => TempFilesOwned
  BY DEF TempInv
<1> QED
  BY <1>1, <1>2, <1>3, TypeCorrect, PTL DEF Spec

-----------------------------------------------------------------------------
(* Overlapping calls: the pair, the SME work, the register                    *)

Deciding(p) == op[p].at \in {"stage-json", "replace-json"}
Halfway(p) == op[p].at \in {"stage-md", "replace-md", "rollback"}

\* A call is one of the known call sites, and what it writes is legal for what it
\* has read; that is still on disk, unless another call has crossed it.
DecisionHolds ==
  \A p \in Procs :
    Deciding(p) =>
      /\ [prov |-> op[p].doc.prov, force |-> op[p].force] \in Calls
      /\ Register!Admits(op[p].old, op[p].doc, op[p].force)
      /\ p \notin crossed => json[op[p].art] = op[p].old

\* Between its two renames a call that was not crossed has its document in the
\* JSON, and no earlier SME work is claimed: the call was forced, or there was none.
HalfwayClaims ==
  \A p \in Procs : Halfway(p) /\ p \notin crossed =>
    json[op[p].art] = op[p].doc /\ owed[op[p].art] = NoDoc

\* Of the calls between their renames of one artifact, the last one is not crossed.
OneUncrossed ==
  \A p, q \in Procs :
    Halfway(p) /\ Halfway(q) /\ p \notin crossed /\ q \notin crossed /\ op[p].art = op[q].art
      => p = q

\* The pair is whole, but for an artifact a call is halfway through.
PairOutside ==
  \A a \in Artifacts :
    a \notin torn /\ (\A p \in Procs : Halfway(p) => op[p].art # a) => md[a] = json[a]

\* The claimed SME work is SME work, and is in both files.
OwedKept ==
  \A a \in Artifacts :
    owed[a] # NoDoc => /\ PreservesSmeWork(owed[a].prov)
                       /\ json[a] = owed[a]
                       /\ a \notin torn => md[a] = owed[a]

Rest == DecisionHolds /\ HalfwayClaims /\ OneUncrossed /\ PairOutside /\ OwedKept
IInv == TypeOK /\ Rest

\* A document written over an artifact keeps the artifact's creation stamp, and
\* the verdict "write" is exactly what the register admits.
LEMMA VerdictAdmits ==
  ASSUME NEW old \in MaybeDocs, NEW prov \in Provenances, NEW t \in Texts, NEW s \in Stamps,
         NEW force \in BOOLEAN,
         Verdict(old, Merged(old, prov, t, s), force) = "write"
  PROVE  Register!Admits(old, Merged(old, prov, t, s), force)
BY DEF Verdict, Outcome, Skips, TransitionAllowed, Merged, Register!Admits, Register!PreservesSmeWork,
       PreservesSmeWork, Register!AllowedNext, AllowedNext, Register!SmeWork, SmeWork,
       Register!Provenances, Provenances

\* A running call is at one of the places, at an artifact.
LEMMA InFlightTyped ==
  ASSUME TypeOK, NEW p \in Procs, InFlight(p)
  PROVE  op[p] \in Ops /\ op[p].art \in Artifacts /\ (Deciding(p) \/ Halfway(p))
BY DEF TypeOK, InFlight, Idle, Ops, Places, Deciding, Halfway

\* The strengthened invariant is inductive, however calls overlap.
THEOREM Inductive == Spec => []IInv
<1>1. Init => IInv
  <2> SUFFICES ASSUME Init PROVE IInv
    OBVIOUS
  <2>1. TypeOK
    BY BoundsAssumption DEF Init, TypeOK, MaybeDocs
  <2>2. \A p \in Procs : ~Deciding(p) /\ ~Halfway(p)
    BY DEF Init, Idle, Deciding, Halfway
  <2>3. DecisionHolds /\ HalfwayClaims /\ OneUncrossed
    BY <2>2 DEF DecisionHolds, HalfwayClaims, OneUncrossed
  <2>4. PairOutside /\ OwedKept
    BY DEF Init, PairOutside, OwedKept
  <2> QED
    BY <2>1, <2>3, <2>4 DEF IInv, Rest
<1>2. IInv /\ TypeOK' /\ [Next]_vars => IInv'
  <2> SUFFICES ASSUME IInv, TypeOK', [Next]_vars PROVE Rest'
    BY DEF IInv
  <2> USE DEF IInv, Rest
  <2>0. TypeOK BY DEF IInv
  <2>9. ASSUME NEW p \in Procs, op'[p] = Idle, \A q \in Procs \ {p} : op'[q] = op[q]
        PROVE  ~Halfway(p)' /\ \A q \in Procs \ {p} : Halfway(q)' <=> Halfway(q)
    BY <2>9 DEF Halfway, Idle
  <2>1. ASSUME NEW p \in Procs, NEW a \in Artifacts, Begin(p, a) PROVE Rest'
    <3>1. PICK c \in Calls, t \in Texts, s \in Stamps :
            LET doc == Merged(json[a], c.prov, t, s)
            IN  IF Verdict(json[a], doc, c.force) = "write"
                THEN op' = [op EXCEPT ![p] = Running(a, json[a], doc, c.force)]
                ELSE UNCHANGED op
      BY <2>1 DEF Begin
    <3> DEFINE doc == Merged(json[a], c.prov, t, s)
    <3>2. UNCHANGED <<json, md, crossed, torn, owed>> /\ ~InFlight(p)
      BY <2>1 DEF Begin
    <3>3. CASE Verdict(json[a], doc, c.force) # "write"
      <4>1. UNCHANGED op
        BY <3>1, <3>3
      <4> QED
        BY <3>2, <4>1 DEF DecisionHolds, HalfwayClaims, OneUncrossed, Deciding, Halfway,
                          PairOutside, OwedKept
    <3>4. CASE Verdict(json[a], doc, c.force) = "write"
      <4>1. op' = [op EXCEPT ![p] = Running(a, json[a], doc, c.force)]
        BY <3>1, <3>4
      <4>2. op'[p] = Running(a, json[a], doc, c.force) /\ \A q \in Procs \ {p} : op'[q] = op[q]
        BY <2>0, <4>1 DEF TypeOK
      <4>3. Register!Admits(json[a], doc, c.force)
        BY <2>0, <3>4, VerdictAdmits, CallsAssumption DEF TypeOK
      <4>4. [prov |-> doc.prov, force |-> c.force] \in Calls
        <5>1. c = [prov |-> c.prov, force |-> c.force]
          BY CallsAssumption
        <5> QED
          BY <5>1 DEF Merged
      <4> HIDE DEF doc
      <4>5. DecisionHolds'
        BY <4>2, <4>3, <4>4, <3>2 DEF DecisionHolds, Deciding, Running
      <4>6. HalfwayClaims' /\ OneUncrossed' /\ PairOutside'
        BY <4>2, <3>2 DEF HalfwayClaims, OneUncrossed, PairOutside, Halfway, Running, InFlight
      <4> QED
        BY <4>5, <4>6, <3>2 DEF OwedKept
    <3> QED
      BY <3>3, <3>4
  <2>2. ASSUME NEW p \in Procs, Stage(p) PROVE Rest'
    <3>1. /\ op'[p].art = op[p].art /\ op'[p].doc = op[p].doc /\ op'[p].force = op[p].force
          /\ op'[p].old = op[p].old
          /\ op[p].at = "stage-json" => op'[p].at = "replace-json"
          /\ op[p].at = "stage-md" => op'[p].at = "replace-md"
          /\ \A q \in Procs \ {p} : op'[q] = op[q]
          /\ op[p].at \in {"stage-json", "stage-md"}
          /\ UNCHANGED <<json, md, crossed, torn, owed>>
      BY <2>0, <2>2 DEF Stage, Ops, Idle, TypeOK
    <3>2. \A q \in Procs : /\ Halfway(q)' <=> Halfway(q)
                           /\ Deciding(q)' <=> Deciding(q)
                           /\ op'[q].art = op[q].art /\ op'[q].doc = op[q].doc
                           /\ op'[q].force = op[q].force /\ op'[q].old = op[q].old
      BY <3>1 DEF Halfway, Deciding
    <3> QED
      BY <3>1, <3>2 DEF DecisionHolds, HalfwayClaims, OneUncrossed, PairOutside, OwedKept
  <2>3. ASSUME NEW p \in Procs, ReplaceJson(p) PROVE Rest'
    <3> DEFINE a == op[p].art
    <3>1. /\ op'[p].art = a /\ op'[p].doc = op[p].doc /\ op'[p].at = "stage-md"
          /\ \A q \in Procs \ {p} : op'[q] = op[q]
          /\ json'[a] = op[p].doc
          /\ \A b \in Artifacts \ {a} : json'[b] = json[b] /\ owed'[b] = owed[b]
          /\ op[p].force \/ p \in crossed => owed'[a] = NoDoc
          /\ ~(op[p].force \/ p \in crossed) => owed' = owed
          /\ op[p].at = "replace-json" /\ a \in Artifacts /\ op[p].force \in BOOLEAN
          /\ UNCHANGED <<md, torn>>
          /\ p \notin crossed'
          /\ \A q \in Procs \ {p} : q \notin crossed' => q \notin crossed /\ ~On(q, a)
      BY <2>0, <2>3 DEF ReplaceJson, CrossedBy, Ops, Idle, TypeOK
    <3>2. p \notin crossed => Register!Admits(json[a], op[p].doc, op[p].force)
      BY <3>1 DEF DecisionHolds, Deciding
    <3>3. owed'[a] = NoDoc
      BY <3>1, <3>2 DEF OwedKept, Register!Admits, Register!PreservesSmeWork, PreservesSmeWork,
                        Register!SmeWork, SmeWork
    <3>4. \A q \in Procs \ {p} : InFlight(q) /\ q \notin crossed' => op[q].art \in Artifacts \ {a}
      BY <2>0, <3>1, InFlightTyped DEF On
    <3>5. DecisionHolds'
      BY <3>1, <3>4 DEF DecisionHolds, Deciding, InFlight
    <3>6. HalfwayClaims'
      BY <3>1, <3>3, <3>4 DEF HalfwayClaims, Halfway, InFlight
    <3>7. OneUncrossed'
      BY <3>1, <3>4 DEF OneUncrossed, Halfway, InFlight
    <3>8. PairOutside'
      BY <3>1 DEF PairOutside, Halfway
    <3>9. OwedKept'
      BY <3>1, <3>3 DEF OwedKept
    <3> QED
      BY <3>5, <3>6, <3>7, <3>8, <3>9
  <2>4. ASSUME NEW p \in Procs, ReplaceMd(p) PROVE Rest'
    <3> DEFINE a == op[p].art
    <3>1. /\ op'[p] = Idle /\ op[p].at = "replace-md" /\ a \in Artifacts
          /\ \A q \in Procs \ {p} : op'[q] = op[q]
          /\ md'[a] = op[p].doc
          /\ \A b \in Artifacts \ {a} : md'[b] = md[b] /\ owed'[b] = owed[b]
          /\ UNCHANGED json /\ crossed' = crossed \ {p}
          /\ p \in crossed => torn' = torn \cup {a} /\ owed' = owed
          /\ p \notin crossed => torn' = torn \ {a}
          /\ PreservesSmeWork(op[p].doc.prov) /\ p \notin crossed => owed'[a] = op[p].doc
          /\ ~(PreservesSmeWork(op[p].doc.prov) /\ p \notin crossed) => owed' = owed
      BY <2>0, <2>4 DEF ReplaceMd, Ops, Idle, TypeOK
    <3>2. p \notin crossed => json[a] = op[p].doc /\ owed[a] = NoDoc
      BY <3>1 DEF HalfwayClaims, Halfway
    <3>3. \A q \in Procs \ {p} :
            p \notin crossed /\ Halfway(q) /\ q \notin crossed => op[q].art # a
      BY <3>1 DEF OneUncrossed, Halfway
    <3>4. DecisionHolds'
      BY <3>1 DEF DecisionHolds, Deciding, Idle
    <3>5. HalfwayClaims'
      <4> SUFFICES ASSUME NEW q \in Procs \ {p}, Halfway(q), q \notin crossed
                   PROVE  json[op[q].art] = op[q].doc /\ owed'[op[q].art] = NoDoc
        BY <3>1 DEF HalfwayClaims, Halfway, Idle
      <4>1. json[op[q].art] = op[q].doc /\ owed[op[q].art] = NoDoc
        BY DEF HalfwayClaims
      <4>2. op[q].art \in Artifacts
        BY <2>0, InFlightTyped DEF Halfway, InFlight
      <4> QED
        BY <3>1, <3>3, <4>1, <4>2
    <3>6. OneUncrossed'
      BY <2>9, <3>1 DEF OneUncrossed
    <3>7. PairOutside'
      <4> SUFFICES ASSUME NEW b \in Artifacts, b \notin torn',
                          \A q \in Procs : Halfway(q)' => op'[q].art # b
                   PROVE  md'[b] = json[b]
        BY <3>1 DEF PairOutside
      <4>1. \A q \in Procs \ {p} : Halfway(q) => op[q].art # b
        BY <3>1 DEF Halfway
      <4>2. CASE b = a
        BY <3>1, <3>2, <4>2
      <4>3. CASE b # a
        BY <3>1, <4>1, <4>3 DEF PairOutside
      <4> QED
        BY <4>2, <4>3
    <3>8. OwedKept'
      BY <3>1, <3>2 DEF OwedKept
    <3> QED
      BY <3>4, <3>5, <3>6, <3>7, <3>8
  <2>5. ASSUME NEW p \in Procs, Raise(p) PROVE Rest'
    <3>1. /\ UNCHANGED <<json, md, torn, owed>>
          /\ \A q \in Procs \ {p} : op'[q] = op[q] /\ (q \in crossed' <=> q \in crossed)
          /\ \/ /\ op'[p].at = "rollback" /\ op[p].at \in {"stage-md", "replace-md"}
                /\ op'[p].art = op[p].art /\ op'[p].doc = op[p].doc
                /\ crossed' = crossed
             \/ op'[p] = Idle /\ op[p].at \in {"stage-json", "replace-json"}
      BY <2>0, <2>5 DEF Raise, AfterFailure, Ops, Idle, TypeOK
    <3> QED
      BY <3>1 DEF DecisionHolds, HalfwayClaims, OneUncrossed, Deciding, Halfway, PairOutside,
                  OwedKept, Idle
  <2>6. ASSUME NEW p \in Procs, Rollback(p) PROVE Rest'
    <3> DEFINE a == op[p].art
    <3>1. /\ op'[p] = Idle /\ op[p].at = "rollback" /\ a \in Artifacts
          /\ \A q \in Procs \ {p} : op'[q] = op[q]
          /\ json'[a] = NoDoc /\ owed'[a] = NoDoc
          /\ \A b \in Artifacts \ {a} : json'[b] = json[b] /\ owed'[b] = owed[b]
          /\ torn' = IF md[a] = NoDoc THEN torn ELSE torn \cup {a}
          /\ UNCHANGED md
          /\ \A q \in Procs \ {p} : q \notin crossed' => q \notin crossed /\ ~On(q, a)
      BY <2>0, <2>6 DEF Rollback, CrossedBy, Ops, Idle, TypeOK
    <3>2. \A q \in Procs \ {p} : InFlight(q) /\ q \notin crossed' => op[q].art \in Artifacts \ {a}
      BY <2>0, <3>1, InFlightTyped DEF On
    <3>3. DecisionHolds'
      BY <3>1, <3>2 DEF DecisionHolds, Deciding, InFlight, Idle
    <3>4. HalfwayClaims'
      BY <3>1, <3>2 DEF HalfwayClaims, Halfway, InFlight, Idle
    <3>5. OneUncrossed'
      BY <2>9, <3>1 DEF OneUncrossed
    <3>6. PairOutside'
      BY <3>1 DEF PairOutside, Halfway, Idle
    <3>7. OwedKept'
      BY <3>1 DEF OwedKept
    <3> QED
      BY <3>3, <3>4, <3>5, <3>6, <3>7
  <2>7. ASSUME NEW p \in Procs, Die(p) PROVE Rest'
    <3>1. /\ op'[p] = Idle /\ \A q \in Procs \ {p} : op'[q] = op[q]
          /\ UNCHANGED <<json, md, owed>> /\ crossed' = crossed \ {p}
          /\ torn' = IF Halfway(p) THEN torn \cup {op[p].art} ELSE torn
      BY <2>0, <2>7 DEF Die, Halfway, TypeOK
    <3>2. DecisionHolds' /\ HalfwayClaims'
      BY <3>1 DEF DecisionHolds, HalfwayClaims, Deciding, Halfway, Idle
    <3>3. OneUncrossed'
      BY <2>9, <3>1 DEF OneUncrossed
    <3>4. PairOutside' /\ OwedKept'
      BY <3>1 DEF PairOutside, OwedKept, Halfway, Idle
    <3> QED
      BY <3>2, <3>3, <3>4
  <2>8. CASE UNCHANGED vars
    BY <2>8 DEF vars, DecisionHolds, HalfwayClaims, OneUncrossed, Deciding, Halfway, PairOutside,
                OwedKept
  <2> QED
    BY <2>1, <2>2, <2>3, <2>4, <2>5, <2>6, <2>7, <2>8 DEF Next, Step
<1> QED
  BY <1>1, <1>2, TypeCorrect, PTL DEF Spec

\* While nobody writes an artifact its JSON and markdown agree, unless a death,
\* the rollback of an update or a crossed call has split them, for any overlap.
THEOREM PairsWhole == Spec => []PairWhole
<1>1. IInv => PairWhole
  BY DEF IInv, Rest, PairOutside, PairWhole, Quiet, On, InFlight, Halfway
<1> QED
  BY <1>1, Inductive, PTL

\* Split, and no death or rollback is to blame.
Split(a) == md[a] # json[a] /\ a \notin torn

\* The file operations that a call between its two renames has before it, at most.
Ahead(at) == CASE at = "stage-md" -> 3 [] at = "replace-md" -> 2 [] at = "rollback" -> 1
               [] OTHER -> 0

\* Some call is at the pair of `a`: its next step mends the pair, or tears it, or comes nearer to that.
Mending(a) ==
  \E p \in Procs :
    /\ Halfway(p) /\ op[p].art = a
    /\ op'[p] # op[p] => \/ ~Split(a)'
                         \/ Halfway(p)' /\ op'[p].art = a /\ Ahead(op'[p].at) < Ahead(op[p].at)

\* What is behind the healing of pairs: while a pair is split a call is there that has at most
\* three steps to do until it is whole or torn, and no step of another call undoes one of them.
THEOREM SplitPairsMend ==
  Spec => [][\A a \in Artifacts : Split(a) => Mending(a)]_vars
<1>1. IInv /\ [Next]_vars => [\A a \in Artifacts : Split(a) => Mending(a)]_vars
  <2> SUFFICES ASSUME IInv, Next, NEW a \in Artifacts, Split(a) PROVE Mending(a)
    OBVIOUS
  <2>1. PICK p \in Procs : Halfway(p) /\ op[p].art = a
    BY DEF IInv, Rest, PairOutside, Split
  <2>2. /\ op[p] \in Ops /\ op[p].at \in {"stage-md", "replace-md", "rollback"}
        /\ p \notin crossed => json[a] = op[p].doc
    BY <2>1 DEF IInv, Rest, HalfwayClaims, Halfway, TypeOK, Idle
  <2> SUFFICES ASSUME op'[p] # op[p]
               PROVE  \/ ~Split(a)'
                      \/ /\ Halfway(p)' /\ op'[p].art = a
                         /\ Ahead(op'[p].at) < Ahead(op[p].at)
    BY <2>1 DEF Mending
  <2>3. ASSUME NEW q \in Procs, q # p,
               (\E b \in Artifacts : Begin(q, b)) \/ Step(q) \/ Raise(q) \/ Die(q)
        PROVE  FALSE
    BY <2>3 DEF IInv, TypeOK, Begin, Step, Stage, ReplaceJson, ReplaceMd, Rollback, Raise, Die
  <2>4. ASSUME NEW b \in Artifacts, Begin(p, b) PROVE FALSE
    BY <2>2, <2>4 DEF Begin, InFlight
  <2>5. CASE Stage(p)
    <3>1. op[p].at = "stage-md" /\ op'[p].at = "replace-md" /\ op'[p].art = a
      BY <2>1, <2>2, <2>5 DEF Stage, IInv, TypeOK, Ops
    <3> QED
      BY <3>1 DEF Halfway, Ahead
  <2>6. ASSUME ReplaceJson(p) PROVE FALSE
    BY <2>2, <2>6 DEF ReplaceJson
  <2>7. CASE ReplaceMd(p)
    <3>1. /\ md'[a] = op[p].doc /\ json' = json
          /\ p \in crossed => a \in torn'
      BY <2>1, <2>7 DEF ReplaceMd, IInv, TypeOK
    <3> QED
      BY <2>2, <3>1 DEF Split
  <2>8. CASE Rollback(p)
    BY <2>1, <2>8 DEF Rollback, Split, IInv, TypeOK
  <2>9. CASE Raise(p)
    <3>1. op[p].at \in {"stage-md", "replace-md"} /\ op' = [op EXCEPT ![p].at = "rollback"]
      BY <2>2, <2>9 DEF Raise, AfterFailure
    <3>2. op'[p].at = "rollback" /\ op'[p].art = a
      BY <2>1, <2>2, <3>1 DEF IInv, TypeOK, Ops
    <3> QED
      BY <3>1, <3>2 DEF Halfway, Ahead
  <2>10. CASE Die(p)
    BY <2>1, <2>2, <2>10 DEF Die, Split
  <2> QED
    BY <2>3, <2>4, <2>5, <2>6, <2>7, <2>8, <2>9, <2>10 DEF Next, Step
<1> QED
  BY <1>1, Inductive, PTL DEF Spec

\* SME work reported as written stays on disk through every unforced write but one
\* that had been decided before it was there, however calls overlap.
THEOREM SmeWorkDurable == Spec => []AcknowledgedSmeWorkDurable
<1>1. IInv => AcknowledgedSmeWorkDurable
  BY DEF IInv, Rest, OwedKept, AcknowledgedSmeWorkDurable
<1> QED
  BY <1>1, Inductive, PTL

\* write_artifact implements the register of those who read first and write later:
\* its read, decision and four file operations act on the JSON as one write that is
\* legal for what was read, or as the loss of the artifact, however calls overlap.
THEOREM Refinement == Spec => ImplementsRegister
<1> DEFINE Has(o) == IF o.at \in {"stage-json", "replace-json"} THEN <<o.art, o.old>> ELSE <<>>
           Reads == [p \in Procs |-> IF op[p].at \in {"stage-json", "replace-json"}
                                     THEN <<op[p].art, op[p].old>> ELSE <<>>]
<1>1. Init => Register!SnapshotInit
  BY DEF Init, Idle, Register!SnapshotInit, Register!Init
<1>2. IInv /\ [Next]_vars => [Register!SnapshotNext]_<<json, Reads>>
  <2> SUFFICES ASSUME IInv, [Next]_vars PROVE Register!SnapshotNext \/ UNCHANGED <<json, Reads>>
    OBVIOUS
  <2> USE DEF IInv, Rest, TypeOK
  \* What a step of p makes of what the calls have read.
  <2>1. ASSUME NEW p \in Procs, NEW o, op' = [op EXCEPT ![p] = o]
        PROVE  Reads' = [Reads EXCEPT ![p] = Has(o)]
    <3> SUFFICES ASSUME NEW g, g = op'
                 PROVE  [q \in Procs |-> Has(g[q])] = [[q \in Procs |-> Has(op[q])] EXCEPT ![p] = Has(o)]
      OBVIOUS
    <3> QED BY <2>1
  <2>2. ASSUME NEW p \in Procs, NEW o, op' = [op EXCEPT ![p] = o], UNCHANGED json,
               Has(o) = Has(op[p])
        PROVE  UNCHANGED <<json, Reads>>
    BY <2>1, <2>2
  <2>3. ASSUME NEW p \in Procs, NEW o, op' = [op EXCEPT ![p] = o], UNCHANGED json,
               Has(o) = <<>>
        PROVE  Register!GiveUp(p)
    BY <2>1, <2>3 DEF Register!GiveUp
  <2>4. ASSUME NEW p \in Procs, NEW a \in Artifacts, Begin(p, a)
        PROVE  Register!SnapshotNext \/ UNCHANGED <<json, Reads>>
    <3>1. CASE UNCHANGED op
      BY <2>4, <3>1 DEF Begin
    <3>2. PICK doc, force : op' = [op EXCEPT ![p] = Running(a, json[a], doc, force)] \/ UNCHANGED op
      BY <2>4 DEF Begin
    <3>3. CASE op' = [op EXCEPT ![p] = Running(a, json[a], doc, force)]
      <4>1. Reads' = [Reads EXCEPT ![p] = <<a, json[a]>>]
        BY <2>1, <3>3 DEF Running
      <4>2. Reads[p] = <<>> /\ UNCHANGED json
        BY <2>4 DEF Begin, InFlight
      <4>3. Register!Read(p, a)
        BY <4>1, <4>2 DEF Register!Read
      <4> QED
        BY <4>3 DEF Register!SnapshotNext
    <3> QED
      BY <3>1, <3>2, <3>3
  <2>5. ASSUME NEW p \in Procs, ReplaceJson(p) PROVE Register!SnapshotNext
    <3> DEFINE a == op[p].art
               doc == op[p].doc
               c == [prov |-> doc.prov, force |-> op[p].force]
               o == [op[p] EXCEPT !.at = "stage-md", !.old = NoDoc]
    <3>0. op[p] \in Ops /\ op[p].at = "replace-json" /\ Deciding(p) /\ json' = [json EXCEPT ![a] = doc]
      BY <2>5 DEF ReplaceJson, Idle, Deciding
    <3>1. op' = [op EXCEPT ![p] = o]
      BY <2>5, <3>0 DEF ReplaceJson
    <3>2. o.at = "stage-md"
      BY <3>0 DEF Ops
    <3>3. Reads' = [Reads EXCEPT ![p] = <<>>]
      BY <2>1, <3>1, <3>2
    <3>4. c \in Calls /\ Register!Admits(op[p].old, doc, c.force)
      BY <3>0 DEF DecisionHolds
    <3>5. /\ doc.text \in Texts /\ doc.created \in Stamps
          /\ doc = [prov |-> c.prov, text |-> doc.text, created |-> doc.created]
      BY <3>0 DEF Ops, Docs
    <3> DEFINE new == [prov |-> c.prov, text |-> doc.text, created |-> doc.created]
    <3>6. Reads[p] # <<>> /\ Reads[p][1] = a /\ Reads[p][2] = op[p].old
      BY <3>0
    <3>7. Register!Admits(Reads[p][2], new, c.force) /\ json' = [json EXCEPT ![Reads[p][1]] = new]
      BY <3>0, <3>4, <3>5, <3>6
    <3>8. doc.text \in Texts /\ doc.created \in Stamps /\ c \in Calls
      BY <3>4, <3>5
    <3> HIDE DEF c, doc, o, a
    <3>9. Register!Replace(p)
      BY <3>3, <3>6, <3>7, <3>8 DEF Register!Replace
    <3> QED
      BY <3>9 DEF Register!SnapshotNext
  <2>6. ASSUME NEW p \in Procs, Rollback(p) PROVE Register!SnapshotNext
    <3>1. /\ op[p].at = "rollback" /\ op[p].art \in Artifacts /\ op' = [op EXCEPT ![p] = Idle]
          /\ json' = [json EXCEPT ![op[p].art] = NoDoc]
      BY <2>6 DEF Rollback, Ops, Idle
    <3>2. Reads' = Reads
      BY <2>1, <3>1 DEF Idle
    <3>3. Register!Lose(op[p].art)
      BY <3>1, <3>2 DEF Register!Lose, Register!Drop
    <3> QED
      BY <3>1, <3>3 DEF Register!SnapshotNext
  <2>7. ASSUME NEW p \in Procs, Stage(p) PROVE UNCHANGED <<json, Reads>>
    <3> DEFINE o == [op[p] EXCEPT !.at = IF @ = "stage-json" THEN "replace-json" ELSE "replace-md"]
    <3>1. /\ op[p] \in Ops /\ op[p].at \in {"stage-json", "stage-md"} /\ UNCHANGED json
          /\ op' = [op EXCEPT ![p] = o]
      BY <2>7 DEF Stage, Idle
    <3>2. Has(o) = Has(op[p])
      BY <3>1 DEF Ops
    <3> QED
      BY <2>2, <3>1, <3>2
  <2>8. ASSUME NEW p \in Procs, ReplaceMd(p) PROVE UNCHANGED <<json, Reads>>
    <3>1. op[p].at = "replace-md" /\ UNCHANGED json /\ op' = [op EXCEPT ![p] = Idle]
      BY <2>8 DEF ReplaceMd
    <3> QED
      BY <2>2, <3>1 DEF Idle
  <2>9. ASSUME NEW p \in Procs, Raise(p) PROVE Register!SnapshotNext
    <3>1. CASE op[p].at \in {"stage-md", "replace-md"}
      <4> DEFINE o == [op[p] EXCEPT !.at = "rollback"]
      <4>1. op[p] \in Ops /\ op' = [op EXCEPT ![p] = o] /\ UNCHANGED json
        BY <2>9, <3>1 DEF Raise, AfterFailure, Idle
      <4>2. Has(o) = <<>>
        BY <4>1 DEF Ops
      <4>3. Register!GiveUp(p)
        BY <2>3, <4>1, <4>2
      <4> QED
        BY <4>3 DEF Register!SnapshotNext
    <3>2. CASE op[p].at \in {"stage-json", "replace-json"}
      <4>1. op' = [op EXCEPT ![p] = Idle] /\ UNCHANGED json
        BY <2>9, <3>2 DEF Raise, AfterFailure
      <4>2. Register!GiveUp(p)
        BY <2>3, <4>1 DEF Idle
      <4> QED
        BY <4>2 DEF Register!SnapshotNext
    <3> QED
      BY <2>9, <3>1, <3>2 DEF Raise
  <2>10. ASSUME NEW p \in Procs, Die(p) PROVE Register!SnapshotNext
    <3>1. op' = [op EXCEPT ![p] = Idle] /\ UNCHANGED json
      BY <2>10 DEF Die
    <3>2. Register!GiveUp(p)
      BY <2>3, <3>1 DEF Idle
    <3> QED
      BY <3>2 DEF Register!SnapshotNext
  <2>11. CASE UNCHANGED vars
    BY <2>11 DEF vars
  <2> QED
    BY <2>4, <2>5, <2>6, <2>7, <2>8, <2>9, <2>10, <2>11 DEF Next, Step
<1> QED
  BY <1>1, <1>2, Inductive, PTL DEF Spec, ImplementsRegister, Register!SnapshotSpec
=============================================================================
