------------------------ MODULE ReconciliationProofs ------------------------
(***************************************************************************)
(* Proofs about Reconciliation for any imports, columns, targets, claims   *)
(* and texts, and every interleaving of the UI, the command and the rest.  *)
(***************************************************************************)
EXTENDS Reconciliation, TLAPS

-----------------------------------------------------------------------------
(* What a write leaves *)

\* write_artifact leaves the old artifact or the new one.
LEMMA AfterIsEither ==
  ASSUME NEW old, NEW doc, NEW force
  PROVE  After(old, doc, force) \in {old, doc}
BY DEF After

\* A forced rewrite of a result takes effect: discovered may follow discovered.
LEMMA ResultIsWritten ==
  ASSUME NEW old \in Results \cup {NoDoc}, NEW doc \in Results, NEW force \in BOOLEAN
  PROVE  After(old, doc, force) = doc
BY NoResultAssumption DEF After, Outcome, Skips, TransitionAllowed, AllowedNext, Provenances,
   PreservesSmeWork, SmeWork, Results

\* A forced write of a reconciled import takes effect, whatever it replaces.
LEMMA ImportIsReconciled ==
  ASSUME NEW old \in ImportDocs \cup {NoDoc}, NEW imp \in ImportDocs
  PROVE  After(old, Reconciled(imp), TRUE) = Reconciled(imp)
BY NoDocAssumption DEF After, Outcome, Skips, TransitionAllowed, AllowedNext, Provenances,
   ImportDocs, Reconciled

\* An unforced import leaves a reconciled one alone.
LEMMA ReimportIsSkipped ==
  ASSUME NEW old \in ImportDocs, NEW doc, old.prov = "client-provided-reconciled"
  PROVE  After(old, doc, FALSE) = old
BY NoDocAssumption DEF After, Outcome, Skips, PreservesSmeWork, SmeWork

\* A forced write of an SME-authored description takes effect on any other.
LEMMA DescriptionIsSettled ==
  ASSUME NEW old \in DescDocs \cup {NoDoc}, NEW doc \in DescDocs, doc.prov = "sme-authored"
  PROVE  After(old, doc, TRUE) = doc
BY NoDocAssumption DEF After, Outcome, Skips, TransitionAllowed, AllowedNext, Provenances, DescDocs

\* What is SME-authored stays so through every write.
LEMMA SettledSticks ==
  ASSUME NEW old \in DescDocs, NEW doc \in DescDocs, NEW force \in BOOLEAN,
         old.prov = "sme-authored"
  PROVE  After(old, doc, force).prov = "sme-authored"
BY NoDocAssumption DEF After, Outcome, Skips, TransitionAllowed, AllowedNext, Provenances, DescDocs,
   PreservesSmeWork, SmeWork

-----------------------------------------------------------------------------
(* Type correctness *)

\* The results reconcile computes are results.
LEMMA BatchIsTyped ==
  ASSUME NEW ref \in [Imports -> Columns \cup {None}]
  PROVE  Batch(ref) \in [Keys -> Results \cup {NoDoc}]
<1>1. \A i \in Imports : Result(Bucket(i, ref[i]), ref[i]) \in Results
  BY DEF Result, Bucket, Results
<1>2. Result("gap-source-only", None) \in Results
  BY DEF Result, Results
<1> QED
  BY <1>1, <1>2 DEF Batch

\* A resolution that begins is one.
LEMMA ResolutionIsTyped ==
  ASSUME NEW k \in Keys, NEW res \in Results, NEW side \in Sides \cup {"deferred"},
         NEW merged \in Texts \cup {None}
  PROVE  Resolution(k, res, side, merged) \in Works
BY DEF Resolution, Works

\* A resolution that begins is not yet at its description.
LEMMA Beginning ==
  ASSUME TypeOK, NEW w \in Workers, NEW k, NEW res, NEW side, NEW merged,
         work' = [work EXCEPT ![w] = Resolution(k, res, side, merged)]
  PROVE  \A v \in Workers : work'[v].at = "desc" => Settles(v, ChosenText(v))'
<1>1. work'[w].at # "desc" /\ \A v \in Workers \ {w} : work'[v] = work[v]
  BY DEF TypeOK, Resolution
<1> QED
  BY <1>1 DEF TypeOK, Settles, ChosenText

\* The text a resolution settles is one of the texts.
LEMMA ChosenTextIsTyped ==
  ASSUME NEW w \in Workers, work[w] \in Works, work[w].at \in {"import", "desc"}
  PROVE  ChosenText(w) \in Texts \cup {None}
<1>1. work[w].imp.text \in Texts /\ work[w].merged \in Texts \cup {None}
  BY DEF Works, ImportDocs
<1> QED
  BY <1>1 DEF ChosenText

\* A resolution whose decision is recorded, and what its import step leaves.
LEMMA ImportStep ==
  ASSUME TypeOK, NEW w \in Workers, WriteImport(w)
  PROVE  /\ work[w] \in Works /\ work[w].key \in Imports /\ work[w].imp \in ImportDocs
         /\ Reconciled(work[w].imp) \in ImportDocs
         /\ import' = [import EXCEPT ![work[w].key] = Reconciled(work[w].imp)]
         /\ work'[w] = Idle \/ (/\ Settles(w, ChosenText(w)) /\ work'[w] \in Works
                                /\ work'[w].at = "desc" /\ work'[w].key = work[w].key
                                /\ work'[w].side = work[w].side
                                /\ ChosenText(w)' = ChosenText(w))
         /\ \A v \in Workers \ {w} : work'[v] = work[v]
<1> USE DEF TypeOK
<1>1. work[w] \in Works /\ work[w].at = "import"
  BY DEF WriteImport, Idle
<1>2. work[w].key \in Imports /\ work[w].imp \in ImportDocs /\ work[w].side \in Sides
  BY <1>1 DEF Works
<1>3. Reconciled(work[w].imp) \in ImportDocs
  BY <1>2 DEF Reconciled, ImportDocs
<1> DEFINE next == [at |-> "desc", key |-> work[w].key, res |-> work[w].res,
                    side |-> work[w].side, merged |-> work[w].merged, imp |-> work[w].imp]
<1>4. next \in Works
  BY <1>1 DEF Works
<1>5. /\ import' = [import EXCEPT ![work[w].key] = After(@, Reconciled(work[w].imp), TRUE)]
      /\ work' = [work EXCEPT ![w] = IF Settles(w, ChosenText(w)) THEN next ELSE Idle]
  BY DEF WriteImport
<1>6. import[work[w].key] \in ImportDocs \cup {NoDoc}
  BY <1>2
<1>7. import' = [import EXCEPT ![work[w].key] = Reconciled(work[w].imp)]
  BY <1>2, <1>5, <1>6, ImportIsReconciled
<1>8. ASSUME Settles(w, ChosenText(w))
      PROVE  work'[w] = next /\ ChosenText(w)' = ChosenText(w)
  <2>1. work'[w] = next
    BY <1>5, <1>8
  <2> QED
    BY <2>1 DEF ChosenText
<1>9. \A v \in Workers \ {w} : work'[v] = work[v]
  BY <1>5
<1>10. CASE Settles(w, ChosenText(w))
  BY <1>1, <1>2, <1>3, <1>4, <1>7, <1>8, <1>9, <1>10
<1>11. CASE ~Settles(w, ChosenText(w))
  BY <1>1, <1>2, <1>3, <1>5, <1>7, <1>9, <1>11
<1> QED
  BY <1>10, <1>11

\* A resolution whose description is due, and what its last step leaves.
LEMMA DescStep ==
  ASSUME TypeOK, NEW w \in Workers, WriteDesc(w)
  PROVE  LET k == work[w].key
             doc == [prov |-> "sme-authored", text |-> ChosenText(w)]
         IN  /\ work[w] \in Works /\ k \in Imports /\ Claim[k] \in Targets /\ doc \in DescDocs
             /\ desc' = [desc EXCEPT ![Claim[k]] = doc]
             /\ work' = [work EXCEPT ![w] = Idle]
<1> DEFINE k == work[w].key
           doc == [prov |-> "sme-authored", text |-> ChosenText(w)]
<1> USE DEF TypeOK
<1>1. work[w] \in Works /\ work[w].at = "desc"
  BY DEF WriteDesc, Idle
<1>2. k \in Imports /\ Settles(w, ChosenText(w))
  BY <1>1 DEF Works
<1>3. Claim[k] \in Targets
  BY <1>2, RefsAssumption DEF Settles
<1>4. doc \in DescDocs
  BY <1>1, <1>2, ChosenTextIsTyped DEF Settles, DescDocs
<1>5. desc[Claim[k]] \in DescDocs \cup {NoDoc}
  BY <1>3
<1>6. After(desc[Claim[k]], doc, TRUE) = doc
  BY <1>4, <1>5, DescriptionIsSettled
<1> QED
  BY <1>1, <1>2, <1>3, <1>4, <1>6 DEF WriteDesc

\* A resolution that begins to be recorded, and what its first step leaves.
LEMMA DecisionStep ==
  ASSUME TypeOK, NEW w \in Workers, WriteDecision(w)
  PROVE  LET k == work[w].key IN
         /\ work[w] \in Works /\ k \in Keys
         /\ \E doc \in Results : /\ doc.decision = work[w].side
                                 /\ result' = [result EXCEPT ![k] = doc]
         /\ work'[w] = Idle => work[w].side = "deferred" \/ k \notin Imports \/ import[k] = NoDoc
         /\ work'[w] # Idle => /\ work'[w] \in Works /\ k \in Imports /\ import[k] # NoDoc
                               /\ work'[w].at = "import" /\ work'[w].key = k
                               /\ work'[w].side = work[w].side
         /\ work' = [work EXCEPT ![w] = work'[w]]
<1> USE DEF TypeOK
<1>1. work[w] \in Works /\ work[w].at = "result"
  BY DEF WriteDecision, Idle
<1> DEFINE k == work[w].key
           imp == IF k \in Imports THEN import[k] ELSE NoDoc
           doc == [prov |-> "discovered", decision |-> work[w].side,
                   bucket |-> work[w].res.bucket, ref |-> work[w].res.ref]
           next == [at |-> "import", key |-> k, res |-> work[w].res, side |-> work[w].side,
                    merged |-> work[w].merged, imp |-> imp]
           ends == work[w].side = "deferred" \/ imp = NoDoc
<1>2. doc \in Results /\ k \in Keys /\ result[k] \in Results \cup {NoDoc}
  BY <1>1 DEF Works, Results
<1>3. After(result[k], doc, TRUE) = doc
  BY <1>2, ResultIsWritten
<1>4. ~ends => next \in Works /\ k \in Imports /\ import[k] # NoDoc
  <2>1. ~ends => work[w].side \in Sides /\ k \in Imports /\ imp \in ImportDocs
    BY <1>1 DEF Works
  <2>2. work[w].res \in Results /\ work[w].merged \in Texts \cup {None}
    BY <1>1 DEF Works
  <2> QED
    BY <2>1, <2>2 DEF Works
<1>5. /\ result' = [result EXCEPT ![k] = After(@, doc, TRUE)]
      /\ work' = [work EXCEPT ![w] = IF ends THEN Idle ELSE next]
  BY DEF WriteDecision
<1>6. work'[w] = IF ends THEN Idle ELSE next
  BY <1>5
<1>7. next # Idle
  BY DEF Idle
<1>8. result' = [result EXCEPT ![k] = doc]
  BY <1>2, <1>3, <1>5
<1>9. work'[w] = Idle => work[w].side = "deferred" \/ k \notin Imports \/ import[k] = NoDoc
  BY <1>6, <1>7
<1>10. work'[w] # Idle => /\ work'[w] \in Works /\ k \in Imports /\ import[k] # NoDoc
                          /\ work'[w].at = "import" /\ work'[w].key = k
                          /\ work'[w].side = work[w].side
  BY <1>4, <1>6
<1>11. work' = [work EXCEPT ![w] = work'[w]]
  BY <1>5, <1>6
<1>12. doc.decision = work[w].side
  OBVIOUS
<1> QED
  BY <1>1, <1>2, <1>8, <1>9, <1>10, <1>11, <1>12

\* The artifacts, the command and the resolutions in progress are well typed.
THEOREM TypeCorrect == Spec => []TypeOK
<1>1. Init => TypeOK
  BY DEF Init, TypeOK, Idle
<1>2. TypeOK /\ [Next]_vars => TypeOK'
  <2> SUFFICES ASSUME TypeOK, [Next]_vars PROVE TypeOK'
    OBVIOUS
  <2> USE DEF TypeOK
  <2>0. UNCHANGED work => \A v \in Workers : work'[v].at = "desc" => Settles(v, ChosenText(v))'
    BY DEF Settles, ChosenText
  <2>1. ASSUME NEW c \in Columns, Discover(c) PROVE TypeOK'
    BY <2>0, <2>1 DEF Discover
  <2>2. ASSUME NEW i \in Imports, Import(i) PROVE TypeOK'
    <3>1. PICK text \in Texts, type \in DocTypes :
            import' = [import EXCEPT ![i] =
              After(@, [prov |-> "client-provided", text |-> text, type |-> type], FALSE)]
      BY <2>2 DEF Import
    <3>2. After(import[i], [prov |-> "client-provided", text |-> text, type |-> type], FALSE)
            \in ImportDocs \cup {NoDoc}
      <4> DEFINE doc == [prov |-> "client-provided", text |-> text, type |-> type]
      <4>1. doc \in ImportDocs
        BY DEF ImportDocs
      <4>2. After(import[i], doc, FALSE) \in {import[i], doc}
        BY AfterIsEither
      <4> QED
        BY <4>1, <4>2
    <3> QED
      BY <2>0, <2>2, <3>1, <3>2 DEF Import
  <2>3. ASSUME NEW t \in Targets, Draft(t) \/ Review(t) PROVE TypeOK'
    <3>1. PICK doc \in DescDocs, force \in BOOLEAN :
            desc' = [desc EXCEPT ![t] = After(@, doc, force)]
      BY <2>3 DEF Draft, Review
    <3>2. After(desc[t], doc, force) \in DescDocs \cup {NoDoc}
      BY AfterIsEither
    <3> QED
      BY <2>0, <2>3, <3>1, <3>2 DEF Draft, Review
  <2>4. CASE StartReconcile
    <3>1. PICK ref \in [Imports -> Columns \cup {None}], confirm \in BOOLEAN :
            command' = [at |-> "writing", batch |-> Batch(ref), confirm |-> confirm,
                        left |-> {k \in Keys : Batch(ref)[k] # NoDoc}]
      BY <2>4 DEF StartReconcile
    <3>2. command' \in Commands
      BY <3>1, BatchIsTyped DEF Commands
    <3> QED
      BY <2>0, <2>4, <3>2 DEF StartReconcile
  <2>5. CASE EndWriting
    <3>1. command \in Commands
      BY <2>5 DEF EndWriting, Idle
    <3>2. command' \in Commands \cup {Idle}
      BY <2>5, <3>1 DEF EndWriting, Commands
    <3> QED
      BY <2>0, <2>5, <3>2 DEF EndWriting
  <2>6. CASE EndCommand
    BY <2>0, <2>6 DEF EndCommand
  <2>7. ASSUME NEW k \in Keys, WriteResult(k) PROVE TypeOK'
    <3>1. command \in Commands
      BY <2>7 DEF WriteResult, Idle
    <3>2. command' \in Commands /\ \A j \in command'.left : command'.batch[j] # NoDoc
      <4>1. \A j \in command.left : command.batch[j] # NoDoc
        BY <3>1 DEF Commands, Idle
      <4>2. command' = [command EXCEPT !.left = @ \ {k}]
        BY <2>7 DEF WriteResult
      <4>3. command'.batch = command.batch /\ command'.left \subseteq command.left
        BY <3>1, <4>2 DEF Commands
      <4> QED
        BY <3>1, <4>1, <4>2, <4>3 DEF Commands
    <3>3. command.batch[k] \in Results \cup {NoDoc}
      BY <3>1 DEF Commands
    <3>4. After(result[k], command.batch[k], FALSE) \in Results \cup {NoDoc}
      <4>1. After(result[k], command.batch[k], FALSE) \in {result[k], command.batch[k]}
        BY AfterIsEither
      <4> QED
        BY <3>3, <4>1
    <3> QED
      BY <2>0, <2>7, <3>2, <3>4 DEF WriteResult
  <2>8. ASSUME NEW k \in Keys, Confirm(k) PROVE TypeOK'
    <3>1. command \in Commands
      BY <2>8 DEF Confirm, Idle
    <3>2. command' \in Commands /\ \A j \in command'.left : command'.batch[j] # NoDoc
      <4>1. \A j \in command.left : command.batch[j] # NoDoc
        BY <3>1 DEF Commands, Idle
      <4>2. command' = [command EXCEPT !.left = @ \ {k}]
        BY <2>8 DEF Confirm
      <4>3. command'.batch = command.batch /\ command'.left \subseteq command.left
        BY <3>1, <4>2 DEF Commands
      <4> QED
        BY <3>1, <4>1, <4>2, <4>3 DEF Commands
    <3>3. command.batch[k] \in Results
      <4>1. command.batch[k] \in Results \cup {NoDoc} /\ command.batch[k] # NoDoc
        BY <2>8, <3>1 DEF Confirm, Commands, Idle
      <4> QED
        BY <4>1
    <3>4. Resolution(k, command.batch[k], "doc", None) \in Works
      BY <3>3, ResolutionIsTyped DEF Sides
    <3>5. work' = [work EXCEPT !["cli"] = Resolution(k, command.batch[k], "doc", None)]
      BY <2>8 DEF Confirm
    <3>6. \A v \in Workers : work'[v].at = "desc" => Settles(v, ChosenText(v))'
      BY <3>5, Beginning DEF Workers
    <3> QED
      BY <2>8, <3>2, <3>4, <3>5, <3>6 DEF Confirm, Workers
  <2>9. ASSUME NEW k \in Keys, AskResolve(k) PROVE TypeOK'
    <3>1. PICK side \in Sides \cup {"deferred"}, merged \in Texts \cup {None} :
            work' = [work EXCEPT !["ui"] = Resolution(k, result[k], side, merged)]
      BY <2>9 DEF AskResolve
    <3>2. result[k] \in Results
      BY <2>9 DEF AskResolve
    <3>3. Resolution(k, result[k], side, merged) \in Works
      BY <3>2, ResolutionIsTyped
    <3>4. \A v \in Workers : work'[v].at = "desc" => Settles(v, ChosenText(v))'
      BY <3>1, Beginning DEF Workers
    <3> QED
      BY <2>9, <3>1, <3>3, <3>4 DEF AskResolve, Workers
  <2>10. ASSUME NEW w \in Workers, WriteDecision(w) PROVE TypeOK'
    <3>1. result' \in [Keys -> Results \cup {NoDoc}]
      BY <2>10, DecisionStep
    <3>2. work' \in [Workers -> Works \cup {Idle}]
      BY <2>10, DecisionStep
    <3>3. \A v \in Workers : work'[v].at = "desc" => Settles(v, ChosenText(v))'
      <4>1. work'[w].at # "desc" /\ \A v \in Workers \ {w} : work'[v] = work[v]
        BY <2>10, DecisionStep DEF Idle
      <4> QED
        BY <4>1 DEF Settles, ChosenText
    <3> QED
      BY <2>10, <3>1, <3>2, <3>3 DEF WriteDecision
  <2>11. ASSUME NEW w \in Workers, WriteImport(w) PROVE TypeOK'
    <3>1. import' \in [Imports -> ImportDocs \cup {NoDoc}]
      BY <2>11, ImportStep
    <3>2. work' \in [Workers -> Works \cup {Idle}]
      <4>1. work'[w] \in Works \cup {Idle}
        BY <2>11, ImportStep
      <4> QED
        BY <2>11, <4>1 DEF WriteImport
    <3>3. \A v \in Workers : work'[v].at = "desc" => Settles(v, ChosenText(v))'
      <4>1. work'[w] = Idle \/ (Settles(w, ChosenText(w)) /\ work'[w].key = work[w].key
                                  /\ ChosenText(w)' = ChosenText(w))
        BY <2>11, ImportStep
      <4>2. \A v \in Workers \ {w} : work'[v] = work[v]
        BY <2>11, ImportStep
      <4>3. work'[w].at = "desc" => Settles(w, ChosenText(w))'
        BY <4>1 DEF Settles, Idle
      <4>4. ASSUME NEW v \in Workers, v # w, work'[v].at = "desc"
            PROVE  Settles(v, ChosenText(v))'
        BY <4>2, <4>4 DEF Settles, ChosenText
      <4> QED
        BY <4>3, <4>4
    <3>4. halfway' \subseteq Keys
      BY <2>11 DEF WriteImport, Completed
    <3> QED
      BY <2>11, <3>1, <3>2, <3>3, <3>4 DEF WriteImport
  <2>12. ASSUME NEW w \in Workers, WriteDesc(w) PROVE TypeOK'
    <3>1. desc' \in [Targets -> DescDocs \cup {NoDoc}]
      BY <2>12, DescStep
    <3>2. work' \in [Workers -> Works \cup {Idle}] /\ work'[w] = Idle
            /\ \A v \in Workers \ {w} : work'[v] = work[v]
      BY <2>12, DescStep
    <3>3. \A v \in Workers : work'[v].at = "desc" => Settles(v, ChosenText(v))'
      BY <3>2 DEF Settles, ChosenText, Idle
    <3>4. halfway' \subseteq Keys
      BY <2>12 DEF WriteDesc, Completed
    <3> QED
      BY <2>12, <3>1, <3>2, <3>3, <3>4 DEF WriteDesc
  <2>13. ASSUME NEW w \in Workers, Die(w) PROVE TypeOK'
    <3>1. work[w].at \in {"import", "desc"} => work[w].key \in Keys
      BY DEF Works, Idle, Keys
    <3>2. \A v \in Workers : work'[v].at = "desc" => Settles(v, ChosenText(v))'
      <4>1. work'[w] = Idle /\ \A v \in Workers \ {w} : work'[v] = work[v]
        BY <2>13 DEF Die
      <4> QED
        BY <4>1 DEF Settles, ChosenText, Idle
    <3> QED
      BY <2>13, <3>1, <3>2 DEF Die
  <2>14. CASE UNCHANGED vars
    BY <2>0, <2>14 DEF vars
  <2> QED
    BY <2>1, <2>2, <2>3, <2>4, <2>5, <2>6, <2>7, <2>8, <2>9, <2>10, <2>11, <2>12, <2>13, <2>14
       DEF Next
<1> QED
  BY <1>1, <1>2, PTL DEF Spec

-----------------------------------------------------------------------------
(* Legal writes, and what is reconciled *)

\* None of the three writes of a resolution is ever refused.
THEOREM NeverRefused == Spec => []ResolutionNeverRefused
<1>1. TypeOK => ResolutionNeverRefused
  <2> SUFFICES ASSUME TypeOK, NEW w \in Workers PROVE
        LET k == work[w].key IN
        /\ work[w].at = "result" => TransitionAllowed(result[k], "discovered")
        /\ work[w].at = "import" => TransitionAllowed(import[k], "client-provided-reconciled")
        /\ work[w].at = "desc"   => TransitionAllowed(desc[Claim[k]], "sme-authored")
    BY DEF ResolutionNeverRefused
  <2> USE DEF TypeOK, TransitionAllowed, AllowedNext, Provenances
  <2> DEFINE k == work[w].key
  <2>1. work[w] \in Works \cup {Idle}
    OBVIOUS
  <2>2. CASE work[w].at = "result"
    <3>1. k \in Keys
      BY <2>1, <2>2 DEF Works, Idle, Keys
    <3>2. result[k] \in Results \cup {NoDoc}
      BY <3>1
    <3> QED
      BY <2>2, <3>2 DEF Results
  <2>3. CASE work[w].at = "import"
    <3>1. k \in Imports
      BY <2>1, <2>3 DEF Works, Idle
    <3>2. import[k] \in ImportDocs \cup {NoDoc}
      BY <3>1
    <3> QED
      BY <2>3, <3>2 DEF ImportDocs
  <2>4. CASE work[w].at = "desc"
    <3>1. k \in Imports /\ Settles(w, ChosenText(w))
      BY <2>1, <2>4 DEF Works, Idle
    <3>2. Claim[k] \in Targets
      BY <3>1, RefsAssumption DEF Settles
    <3>3. desc[Claim[k]] \in DescDocs \cup {NoDoc}
      BY <3>2
    <3> QED
      BY <2>4, <3>3 DEF DescDocs
  <2> QED
    BY <2>1, <2>2, <2>3, <2>4 DEF Works, Idle
<1> QED
  BY <1>1, TypeCorrect, PTL

\* The imports, what is reconciled in particular, change by a re-import of what
\* is not reconciled, or in the import step of a resolution.
LEMMA ReconciledKept ==
  ASSUME TypeOK, [Next]_vars, NEW i \in Imports,
         import[i] # NoDoc, import[i].prov = "client-provided-reconciled"
  PROVE  /\ import'[i] # NoDoc /\ import'[i].prov = "client-provided-reconciled"
         /\ import'[i] # import[i] => \E w \in Workers : WriteImport(w) /\ work[w].key = i
<1> USE DEF TypeOK
<1>1. ASSUME NEW j \in Imports, Import(j) PROVE import'[i] = import[i]
  <2>1. PICK doc \in ImportDocs : import' = [import EXCEPT ![j] = After(@, doc, FALSE)]
    <3>1. PICK text \in Texts, type \in DocTypes :
            import' = [import EXCEPT ![j] =
              After(@, [prov |-> "client-provided", text |-> text, type |-> type], FALSE)]
      BY <1>1 DEF Import
    <3> QED
      BY <3>1 DEF ImportDocs
  <2>2. After(import[i], doc, FALSE) = import[i]
    BY ReimportIsSkipped
  <2> QED
    BY <2>1, <2>2
<1>2. ASSUME NEW w \in Workers, WriteImport(w)
      PROVE  /\ import'[i] # NoDoc /\ import'[i].prov = "client-provided-reconciled"
             /\ import'[i] # import[i] => work[w].key = i
  <2>1. /\ import' = [import EXCEPT ![work[w].key] = Reconciled(work[w].imp)]
        /\ Reconciled(work[w].imp) \in ImportDocs
    BY <1>2, ImportStep
  <2> QED
    BY <2>1, NoDocAssumption DEF Reconciled
<1>3. CASE UNCHANGED import
  BY <1>3
<1>4. UNCHANGED import \/ (\E j \in Imports : Import(j)) \/ (\E w \in Workers : WriteImport(w))
  BY DEF Next, vars, Discover, Draft, Review, StartReconcile, EndWriting, EndCommand, WriteResult,
         Confirm, AskResolve, WriteDecision, WriteDesc, Die
<1> QED
  BY <1>1, <1>2, <1>3, <1>4

\* What has been reconciled stays, and only a resolution rewrites it.
THEOREM ReconciledIsKept == Spec => ReconciledStays
<1>1. TypeOK /\ [Next]_vars =>
        [\A i \in Imports :
           /\ import[i] # NoDoc /\ import[i].prov = "client-provided-reconciled"
           /\ import'[i] # import[i]
           => /\ import'[i].prov = "client-provided-reconciled"
              /\ \E w \in Workers : OnIt(w, i) /\ work[w].at = "import" /\ work'[w] # work[w]]_vars
  <2> SUFFICES ASSUME TypeOK, [Next]_vars, NEW i \in Imports,
                      import[i] # NoDoc, import[i].prov = "client-provided-reconciled",
                      import'[i] # import[i]
               PROVE  /\ import'[i].prov = "client-provided-reconciled"
                      /\ \E w \in Workers : OnIt(w, i) /\ work[w].at = "import" /\ work'[w] # work[w]
    OBVIOUS
  <2>1. PICK w \in Workers : WriteImport(w) /\ work[w].key = i
    BY ReconciledKept
  <2>2. import'[i].prov = "client-provided-reconciled"
    BY ReconciledKept
  <2>3. work[w].at = "import" /\ work[w] # Idle
    BY <2>1 DEF WriteImport, Idle
  <2>4. work'[w] # work[w]
    BY <2>1, <2>3, ImportStep DEF Idle
  <2> QED
    BY <2>1, <2>2, <2>3, <2>4 DEF OnIt
<1> QED
  BY <1>1, TypeCorrect, PTL DEF Spec, ReconciledStays

-----------------------------------------------------------------------------
(* Decisions and their effects *)

\* w has recorded the decision that stands on i, and has still to carry it out.
Owes(w, i) == /\ work[w].at \in {"import", "desc"} /\ work[w].key = i
              /\ work[w].side = result[i].decision

Effect(i) ==
  /\ import[i] # NoDoc /\ import[i].prov = "client-provided-reconciled"
  /\ result[i].decision = "doc" /\ Claim[i] # None
       => desc[Claim[i]] # NoDoc /\ desc[Claim[i]].prov = "sme-authored"

\* Results, computed, written or worked on, are of imports that exist ...
Present ==
  \A i \in Imports :
    \/ result[i] # NoDoc
    \/ command # Idle /\ command.batch[i] # NoDoc
    \/ \E w \in Workers : OnIt(w, i)
    => import[i] # NoDoc

\* ... and are computed without a decision.
BatchFresh ==
  command # Idle => \A k \in Keys : command.batch[k] # NoDoc => command.batch[k].decision = None

\* A resolution comes to the description when its import is reconciled.
ImportFirst ==
  \A w \in Workers : work[w].at = "desc" =>
    /\ import[work[w].key] # NoDoc
    /\ import[work[w].key].prov = "client-provided-reconciled"

\* A decision has its effect or somebody owes it.
Done ==
  \A i \in Imports :
    /\ result[i] # NoDoc /\ result[i].decision \in Sides
    /\ i \notin halfway /\ \A w \in Workers : ~Owes(w, i)
    => Effect(i)

IInv == TypeOK /\ Present /\ BatchFresh /\ ImportFirst /\ Done

\* An import is never removed.
LEMMA ImportKept ==
  ASSUME TypeOK, [Next]_vars, NEW i \in Imports, import[i] # NoDoc
  PROVE  import'[i] # NoDoc
<1> USE DEF TypeOK
<1>1. ASSUME NEW j \in Imports, Import(j) PROVE import'[i] # NoDoc
  <2>1. PICK doc \in ImportDocs : import' = [import EXCEPT ![j] = After(@, doc, FALSE)]
    <3>1. PICK text \in Texts, type \in DocTypes :
            import' = [import EXCEPT ![j] =
              After(@, [prov |-> "client-provided", text |-> text, type |-> type], FALSE)]
      BY <1>1 DEF Import
    <3> QED
      BY <3>1 DEF ImportDocs
  <2>2. After(import[i], doc, FALSE) \in {import[i], doc}
    BY AfterIsEither
  <2> QED
    BY <2>1, <2>2, NoDocAssumption
<1>2. ASSUME NEW w \in Workers, WriteImport(w) PROVE import'[i] # NoDoc
  BY <1>2, ImportStep, NoDocAssumption
<1>3. UNCHANGED import \/ (\E j \in Imports : Import(j)) \/ (\E w \in Workers : WriteImport(w))
  BY DEF Next, vars, Discover, Draft, Review, StartReconcile, EndWriting, EndCommand, WriteResult,
         Confirm, AskResolve, WriteDecision, WriteDesc, Die
<1> QED
  BY <1>1, <1>2, <1>3

\* A description that is SME-authored stays so.
LEMMA DescriptionKept ==
  ASSUME TypeOK, [Next]_vars, NEW t \in Targets, desc[t] # NoDoc, desc[t].prov = "sme-authored"
  PROVE  desc'[t] # NoDoc /\ desc'[t].prov = "sme-authored"
<1> USE DEF TypeOK
<1>1. ASSUME NEW u \in Targets, Draft(u) \/ Review(u)
      PROVE  desc'[t] # NoDoc /\ desc'[t].prov = "sme-authored"
  <2>1. PICK doc \in DescDocs, force \in BOOLEAN : desc' = [desc EXCEPT ![u] = After(@, doc, force)]
    BY <1>1 DEF Draft, Review
  <2>2. After(desc[t], doc, force) \in {desc[t], doc}
    BY AfterIsEither
  <2>3. After(desc[t], doc, force).prov = "sme-authored"
    BY SettledSticks
  <2> QED
    BY <2>1, <2>2, <2>3, NoDocAssumption
<1>2. ASSUME NEW w \in Workers, WriteDesc(w)
      PROVE  desc'[t] # NoDoc /\ desc'[t].prov = "sme-authored"
  <2> DEFINE doc == [prov |-> "sme-authored", text |-> ChosenText(w)]
  <2>1. doc \in DescDocs /\ desc' = [desc EXCEPT ![Claim[work[w].key]] = doc]
    BY <1>2, DescStep
  <2>2. desc'[t] \in {desc[t], doc}
    BY <2>1
  <2>3. doc.prov = "sme-authored" /\ doc # NoDoc
    BY <2>1, NoDocAssumption
  <2> HIDE DEF doc
  <2> QED
    BY <2>2, <2>3
<1>3. UNCHANGED desc \/ (\E u \in Targets : Draft(u) \/ Review(u)) \/ (\E w \in Workers : WriteDesc(w))
  BY DEF Next, vars, Discover, Import, StartReconcile, EndWriting, EndCommand, WriteResult,
         Confirm, AskResolve, WriteDecision, WriteImport, Die
<1> QED
  BY <1>1, <1>2, <1>3

\* An effect lasts as long as the decision.
LEMMA EffectKept ==
  ASSUME TypeOK, [Next]_vars, NEW i \in Imports, Effect(i), result'[i] = result[i]
  PROVE  Effect(i)'
<1>1. import'[i] # NoDoc /\ import'[i].prov = "client-provided-reconciled"
  BY ReconciledKept DEF Effect
<1>2. ASSUME result[i].decision = "doc", Claim[i] # None
      PROVE  desc'[Claim[i]] # NoDoc /\ desc'[Claim[i]].prov = "sme-authored"
  <2>1. Claim[i] \in Targets
    BY <1>2, RefsAssumption
  <2> QED
    BY <1>2, <2>1, DescriptionKept DEF Effect
<1> QED
  BY <1>1, <1>2 DEF Effect

\* What is done stays done while the decision, those who owe it and the deaths stay.
LEMMA DoneKept ==
  ASSUME TypeOK, [Next]_vars, Done, NEW i \in Imports, result'[i] = result[i],
         i \notin halfway' => i \notin halfway,
         \A w \in Workers : Owes(w, i) => Owes(w, i)',
         result'[i] # NoDoc, result'[i].decision \in Sides, i \notin halfway',
         \A w \in Workers : ~Owes(w, i)'
  PROVE  Effect(i)'
BY EffectKept DEF Done

\* Results are of imports that exist, in every step.
LEMMA PresentKept ==
  ASSUME TypeOK, Present, [Next]_vars
  PROVE  Present'
<1> SUFFICES ASSUME NEW i \in Imports,
                    \/ result'[i] # NoDoc
                    \/ command' # Idle /\ command'.batch[i] # NoDoc
                    \/ \E w \in Workers : OnIt(w, i)'
             PROVE  import[i] # NoDoc
  BY ImportKept DEF Present
<1> USE DEF TypeOK
<1>0. i \in Keys
  BY DEF Keys
<1>1. CASE UNCHANGED <<result, command, work>>
  BY <1>1 DEF Present, OnIt
<1>2. CASE StartReconcile
  <2>1. PICK ref \in [Imports -> Columns \cup {None}] :
          command'.batch = Batch(ref) /\ UNCHANGED <<result, work>>
    BY <1>2 DEF StartReconcile
  <2>2. Batch(ref)[i] # NoDoc => import[i] # NoDoc
    BY <1>0, RefsAssumption DEF Batch, Keys, Discovered
  <2> QED
    BY <2>1, <2>2 DEF Present, OnIt
<1>3. CASE EndWriting \/ EndCommand
  <2>1. command' = Idle \/ (command # Idle /\ command'.batch = command.batch)
    BY <1>3 DEF EndWriting, EndCommand, Idle
  <2> QED
    BY <1>3, <2>1 DEF Present, OnIt, EndWriting, EndCommand
<1>4. ASSUME NEW k \in Keys, WriteResult(k) PROVE import[i] # NoDoc
  <2>1. command # Idle /\ command' # Idle /\ command'.batch = command.batch
    BY <1>4 DEF WriteResult, Commands, Idle
  <2>2. result'[i] \in {result[i], command.batch[i]} /\ UNCHANGED work
    BY <1>0, <1>4, AfterIsEither DEF WriteResult
  <2> QED
    BY <2>1, <2>2 DEF Present, OnIt
<1>5. ASSUME NEW k \in Keys, Confirm(k) PROVE import[i] # NoDoc
  <2>1. command # Idle /\ command' # Idle /\ command'.batch = command.batch
          /\ command.batch[k] # NoDoc /\ UNCHANGED result
    BY <1>5 DEF Confirm, Commands, Idle
  <2>2. \A w \in Workers : OnIt(w, i)' => OnIt(w, i) \/ k = i
    BY <1>5 DEF Confirm, OnIt, Resolution
  <2> QED
    BY <2>1, <2>2 DEF Present
<1>6. ASSUME NEW k \in Keys, AskResolve(k) PROVE import[i] # NoDoc
  <2>1. result[k] # NoDoc /\ UNCHANGED <<result, command>>
    BY <1>6 DEF AskResolve
  <2>2. \A w \in Workers : OnIt(w, i)' => OnIt(w, i) \/ k = i
    BY <1>6 DEF AskResolve, OnIt, Resolution
  <2> QED
    BY <2>1, <2>2 DEF Present
<1>7. ASSUME NEW w \in Workers, WriteDecision(w) PROVE import[i] # NoDoc
  <2>1. work[w] # Idle /\ UNCHANGED command
    BY <1>7 DEF WriteDecision, Idle
  <2>2. \A v \in Workers : OnIt(v, i)' => OnIt(v, i)
    BY <1>7, <2>1, DecisionStep DEF OnIt
  <2>3. result'[i] = result[i] \/ work[w].key = i
    BY <1>7, DecisionStep, <1>0
  <2> QED
    BY <2>1, <2>2, <2>3 DEF Present, OnIt
<1>8. ASSUME NEW w \in Workers, WriteImport(w) PROVE import[i] # NoDoc
  <2>1. work[w] # Idle /\ UNCHANGED <<command, result>>
    BY <1>8 DEF WriteImport, Idle
  <2>2. \A v \in Workers : OnIt(v, i)' => OnIt(v, i)
    BY <1>8, <2>1, ImportStep DEF OnIt
  <2> QED
    BY <2>1, <2>2 DEF Present
<1>9. ASSUME NEW w \in Workers, WriteDesc(w) \/ Die(w) PROVE import[i] # NoDoc
  <2>1. UNCHANGED result /\ (command' = Idle \/ UNCHANGED command)
    BY <1>9 DEF WriteDesc, Die
  <2>2. \A v \in Workers : OnIt(v, i)' => OnIt(v, i)
    BY <1>9 DEF OnIt, WriteDesc, Die
  <2> QED
    BY <2>1, <2>2 DEF Present
<1> QED
  BY <1>1, <1>2, <1>3, <1>4, <1>5, <1>6, <1>7, <1>8, <1>9
     DEF Next, vars, Discover, Import, Draft, Review

\* Computed results carry no decision, in every step.
LEMMA BatchFreshKept ==
  ASSUME TypeOK, BatchFresh, [Next]_vars
  PROVE  BatchFresh'
<1>1. CASE UNCHANGED command
  BY <1>1 DEF BatchFresh
<1>2. CASE StartReconcile
  <2>1. PICK ref \in [Imports -> Columns \cup {None}] : command'.batch = Batch(ref)
    BY <1>2 DEF StartReconcile
  <2>2. \A k \in Keys : Batch(ref)[k] # NoDoc => Batch(ref)[k].decision = None
    BY DEF Batch, Result
  <2> QED
    BY <2>1, <2>2 DEF BatchFresh
<1>3. CASE EndWriting \/ EndCommand \/ (\E k \in Keys : WriteResult(k) \/ Confirm(k))
             \/ (\E w \in Workers : Die(w) /\ command' = Idle)
  <2>1. CASE EndWriting \/ EndCommand
    BY <1>3, <2>1 DEF EndWriting, EndCommand, Idle, BatchFresh
  <2>2. ASSUME NEW k \in Keys, WriteResult(k) \/ Confirm(k)
        PROVE  command # Idle /\ command'.batch = command.batch
    <3>1. command # Idle /\ command' = [command EXCEPT !.left = @ \ {k}]
      <4>1. CASE WriteResult(k)
        BY <4>1 DEF WriteResult, Idle
      <4>2. CASE Confirm(k)
        BY <4>2 DEF Confirm, Idle
      <4> QED
        BY <2>2, <4>1, <4>2
    <3>2. command \in Commands
      BY <3>1 DEF TypeOK
    <3> QED
      BY <3>1, <3>2 DEF Commands
  <2>3. \A k \in Keys : WriteResult(k) \/ Confirm(k) => BatchFresh'
    BY <2>2 DEF BatchFresh
  <2> QED
    BY <1>3, <2>1, <2>3 DEF BatchFresh
<1> QED
  BY <1>1, <1>2, <1>3 DEF Next, vars, Discover, Import, Draft, Review, AskResolve, WriteDecision,
     WriteImport, WriteDesc, Die

\* The import comes first, in every step.
LEMMA ImportFirstKept ==
  ASSUME TypeOK, ImportFirst, [Next]_vars
  PROVE  ImportFirst'
<1> SUFFICES ASSUME NEW w \in Workers, work'[w].at = "desc"
             PROVE  /\ import'[work'[w].key] # NoDoc
                    /\ import'[work'[w].key].prov = "client-provided-reconciled"
  BY DEF ImportFirst
<1> USE DEF TypeOK
<1>1. CASE work'[w] = work[w]
  <2>1. work[w] \in Works /\ work[w].at = "desc"
    BY <1>1 DEF Idle
  <2>2. work[w].key \in Imports
    BY <2>1 DEF Works
  <2> QED
    BY <1>1, <2>1, <2>2, ReconciledKept DEF ImportFirst
<1>2. CASE WriteImport(w)
  <2>1. /\ import' = [import EXCEPT ![work[w].key] = Reconciled(work[w].imp)]
        /\ Reconciled(work[w].imp) \in ImportDocs /\ work[w].key \in Imports
        /\ work'[w] # Idle => work'[w].key = work[w].key
    BY <1>2, ImportStep
  <2>2. work'[w].key = work[w].key
    BY <2>1 DEF Idle
  <2> QED
    BY <2>1, <2>2, NoDocAssumption DEF Reconciled
<1>3. ASSUME NEW v \in Workers, WriteImport(v), v # w PROVE work'[w] = work[w]
  BY <1>3, ImportStep
<1>4. ASSUME NEW v \in Workers, WriteDecision(v) PROVE work'[w] = work[w]
  BY <1>4, DecisionStep DEF Idle
<1>5. ASSUME NEW v \in Workers, WriteDesc(v) \/ Die(v) PROVE work'[w] = work[w]
  <2>1. work'[v] = Idle /\ \A u \in Workers \ {v} : work'[u] = work[u]
    BY <1>5 DEF WriteDesc, Die
  <2> QED
    BY <2>1 DEF Idle
<1>6. ASSUME NEW k \in Keys, Confirm(k) \/ AskResolve(k) PROVE work'[w] = work[w]
  BY <1>6 DEF Confirm, AskResolve, Resolution
<1> QED
  BY <1>1, <1>2, <1>3, <1>4, <1>5, <1>6 DEF Next, vars, Discover, Import, Draft, Review,
     StartReconcile, EndWriting, EndCommand, WriteResult

\* Every decision has its effect or is owed, in every step.
LEMMA DoneIsKept ==
  ASSUME IInv, [Next]_vars
  PROVE  Done'
<1> USE DEF TypeOK
<1>0. TypeOK /\ Present /\ BatchFresh /\ ImportFirst /\ Done
  BY DEF IInv
<1> SUFFICES ASSUME NEW i \in Imports, result'[i] # NoDoc, result'[i].decision \in Sides,
                    i \notin halfway', \A w \in Workers : ~Owes(w, i)'
             PROVE  Effect(i)'
  BY DEF Done
<1>1. CASE UNCHANGED <<result, work, halfway>>
  BY <1>0, <1>1, DoneKept DEF Owes
<1>2. ASSUME NEW k \in Keys, WriteResult(k) PROVE Effect(i)'
  <2>1. command \in Commands /\ command # Idle /\ k \in command.left /\ command.batch[k] # NoDoc
    BY <1>0, <1>2 DEF WriteResult, Idle
  <2>2. command.batch[k] \in Results
    BY <2>1 DEF Commands
  <2>3. result' = [result EXCEPT ![k] = command.batch[k]]
    BY <1>0, <1>2, <2>2, ResultIsWritten DEF WriteResult
  <2>4. command.batch[k].decision = None
    BY <1>0, <2>1 DEF BatchFresh
  <2>5. None \notin Sides
    BY NoResultAssumption
  <2>6. k # i
    BY <2>3, <2>4, <2>5, <1>0 DEF Keys
  <2>7. result'[i] = result[i]
    BY <1>0, <2>3, <2>6 DEF Keys
  <2>8. UNCHANGED <<work, halfway>>
    BY <1>2 DEF WriteResult
  <2> QED
    BY <1>0, <2>7, <2>8, DoneKept DEF Owes
<1>3. ASSUME NEW k \in Keys, Confirm(k) \/ AskResolve(k) PROVE Effect(i)'
  <2>1. UNCHANGED <<result, halfway>>
    BY <1>3 DEF Confirm, AskResolve
  <2>2. \A w \in Workers : Owes(w, i) => Owes(w, i)'
    <3>1. PICK w \in Workers : work[w] = Idle /\ \A v \in Workers \ {w} : work'[v] = work[v]
      <4>1. CASE Confirm(k)
        <5>1. work["cli"] = Idle /\ "cli" \in Workers
          BY <4>1 DEF Confirm, Workers
        <5>2. \A v \in Workers \ {"cli"} : work'[v] = work[v]
          BY <1>0, <4>1 DEF Confirm
        <5> QED
          BY <5>1, <5>2
      <4>2. CASE AskResolve(k)
        <5>1. work["ui"] = Idle /\ "ui" \in Workers
          BY <4>2 DEF AskResolve, Workers
        <5>2. \A v \in Workers \ {"ui"} : work'[v] = work[v]
          BY <1>0, <4>2 DEF AskResolve
        <5> QED
          BY <5>1, <5>2
      <4> QED
        BY <1>3, <4>1, <4>2
    <3>2. ~Owes(w, i)
      BY <3>1 DEF Owes, Idle
    <3> QED
      BY <2>1, <3>1, <3>2 DEF Owes
  <2> QED
    BY <1>0, <2>1, <2>2, DoneKept
<1>4. ASSUME NEW w \in Workers, WriteDecision(w) PROVE Effect(i)'
  <2>1. UNCHANGED halfway /\ work[w].at = "result"
    BY <1>4 DEF WriteDecision
  <2>2. CASE work[w].key = i
    <3>1. PICK doc \in Results : doc.decision = work[w].side /\ result' = [result EXCEPT ![i] = doc]
      BY <1>0, <1>4, <2>2, DecisionStep
    <3>2. i \in Keys /\ result'[i].decision = work[w].side
      BY <3>1, <1>0 DEF Keys
    <3>3. work[w].side # "deferred"
      BY <3>2 DEF Sides
    <3>4. import[i] # NoDoc
      BY <1>0, <2>1, <2>2 DEF Present, OnIt, Idle
    <3>5. work'[w] # Idle
      BY <1>0, <1>4, <2>2, <3>3, <3>4, DecisionStep
    <3>6. work'[w].at = "import" /\ work'[w].key = i /\ work'[w].side = work[w].side
      BY <1>0, <1>4, <2>2, <3>5, DecisionStep
    <3> QED
      BY <3>2, <3>6 DEF Owes
  <2>3. CASE work[w].key # i
    <3>1. PICK doc \in Results : result' = [result EXCEPT ![work[w].key] = doc]
      BY <1>0, <1>4, DecisionStep
    <3>2. result'[i] = result[i]
      BY <2>3, <3>1, <1>0
    <3>3. \A v \in Workers \ {w} : work'[v] = work[v]
      BY <1>0, <1>4, DecisionStep
    <3>4. \A v \in Workers : Owes(v, i) => Owes(v, i)'
      BY <2>1, <3>2, <3>3 DEF Owes
    <3> QED
      BY <1>0, <2>1, <3>2, <3>4, DoneKept
  <2> QED
    BY <2>2, <2>3
<1>5. ASSUME NEW w \in Workers, WriteImport(w) PROVE Effect(i)'
  <2>1. /\ UNCHANGED <<result, desc>> /\ work[w].at = "import"
        /\ halfway' = IF Settles(w, ChosenText(w)) THEN halfway ELSE Completed(w)
    BY <1>5 DEF WriteImport
  <2>2. /\ work[w] \in Works /\ work[w].imp \in ImportDocs /\ Reconciled(work[w].imp) \in ImportDocs
        /\ import' = [import EXCEPT ![work[w].key] = Reconciled(work[w].imp)]
        /\ \A v \in Workers \ {w} : work'[v] = work[v]
    BY <1>0, <1>5, ImportStep
  <2>3. CASE Owes(w, i)
    <3>1. work[w].key = i /\ work[w].side = result'[i].decision
      BY <2>1, <2>3 DEF Owes
    <3>2. import'[i] # NoDoc /\ import'[i].prov = "client-provided-reconciled"
      BY <1>0, <2>2, <3>1, NoDocAssumption DEF Reconciled
    <3>3. ~Settles(w, ChosenText(w))
      <4>1. SUFFICES ASSUME Settles(w, ChosenText(w)) PROVE FALSE
        OBVIOUS
      <4>2. work'[w].at = "desc"
        BY <1>0, <1>5, <4>1 DEF WriteImport
      <4>3. work'[w].key = work[w].key /\ work'[w].side = work[w].side
        BY <1>0, <1>5, <4>2, ImportStep DEF Idle
      <4> QED
        BY <3>1, <4>2, <4>3 DEF Owes
    <3>4. ~(result'[i].decision = "doc" /\ Claim[i] # None)
      <4>1. SUFFICES ASSUME result'[i].decision = "doc", Claim[i] # None PROVE FALSE
        OBVIOUS
      <4>2. ChosenText(w) = work[w].imp.text
        BY <3>1, <4>1 DEF ChosenText
      <4>3. ChosenText(w) # None
        BY <2>2, <4>2, NothingAssumption DEF ImportDocs
      <4> QED
        BY <3>1, <3>3, <4>1, <4>3 DEF Settles
    <3> QED
      BY <3>2, <3>4 DEF Effect
  <2>4. CASE ~Owes(w, i)
    <3>1. i \notin halfway' => i \notin halfway
      BY <2>1, <2>4 DEF Completed, Owes
    <3>2. \A v \in Workers : Owes(v, i) => Owes(v, i)'
      BY <2>1, <2>2, <2>4 DEF Owes
    <3> QED
      BY <1>0, <2>1, <3>1, <3>2, DoneKept
  <2> QED
    BY <2>3, <2>4
<1>6. ASSUME NEW w \in Workers, WriteDesc(w) PROVE Effect(i)'
  <2> DEFINE k == work[w].key
             doc == [prov |-> "sme-authored", text |-> ChosenText(w)]
  <2>1. UNCHANGED <<result, import>> /\ work[w].at = "desc" /\ halfway' = Completed(w)
    BY <1>6 DEF WriteDesc
  <2>2. /\ work[w] \in Works /\ Claim[k] \in Targets /\ doc \in DescDocs
        /\ desc' = [desc EXCEPT ![Claim[k]] = doc]
        /\ \A v \in Workers \ {w} : work'[v] = work[v]
    BY <1>0, <1>6, DescStep
  <2>3. CASE Owes(w, i)
    <3>1. k = i
      BY <2>3 DEF Owes
    <3>2. import'[i] # NoDoc /\ import'[i].prov = "client-provided-reconciled"
      BY <1>0, <2>1, <3>1 DEF ImportFirst
    <3>3. desc'[Claim[i]] = doc
      BY <1>0, <2>2, <3>1
    <3>4. doc # NoDoc /\ doc.prov = "sme-authored"
      BY <2>2, NoDocAssumption
    <3> HIDE DEF doc
    <3> QED
      BY <3>2, <3>3, <3>4 DEF Effect
  <2>4. CASE ~Owes(w, i)
    <3>1. i \notin halfway' => i \notin halfway
      BY <2>1, <2>4 DEF Completed, Owes
    <3>2. \A v \in Workers : Owes(v, i) => Owes(v, i)'
      BY <2>1, <2>2, <2>4 DEF Owes
    <3> QED
      BY <1>0, <2>1, <3>1, <3>2, DoneKept
  <2> QED
    BY <2>3, <2>4
<1>7. ASSUME NEW w \in Workers, Die(w) PROVE Effect(i)'
  <2>1. /\ UNCHANGED result
        /\ \A v \in Workers \ {w} : work'[v] = work[v]
        /\ halfway' = IF work[w].at \in {"import", "desc"} THEN halfway \cup {work[w].key}
                      ELSE halfway
    BY <1>7 DEF Die
  <2>2. ~Owes(w, i)
    BY <2>1 DEF Owes
  <2>3. \A v \in Workers : Owes(v, i) => Owes(v, i)'
    BY <2>1, <2>2 DEF Owes
  <2> QED
    BY <1>0, <2>1, <2>3, DoneKept
<1> QED
  BY <1>1, <1>2, <1>3, <1>4, <1>5, <1>6, <1>7 DEF Next, vars, Discover, Import, Draft, Review,
     StartReconcile, EndWriting, EndCommand

\* The inductive invariant behind the theorems on imports, refusals and decisions.
THEOREM Inductive == Spec => []IInv
<1>1. Init => TypeOK /\ Present /\ BatchFresh /\ ImportFirst /\ Done
  BY DEF Init, TypeOK, Present, BatchFresh, ImportFirst, Done, OnIt, Idle, Keys
<1>2. TypeOK /\ TypeOK' /\ IInv /\ [Next]_vars => IInv'
  BY PresentKept, BatchFreshKept, ImportFirstKept, DoneIsKept DEF IInv
<1> QED
  BY <1>1, <1>2, TypeCorrect, PTL DEF Spec, IInv

\* A decision that stands has had its effect, unless its process is still at it
\* or has died half way.
THEOREM DecisionsCount == Spec => []DecisionTakesEffect
<1>1. IInv => DecisionTakesEffect
  <2> SUFFICES ASSUME IInv, NEW i \in Imports, result[i] # NoDoc, result[i].decision \in Sides,
                      i \notin halfway, \A w \in Workers : ~OnIt(w, i)
               PROVE  Effect(i)
    BY DEF DecisionTakesEffect, Effect
  <2>1. \A w \in Workers : ~Owes(w, i)
    BY DEF Owes, OnIt, Idle
  <2> QED
    BY <2>1 DEF IInv, Done
<1> QED
  BY <1>1, Inductive, PTL

-----------------------------------------------------------------------------
(* Imports, results and descriptions as artifacts of the bundle *)

\* The whole artifact is what a write puts in its register.
Filed(doc) == IF doc = NoDoc THEN NoDoc ELSE [prov |-> doc.prov, text |-> doc, created |-> 0]

\* The call sites: importers/normalize.py:70, unforced, and resolve.py:104, forced ...
ImportRegister ==
  INSTANCE ProvenanceRegister
    WITH Artifacts <- Imports, Texts <- ImportDocs, Stamps <- {0},
         Calls <- {[prov |-> "client-provided", force |-> FALSE],
                   [prov |-> "client-provided-reconciled", force |-> TRUE]},
         reg <- [a \in Imports |-> Filed(import[a])]

\* ... reconciliation/__init__.py:112, unforced, and resolve.py:76, forced ...
ResultRegister ==
  INSTANCE ProvenanceRegister
    WITH Artifacts <- Keys, Texts <- Results, Stamps <- {0},
         Calls <- [prov : {"discovered"}, force : BOOLEAN],
         reg <- [a \in Keys |-> Filed(result[a])]

\* ... and of those who write descriptions only reviewers and resolutions force.
DescCalls == [prov : {"ai-drafted", "ai-drafted-edited", "sme-authored"}, force : {FALSE}]
               \cup [prov : {"ai-drafted-edited", "sme-authored"}, force : {TRUE}]

DescRegister ==
  INSTANCE ProvenanceRegister
    WITH Artifacts <- Targets, Texts <- DescDocs, Stamps <- {0}, Calls <- DescCalls,
         reg <- [a \in Targets |-> Filed(desc[a])]

\* The transition rules, stated with the tables of Provenance.
Legal(old, doc, force) ==
  old # NoDoc => (PreservesSmeWork(old.prov) => force) /\ doc.prov \in AllowedNext[old.prov]

\* What a call of write_artifact leaves in a store that is a function is what a legal write leaves.
LEMMA WriteOrNothing ==
  ASSUME NEW A, NEW T, NoDoc \notin T, NEW f \in [A -> T \cup {NoDoc}], NEW a \in A, NEW doc \in T,
         NEW force, NEW g, g = [f EXCEPT ![a] = After(@, doc, force)], g # f
  PROVE  /\ Legal(f[a], doc, force)
         /\ [b \in A |-> Filed(g[b])] =
              [[b \in A |-> Filed(f[b])] EXCEPT ![a] = [prov |-> doc.prov, text |-> doc, created |-> 0]]
<1>1. After(f[a], doc, force) # f[a]
  OBVIOUS
<1>2. Outcome(f[a], doc.prov, force, f[a] = doc) = "write" /\ After(f[a], doc, force) = doc
  BY <1>1 DEF After
<1>3. Legal(f[a], doc, force)
  BY <1>2 DEF Outcome, Skips, TransitionAllowed, Legal
<1>4. g = [f EXCEPT ![a] = doc]
  BY <1>2
<1>5. Filed(doc) = [prov |-> doc.prov, text |-> doc, created |-> 0]
  BY DEF Filed
<1> QED
  BY <1>3, <1>4, <1>5

\* The registers have the transition rules of Provenance.
LEMMA RulesAgree ==
  ASSUME NEW old, NEW doc, NEW force, Legal(old, doc, force), doc # NoDoc
  PROVE  /\ ImportRegister!Admits(Filed(old), Filed(doc), force)
         /\ ResultRegister!Admits(Filed(old), Filed(doc), force)
         /\ DescRegister!Admits(Filed(old), Filed(doc), force)
<1>1. /\ ImportRegister!AllowedNext = AllowedNext
      /\ ResultRegister!AllowedNext = AllowedNext
      /\ DescRegister!AllowedNext = AllowedNext
  BY DEF ImportRegister!AllowedNext, ResultRegister!AllowedNext, DescRegister!AllowedNext, AllowedNext,
     ImportRegister!Provenances, ResultRegister!Provenances, DescRegister!Provenances, Provenances
<1>2. \A p : /\ ImportRegister!PreservesSmeWork(p) <=> PreservesSmeWork(p)
             /\ ResultRegister!PreservesSmeWork(p) <=> PreservesSmeWork(p)
             /\ DescRegister!PreservesSmeWork(p) <=> PreservesSmeWork(p)
  BY DEF ImportRegister!PreservesSmeWork, ResultRegister!PreservesSmeWork,
     DescRegister!PreservesSmeWork, PreservesSmeWork, ImportRegister!SmeWork, ResultRegister!SmeWork,
     DescRegister!SmeWork, SmeWork
<1> QED
  BY <1>1, <1>2 DEF Legal, Filed, ImportRegister!Admits, ResultRegister!Admits, DescRegister!Admits

\* A step changes an import by an import or by a resolution ...
LEMMA ImportsWritten ==
  ASSUME TypeOK, [Next]_vars, import' # import
  PROVE  \E i \in Imports, doc \in ImportDocs, force \in BOOLEAN :
           /\ import' = [import EXCEPT ![i] = After(@, doc, force)]
           /\ force <=> doc.prov = "client-provided-reconciled"
<1>1. ASSUME NEW i \in Imports, Import(i)
      PROVE  \E doc \in ImportDocs, force \in BOOLEAN :
               /\ import' = [import EXCEPT ![i] = After(@, doc, force)]
               /\ force <=> doc.prov = "client-provided-reconciled"
  <2>1. PICK text \in Texts, type \in DocTypes :
          import' = [import EXCEPT ![i] =
                       After(@, [prov |-> "client-provided", text |-> text, type |-> type], FALSE)]
    BY <1>1 DEF Import
  <2> DEFINE doc == [prov |-> "client-provided", text |-> text, type |-> type]
  <2>2. doc \in ImportDocs /\ doc.prov # "client-provided-reconciled"
    BY DEF ImportDocs
  <2> QED
    BY <2>1, <2>2
<1>2. ASSUME NEW w \in Workers, WriteImport(w)
      PROVE  \E i \in Imports, doc \in ImportDocs, force \in BOOLEAN :
               /\ import' = [import EXCEPT ![i] = After(@, doc, force)]
               /\ force <=> doc.prov = "client-provided-reconciled"
  <2> DEFINE doc == Reconciled(work[w].imp)
  <2>1. doc \in ImportDocs /\ work[w].key \in Imports
    BY <1>2, ImportStep
  <2>2. import' = [import EXCEPT ![work[w].key] = After(@, doc, TRUE)]
    BY <1>2 DEF WriteImport
  <2>3. doc.prov = "client-provided-reconciled"
    BY DEF Reconciled
  <2> QED
    BY <2>1, <2>2, <2>3
<1> QED
  BY <1>1, <1>2 DEF Next, vars, Discover, Draft, Review, StartReconcile, EndWriting, EndCommand,
     WriteResult, Confirm, AskResolve, WriteDecision, WriteDesc, Die

\* ... a result by the command or by a resolution ...
LEMMA ResultsWritten ==
  ASSUME TypeOK, [Next]_vars, result' # result
  PROVE  \E k \in Keys, doc \in Results, force \in BOOLEAN :
           result' = [result EXCEPT ![k] = After(@, doc, force)]
<1>1. ASSUME NEW k \in Keys, WriteResult(k)
      PROVE  \E doc \in Results : result' = [result EXCEPT ![k] = After(@, doc, FALSE)]
  <2>1. command \in Commands /\ command.batch[k] # NoDoc
    BY <1>1 DEF WriteResult, TypeOK, Idle
  <2>2. command.batch[k] \in Results
    BY <2>1 DEF Commands
  <2> QED
    BY <1>1, <2>2 DEF WriteResult
<1>2. ASSUME NEW w \in Workers, WriteDecision(w)
      PROVE  \E k \in Keys, doc \in Results :
               result' = [result EXCEPT ![k] = After(@, doc, TRUE)]
  <2> DEFINE doc == [prov |-> "discovered", decision |-> work[w].side,
                     bucket |-> work[w].res.bucket, ref |-> work[w].res.ref]
  <2>1. work[w] \in Works /\ work[w].at = "result"
    BY <1>2 DEF WriteDecision, TypeOK, Idle
  <2>2. doc \in Results /\ work[w].key \in Keys
    BY <2>1 DEF Works, Results
  <2>3. result' = [result EXCEPT ![work[w].key] = After(@, doc, TRUE)]
    BY <1>2 DEF WriteDecision
  <2> QED
    BY <2>2, <2>3
<1> QED
  BY <1>1, <1>2 DEF Next, vars, Discover, Import, Draft, Review, StartReconcile, EndWriting,
     EndCommand, Confirm, AskResolve, WriteImport, WriteDesc, Die

\* ... and a description by those who draft, review or resolve.
LEMMA DescsWritten ==
  ASSUME TypeOK, [Next]_vars, desc' # desc
  PROVE  \E t \in Targets, doc \in DescDocs, force \in BOOLEAN :
           /\ desc' = [desc EXCEPT ![t] = After(@, doc, force)]
           /\ force => doc.prov # "ai-drafted"
<1>1. ASSUME NEW t \in Targets, Draft(t)
      PROVE  \E doc \in DescDocs : desc' = [desc EXCEPT ![t] = After(@, doc, FALSE)]
  BY <1>1 DEF Draft
<1>2. ASSUME NEW t \in Targets, Review(t)
      PROVE  \E doc \in DescDocs : /\ desc' = [desc EXCEPT ![t] = After(@, doc, TRUE)]
                                   /\ doc.prov # "ai-drafted"
  BY <1>2 DEF Review, PreservesSmeWork, SmeWork
<1>3. ASSUME NEW w \in Workers, WriteDesc(w)
      PROVE  \E t \in Targets, doc \in DescDocs :
               /\ desc' = [desc EXCEPT ![t] = After(@, doc, TRUE)]
               /\ doc.prov # "ai-drafted"
  <2> DEFINE doc == [prov |-> "sme-authored", text |-> ChosenText(w)]
  <2>1. Claim[work[w].key] \in Targets /\ doc \in DescDocs
    BY <1>3, DescStep
  <2>2. desc' = [desc EXCEPT ![Claim[work[w].key]] = After(@, doc, TRUE)]
    BY <1>3 DEF WriteDesc
  <2> QED
    BY <2>1, <2>2
<1> QED
  BY <1>1, <1>2, <1>3 DEF Next, vars, Discover, Import, StartReconcile, EndWriting, EndCommand,
     WriteResult, Confirm, AskResolve, WriteDecision, WriteImport, Die

\* Imports, results and descriptions are registers: however imports, re-runs and resolutions
\* interleave or die, they change only by the writes their call sites may make, each legal for what
\* it replaces, and nothing that was written is lost.
THEOREM ReconciliationKeepsRegisters ==
  Spec => ImportRegister!Lossless /\ ResultRegister!Lossless /\ DescRegister!Lossless
<1>1. Init => ImportRegister!Init /\ ResultRegister!Init /\ DescRegister!Init
  BY DEF Init, ImportRegister!Init, ResultRegister!Init, DescRegister!Init, Filed
<1>2. TypeOK /\ [Next]_vars =>
        [\E a \in Imports : ImportRegister!Put(a)]_([a \in Imports |-> Filed(import[a])])
  <2> SUFFICES ASSUME TypeOK, [Next]_vars, import' # import
               PROVE  \E a \in Imports : ImportRegister!Put(a)
    OBVIOUS
  <2>1. PICK i \in Imports, doc \in ImportDocs, force \in BOOLEAN :
          /\ import' = [import EXCEPT ![i] = After(@, doc, force)]
          /\ force <=> doc.prov = "client-provided-reconciled"
    BY ImportsWritten
  <2>2. /\ Legal(import[i], doc, force)
        /\ [a \in Imports |-> Filed(import[a])]' =
             [[a \in Imports |-> Filed(import[a])] EXCEPT
                ![i] = [prov |-> doc.prov, text |-> doc, created |-> 0]]
    <3> DEFINE f == import
    <3> SUFFICES ASSUME NEW g, g = import'
                 PROVE  /\ Legal(f[i], doc, force)
                        /\ [a \in Imports |-> Filed(g[a])] =
                             [[a \in Imports |-> Filed(f[a])] EXCEPT
                                ![i] = [prov |-> doc.prov, text |-> doc, created |-> 0]]
      OBVIOUS
    <3>1. f \in [Imports -> ImportDocs \cup {NoDoc}] /\ NoDoc \notin ImportDocs
      BY NoDocAssumption DEF TypeOK
    <3>2. g = [f EXCEPT ![i] = After(@, doc, force)] /\ g # f
      BY <2>1
    <3> QED
      BY <3>1, <3>2, WriteOrNothing
  <2>3. ImportRegister!Admits(Filed(import[i]), Filed(doc), force) /\ doc # NoDoc
    BY <2>2, RulesAgree, NoDocAssumption
  <2>4. Filed(doc) = [prov |-> doc.prov, text |-> doc, created |-> 0]
    BY <2>3 DEF Filed
  <2>5. CASE doc.prov = "client-provided"
    <3>1. ImportRegister!Admits(Filed(import[i]), Filed(doc), FALSE)
      BY <2>1, <2>3, <2>5
    <3>2. ImportRegister!Put(i)
      BY <2>2, <2>4, <2>5, <3>1 DEF ImportRegister!Put
    <3> QED
      BY <3>2
  <2>6. CASE doc.prov = "client-provided-reconciled"
    <3>1. ImportRegister!Admits(Filed(import[i]), Filed(doc), TRUE)
      BY <2>1, <2>3, <2>6
    <3>2. ImportRegister!Put(i)
      BY <2>2, <2>4, <2>6, <3>1 DEF ImportRegister!Put
    <3> QED
      BY <3>2
  <2> QED
    BY <2>5, <2>6 DEF ImportDocs
<1>3. TypeOK /\ [Next]_vars =>
        [\E a \in Keys : ResultRegister!Put(a)]_([a \in Keys |-> Filed(result[a])])
  <2> SUFFICES ASSUME TypeOK, [Next]_vars, result' # result
               PROVE  \E a \in Keys : ResultRegister!Put(a)
    OBVIOUS
  <2>1. PICK k \in Keys, doc \in Results, force \in BOOLEAN :
          result' = [result EXCEPT ![k] = After(@, doc, force)]
    BY ResultsWritten
  <2>2. /\ Legal(result[k], doc, force)
        /\ [a \in Keys |-> Filed(result[a])]' =
             [[a \in Keys |-> Filed(result[a])] EXCEPT
                ![k] = [prov |-> doc.prov, text |-> doc, created |-> 0]]
    <3> DEFINE f == result
    <3> SUFFICES ASSUME NEW g, g = result'
                 PROVE  /\ Legal(f[k], doc, force)
                        /\ [a \in Keys |-> Filed(g[a])] =
                             [[a \in Keys |-> Filed(f[a])] EXCEPT
                                ![k] = [prov |-> doc.prov, text |-> doc, created |-> 0]]
      OBVIOUS
    <3>1. f \in [Keys -> Results \cup {NoDoc}] /\ NoDoc \notin Results
      BY NoResultAssumption DEF TypeOK
    <3>2. g = [f EXCEPT ![k] = After(@, doc, force)] /\ g # f
      BY <2>1
    <3> QED
      BY <3>1, <3>2, WriteOrNothing
  <2>3. ResultRegister!Admits(Filed(result[k]), Filed(doc), force) /\ doc # NoDoc
    BY <2>2, RulesAgree, NoResultAssumption
  <2>4. Filed(doc) = [prov |-> doc.prov, text |-> doc, created |-> 0]
    BY <2>3 DEF Filed
  <2> DEFINE call == [prov |-> doc.prov, force |-> force]
  <2>5. call \in [prov : {"discovered"}, force : BOOLEAN]
    BY DEF Results
  <2>6. ResultRegister!Put(k)
    BY <2>2, <2>3, <2>4, <2>5 DEF ResultRegister!Put
  <2> QED
    BY <2>6
<1>4. TypeOK /\ [Next]_vars =>
        [\E a \in Targets : DescRegister!Put(a)]_([a \in Targets |-> Filed(desc[a])])
  <2> SUFFICES ASSUME TypeOK, [Next]_vars, desc' # desc
               PROVE  \E a \in Targets : DescRegister!Put(a)
    OBVIOUS
  <2>1. PICK t \in Targets, doc \in DescDocs, force \in BOOLEAN :
          /\ desc' = [desc EXCEPT ![t] = After(@, doc, force)]
          /\ force => doc.prov # "ai-drafted"
    BY DescsWritten
  <2>2. /\ Legal(desc[t], doc, force)
        /\ [a \in Targets |-> Filed(desc[a])]' =
             [[a \in Targets |-> Filed(desc[a])] EXCEPT
                ![t] = [prov |-> doc.prov, text |-> doc, created |-> 0]]
    <3> DEFINE f == desc
    <3> SUFFICES ASSUME NEW g, g = desc'
                 PROVE  /\ Legal(f[t], doc, force)
                        /\ [a \in Targets |-> Filed(g[a])] =
                             [[a \in Targets |-> Filed(f[a])] EXCEPT
                                ![t] = [prov |-> doc.prov, text |-> doc, created |-> 0]]
      OBVIOUS
    <3>1. f \in [Targets -> DescDocs \cup {NoDoc}] /\ NoDoc \notin DescDocs
      BY NoDocAssumption DEF TypeOK
    <3>2. g = [f EXCEPT ![t] = After(@, doc, force)] /\ g # f
      BY <2>1
    <3> QED
      BY <3>1, <3>2, WriteOrNothing
  <2>3. DescRegister!Admits(Filed(desc[t]), Filed(doc), force) /\ doc # NoDoc
    BY <2>2, RulesAgree, NoDocAssumption
  <2>4. Filed(doc) = [prov |-> doc.prov, text |-> doc, created |-> 0]
    BY <2>3 DEF Filed
  <2>5. doc.prov \in {"ai-drafted", "ai-drafted-edited", "sme-authored"}
    BY DEF DescDocs
  <2>6. CASE ~force
    <3>1. DescRegister!Admits(Filed(desc[t]), Filed(doc), FALSE)
      BY <2>3, <2>6
    <3>2. [prov |-> doc.prov, force |-> FALSE] \in DescCalls
      BY <2>5 DEF DescCalls
    <3>3. DescRegister!Put(t)
      BY <2>2, <2>4, <3>1, <3>2 DEF DescRegister!Put
    <3> QED
      BY <3>3
  <2>7. CASE force
    <3>1. DescRegister!Admits(Filed(desc[t]), Filed(doc), TRUE)
      BY <2>3, <2>7
    <3>2. doc.prov \in {"ai-drafted-edited", "sme-authored"}
      BY <2>1, <2>5, <2>7
    <3>3. [prov |-> doc.prov, force |-> TRUE] \in DescCalls
      BY <3>2 DEF DescCalls
    <3>4. DescRegister!Put(t)
      BY <2>2, <2>4, <3>1, <3>3 DEF DescRegister!Put
    <3> QED
      BY <3>4
  <2> QED
    BY <2>6, <2>7
<1>5. Spec => ImportRegister!Lossless
  BY <1>1, <1>2, TypeCorrect, PTL DEF Spec, ImportRegister!Lossless
<1>6. Spec => ResultRegister!Lossless
  BY <1>1, <1>3, TypeCorrect, PTL DEF Spec, ResultRegister!Lossless
<1>7. Spec => DescRegister!Lossless
  BY <1>1, <1>4, TypeCorrect, PTL DEF Spec, DescRegister!Lossless
<1> QED
  BY <1>5, <1>6, <1>7
=============================================================================
