------------------------ MODULE RecommendationProofs ------------------------
(***************************************************************************)
(* Theorems about Recommendation, for every schema, every set of reviewed  *)
(* items and every choice of thresholds.                                   *)
(***************************************************************************)
EXTENDS Recommendation, FiniteSetTheorems, TLAPS

-----------------------------------------------------------------------------
(* Points, strategy and confidence *)

\* The points each strategy can score.
LEMMA PointsType ==
  ASSUME NEW sig
  PROVE  /\ Points(sig).knowledge_graph \in 0..9
         /\ Points(sig).vector \in 0..6
         /\ Points(sig).plain_schema \in 1..4
  BY DEF Points, If

\* There is a best strategy, and points and precedence leave no choice of it.
LEMMA TopIsBest ==
  ASSUME NEW points, \A a \in Strategies : points[a] \in Int
  PROVE  Top(points) \in Strategies /\ \A b \in Strategies : Beats(points, Top(points), b)
<1>1. \E a \in Strategies : \A b \in Strategies : Beats(points, a, b)
  BY DEF Strategies, Beats, Precedence
<1> QED
  BY <1>1 DEF Top

\* The margin is how far the best is ahead of every other.
LEMMA MarginLeads ==
  ASSUME NEW points, \A a \in Strategies : points[a] \in Int
  PROVE  /\ Margin(points) \in Int
         /\ \A b \in Strategies \ {Top(points)} : points[Top(points)] >= points[b] + Margin(points)
<1> DEFINE others == Strategies \ {Top(points)}
           second == CHOOSE b \in others : \A c \in others : points[c] <= points[b]
<1>1. Top(points) \in Strategies
  BY TopIsBest
<1>2. \E b \in others : \A c \in others : points[c] <= points[b]
  BY <1>1 DEF Strategies
<1>3. second \in others /\ \A c \in others : points[c] <= points[second]
  BY <1>2
<1>4. Margin(points) = points[Top(points)] - points[second]
  BY DEF Margin
<1> HIDE DEF second
<1> QED
  BY <1>1, <1>3, <1>4

\* Points are numbers, which can be compared.
LEMMA PointsAreNumbers ==
  ASSUME NEW sig
  PROVE  \A a \in Strategies : Points(sig)[a] \in Int
<1> DEFINE points == Points(sig)
<1>1. points["knowledge_graph"] \in Int /\ points["vector"] \in Int /\ points["plain_schema"] \in Int
  BY PointsType
<1> QED
  BY <1>1 DEF Strategies

\* The counts among the signals of a schema are numbers.
LEMMA SignalsType ==
  ASSUME NEW s \in Schemas
  PROVE  /\ Signals(s).junctions \in Nat
         /\ Signals(s).texts \in Nat
<1> DEFINE prose == {c \in DOMAIN s.columns : IsFreeText(s.columns[c])}
<1>1. IsFiniteSet(s.junctions) /\ IsFiniteSet(prose)
  BY SchemasAssumption, FS_Subset
<1>2. Cardinality(s.junctions) \in Nat /\ Cardinality(prose) \in Nat
  BY <1>1, FS_CardinalityType
<1> QED
  BY <1>2 DEF Signals

\* Coverage confirms no more items than there are.
LEMMA CoverageType == Coverage \in Coverages
<1> DEFINE C == {i \in Items : review[i] = "confirmed"}
           T == {i \in Items : review[i] # "absent"}
<1>1. C \subseteq T /\ T \subseteq Items
  OBVIOUS
<1>2. IsFiniteSet(T)
  BY <1>1, ItemsAssumption, FS_Subset
<1>3. IsFiniteSet(C) /\ Cardinality(C) <= Cardinality(T)
  BY <1>1, <1>2, FS_Subset
<1>4. Cardinality(C) \in Nat /\ Cardinality(T) \in Nat
  BY <1>2, <1>3, FS_CardinalityType
<1>5. Coverage = [confirmed |-> Cardinality(C), total |-> Cardinality(T)]
  BY DEF Coverage
<1> HIDE DEF C, T
<1> QED
  BY <1>3, <1>4, <1>5 DEF Coverages

\* The fields of the recommendation computed from the bundle.
LEMMA AdviceParts ==
  ASSUME schema \in Schemas
  PROVE  /\ Advice.prov = "discovered" /\ Advice.override = None
         /\ Advice.signals = Signals(schema) /\ Advice.coverage = Coverage
         /\ Advice.strategy = Top(Points(Signals(schema)))
         /\ Advice.confidence = Confidence(Margin(Points(Signals(schema))), Coverage)
         /\ Advice.warned = Below(Coverage, MinCoverage)
  BY DEF Advice

\* What is computed is a recommendation.
LEMMA AdviceType ==
  ASSUME schema \in Schemas
  PROVE  Advice \in Recs
<1>1. Top(Points(Signals(schema))) \in Strategies
  BY PointsAreNumbers, TopIsBest
<1>2. Confidence(Margin(Points(Signals(schema))), Coverage) \in Levels
  BY DEF Confidence, Base, Downgrade, Levels
<1>3. Below(Coverage, MinCoverage) \in BOOLEAN
  BY DEF Below
<1>4. Coverage \in Coverages
  BY CoverageType
<1> QED
  BY <1>1, <1>2, <1>3, <1>4 DEF Advice, Recs

-----------------------------------------------------------------------------
(* What a recommendation is worth *)

\* The confidence of a fresh recommendation is earned.
LEMMA AdviceIsEarned ==
  ASSUME schema \in Schemas
  PROVE  Earned(Advice)
<1> DEFINE points == Points(Signals(schema))
           cov == Coverage
           margin == Margin(points)
           enough == cov.total > 0 /\ cov.confirmed * MinCoverage[2] >= MinCoverage[1] * cov.total
           Ahead(n) == \A b \in Strategies \ {Top(points)} : points[Top(points)] >= points[b] + n
<1>1. \A a \in Strategies : points[a] \in Int
  BY PointsAreNumbers
<1>2. margin \in Int /\ Ahead(margin) /\ Top(points) \in Strategies
  BY <1>1, MarginLeads, TopIsBest
<1>3. ASSUME NEW n \in Int, margin >= n PROVE Ahead(n)
  BY <1>1, <1>2, <1>3
<1>4. Below(cov, MinCoverage) = ~enough
  <2>1. cov \in Coverages
    BY CoverageType
  <2>2. cov.total \in Nat /\ cov.confirmed \in Nat
    BY <2>1 DEF Coverages
  <2>3. MinCoverage[1] \in Int /\ MinCoverage[2] \in Nat
    BY ThresholdsAssumption
  <2>4. cov.confirmed * MinCoverage[2] \in Int /\ MinCoverage[1] * cov.total \in Int
    BY <2>2, <2>3
  <2> QED
    BY <2>2, <2>4 DEF Below
<1>5. Confidence(margin, cov) = "high" => enough /\ margin >= 3
  BY <1>4 DEF Confidence, Base, Downgrade
<1>6. Confidence(margin, cov) = "medium" => IF enough THEN margin = 2 ELSE margin >= 3
  BY <1>4 DEF Confidence, Base, Downgrade
<1>7. /\ Advice.signals = Signals(schema) /\ Advice.coverage = cov /\ Advice.strategy = Top(points)
      /\ Advice.confidence = Confidence(margin, cov) /\ Advice.warned = Below(cov, MinCoverage)
  BY AdviceParts
<1>8. /\ Confidence(margin, cov) = "high"   => enough /\ Ahead(3)
      /\ Confidence(margin, cov) = "medium" => IF enough THEN Ahead(2) ELSE Ahead(3)
  BY <1>2, <1>3, <1>5, <1>6
<1> HIDE DEF margin, cov
<1> QED
  BY <1>4, <1>7, <1>8 DEF Earned

\* Three points for the bonus and four for the junctions beat any text, and every
\* signal named by Follows is worth more than a plain schema can be then.
LEMMA AdviceFollows ==
  ASSUME schema \in Schemas
  PROVE  Follows(Advice)
<1> DEFINE sig == Signals(schema)
           points == Points(sig)
           top == Top(points)
<1>1. sig.junctions \in Nat /\ sig.texts \in Nat
  BY SignalsType
<1>2. top \in Strategies /\ \A b \in Strategies : Beats(points, top, b)
  BY PointsAreNumbers, TopIsBest
<1>3. /\ points["knowledge_graph"] \in 0..9 /\ points["vector"] \in 0..6
      /\ points["plain_schema"] \in 1..4
  BY PointsType
<1>4. Advice.signals = sig /\ Advice.strategy = top
  BY AdviceParts
<1>5. ASSUME sig.junctions >= 1, sig.junctions >= JunctionCount, sig.junctions >= JunctionRich
      PROVE  top = "knowledge_graph"
  <2>2. points["knowledge_graph"] >= 7
    BY <1>5 DEF Points, If
  <2>3. Beats(points, top, "knowledge_graph")
    BY <1>2 DEF Strategies
  <2> QED
    BY <1>2, <1>3, <2>2, <2>3 DEF Strategies, Beats
<1>6. ASSUME sig.junctions >= 1, sig.junctions >= JunctionCount PROVE top # "plain_schema"
  <2>1. sig.junctions >= 1 /\ sig.junctions # 0
    BY <1>1, <1>6
  <2>2. points["knowledge_graph"] >= 4
    BY <1>6, <2>1 DEF Points, If
  <2>3. points["plain_schema"] <= 2
    BY <2>1 DEF Points, If
  <2>4. Beats(points, top, "knowledge_graph")
    BY <1>2 DEF Strategies
  <2> QED
    BY <1>3, <2>2, <2>3, <2>4 DEF Beats
<1>7. ASSUME \/ sig.texts >= 1 /\ sig.texts >= TextFieldCount
             \/ sig.texts >= 1 /\ sig.length >= TextAvgLength * sig.texts
      PROVE  top # "plain_schema"
  <2>1. sig.texts >= 1 /\ sig.texts # 0
    BY <1>1, <1>7
  <2>2. points["vector"] >= 3
    BY <1>7, <2>1 DEF Points, If, LongText
  <2>3. points["plain_schema"] <= 2
    BY <2>1 DEF Points, If
  <2>4. Beats(points, top, "vector")
    BY <1>2 DEF Strategies
  <2> QED
    BY <1>3, <2>2, <2>3, <2>4 DEF Beats
<1> HIDE DEF sig, top
<1> QED
  BY <1>4, <1>5, <1>6, <1>7 DEF Follows

\* An override keeps what was recommended, and is signed.
LEMMA OverrideKeepsTheRest ==
  ASSUME NEW doc \in Recs, NEW choice \in Choices
  PROVE  LET new == Overridden(doc, choice) IN
         /\ new \in Recs
         /\ new.prov = "sme-authored" /\ new.override = choice
         /\ Earned(doc) => Earned(new)
         /\ Follows(doc) => Follows(new)
<1> DEFINE new == Overridden(doc, choice)
<1>1. /\ new.prov = "sme-authored" /\ new.override = choice
      /\ new.signals = doc.signals /\ new.coverage = doc.coverage /\ new.strategy = doc.strategy
      /\ new.confidence = doc.confidence /\ new.warned = doc.warned
  BY DEF Overridden
<1>2. new \in Recs
  BY ChoicesAssumption DEF Overridden, Recs
<1> HIDE DEF new
<1>3. Earned(doc) => Earned(new)
  BY <1>1 DEF Earned
<1>4. Follows(doc) => Follows(new)
  BY <1>1 DEF Follows
<1> QED
  BY <1>1, <1>2, <1>3, <1>4 DEF new

-----------------------------------------------------------------------------
(* The inductive invariant *)

\* What a recommendation on disk, and one about to be written, is worth.
Worthy(doc) ==
  /\ Earned(doc) /\ Follows(doc)
  /\ doc.override # None <=> doc.prov = "sme-authored"

\* A recompute carries no override, an override carries one.
Carries(p) ==
  work[p] # Idle =>
    /\ Worthy(work[p].doc)
    /\ work[p].op = "override" <=> work[p].doc.override # None

IInv ==
  /\ TypeOK
  /\ rec # NoDoc => Worthy(rec)
  /\ \A p \in Processes : Carries(p)

\* The readiness line has one of its readings.
LEMMA VerdictType == Verdict \in Verdicts
  BY DEF Verdict, Verdicts

\* What a recompute and an override have in hand when they have read the bundle.
LEMMA RecommendStarts ==
  ASSUME TypeOK, NEW p \in Processes, StartRecommend(p)
  PROVE  \E job \in [op : {"recommend"}, doc : Recs, verdict : Verdicts] :
           /\ work' = [work EXCEPT ![p] = job]
           /\ Worthy(job.doc) /\ job.doc.override = None
<1> DEFINE job == [op |-> "recommend", doc |-> Advice, verdict |-> Verdict]
<1>1. schema \in Schemas
  BY DEF TypeOK
<1>2. job \in [op : {"recommend"}, doc : Recs, verdict : Verdicts]
  BY <1>1, AdviceType, VerdictType
<1>3. Worthy(Advice) /\ Advice.override = None
  BY <1>1, AdviceIsEarned, AdviceFollows, AdviceParts DEF Worthy
<1>4. work' = [work EXCEPT ![p] = job]
  BY DEF StartRecommend
<1> QED
  BY <1>2, <1>3, <1>4

\* An override carries on the recommendation that it has read.
LEMMA OverrideStarts ==
  ASSUME IInv, NEW p \in Processes, StartOverride(p)
  PROVE  \E job \in [op : {"override"}, doc : Recs, verdict : Verdicts] :
           /\ work' = [work EXCEPT ![p] = job]
           /\ Worthy(job.doc) /\ job.doc.override # None
<1>1. rec \in Recs /\ Worthy(rec)
  BY DEF IInv, TypeOK, StartOverride
<1>2. PICK choice \in Choices :
        work' = [work EXCEPT ![p] = [op |-> "override", doc |-> Overridden(rec, choice),
                                     verdict |-> Verdict]]
  BY DEF StartOverride
<1> DEFINE new == Overridden(rec, choice)
<1>3. /\ new \in Recs /\ new.prov = "sme-authored" /\ new.override = choice
      /\ Earned(rec) => Earned(new)
      /\ Follows(rec) => Follows(new)
  BY <1>1, OverrideKeepsTheRest
<1>4. choice # None
  BY ChoicesAssumption, NoneAssumption
<1>5. Worthy(new) /\ new.override # None
  BY <1>1, <1>3, <1>4 DEF Worthy
<1> HIDE DEF new
<1>6. [op |-> "override", doc |-> new, verdict |-> Verdict]
        \in [op : {"override"}, doc : Recs, verdict : Verdicts]
  BY <1>3, VerdictType
<1> QED
  BY <1>2, <1>5, <1>6 DEF new

\* A write leaves the recommendation alone or puts the one in hand there, and
\* the process has nothing left to do.
LEMMA WriteStep ==
  ASSUME TypeOK, NEW p \in Processes, WriteAdvice(p) \/ WriteOverride(p)
  PROVE  /\ work[p] # Idle
         /\ work' = [work EXCEPT ![p] = Idle]
         /\ \/ rec' = rec /\ banner' = banner
            \/ rec' = work[p].doc /\ banner' = work[p].verdict
         /\ UNCHANGED <<schema, review, issues>>
<1>1. work[p] # Idle
  <2>1. work[p].op # "idle"
    BY DEF WriteAdvice, WriteOverride
  <2>2. Idle.op = "idle"
    BY DEF Idle
  <2> QED
    BY <2>1, <2>2
<1> QED
  BY <1>1 DEF WriteAdvice, WriteOverride

\* No step breaks the inductive invariant.
LEMMA Kept == IInv /\ [Next]_vars => IInv'
<1> SUFFICES ASSUME IInv, [Next]_vars PROVE IInv'
  OBVIOUS
<1>0. TypeOK
  BY DEF IInv
<1>1. ASSUME NEW p \in Processes, StartRecommend(p) \/ StartOverride(p) PROVE IInv'
  <2>1. PICK job \in [op : {"recommend", "override"}, doc : Recs, verdict : Verdicts] :
          /\ work' = [work EXCEPT ![p] = job]
          /\ Worthy(job.doc) /\ (job.op = "override" <=> job.doc.override # None)
    <3>1. CASE StartRecommend(p)
      BY <1>0, <3>1, RecommendStarts
    <3>2. CASE StartOverride(p)
      BY <3>2, OverrideStarts
    <3> QED
      BY <1>1, <3>1, <3>2
  <2>2. UNCHANGED <<schema, review, issues, rec, banner>>
    BY <1>1 DEF StartRecommend, StartOverride
  <2>3. TypeOK'
    BY <1>0, <2>1, <2>2 DEF TypeOK
  <2>4. (rec # NoDoc => Worthy(rec))'
    BY <2>2 DEF IInv, Worthy
  <2>5. ASSUME NEW q \in Processes PROVE Carries(q)'
    <3>1. CASE q = p
      BY <1>0, <2>1, <3>1 DEF Carries, Worthy, TypeOK
    <3>2. CASE q # p
      <4>1. work'[q] = work[q]
        BY <1>0, <2>1, <3>2 DEF TypeOK
      <4> QED
        BY <4>1 DEF IInv, Carries, Worthy
    <3> QED
      BY <3>1, <3>2
  <2> QED
    BY <2>3, <2>4, <2>5 DEF IInv
<1>2. ASSUME NEW p \in Processes, WriteAdvice(p) \/ WriteOverride(p) PROVE IInv'
  <2>1. /\ work[p] # Idle
        /\ work' = [work EXCEPT ![p] = Idle]
        /\ \/ rec' = rec /\ banner' = banner
           \/ rec' = work[p].doc /\ banner' = work[p].verdict
        /\ UNCHANGED <<schema, review, issues>>
    BY <1>0, <1>2, WriteStep
  <2>2. work[p].doc \in Recs /\ work[p].verdict \in Verdicts /\ Worthy(work[p].doc)
    BY <1>0, <2>1 DEF TypeOK, IInv, Carries
  <2>3. TypeOK'
    <3>1. rec' \in Recs \cup {NoDoc} /\ banner' \in Verdicts \cup {None}
      BY <1>0, <2>1, <2>2 DEF TypeOK
    <3>2. rec' # NoDoc => (rec'.override # None <=> rec'.prov = "sme-authored")
      BY <1>0, <2>1, <2>2 DEF TypeOK, Worthy
    <3>3. work' \in [Processes -> {Idle} \cup
                       [op : {"recommend", "override"}, doc : Recs, verdict : Verdicts]]
      BY <1>0, <2>1 DEF TypeOK
    <3> QED
      BY <1>0, <2>1, <3>1, <3>2, <3>3 DEF TypeOK
  <2>4. (rec # NoDoc => Worthy(rec))'
    <3>1. CASE rec' = rec
      BY <3>1 DEF IInv, Worthy
    <3>2. CASE rec' = work[p].doc
      BY <2>2, <3>2 DEF Worthy
    <3> QED
      BY <2>1, <3>1, <3>2
  <2>5. ASSUME NEW q \in Processes PROVE Carries(q)'
    <3>1. CASE q = p
      BY <1>0, <2>1, <3>1 DEF Carries, TypeOK
    <3>2. CASE q # p
      <4>1. work'[q] = work[q]
        BY <1>0, <2>1, <3>2 DEF TypeOK
      <4> QED
        BY <4>1 DEF IInv, Carries, Worthy
    <3> QED
      BY <3>1, <3>2
  <2> QED
    BY <2>3, <2>4, <2>5 DEF IInv
<1>3. ASSUME UNCHANGED <<rec, banner, work>>, TypeOK' PROVE IInv'
  BY <1>3 DEF IInv, Carries, Worthy
<1>4. CASE Restructure
  BY <1>0, <1>3, <1>4 DEF Restructure, TypeOK
<1>5. CASE Reassess
  <2>0. PICK n \in 0..MaxIssues :
          \E found \in [1..n -> [type : IssueTypes, severity : Severities]] :
            issues' = [f \in IssueFiles |-> IF f[2] \in 1..n /\ found[f[2]].type = f[1]
                                            THEN found[f[2]].severity ELSE issues[f]]
    BY <1>5 DEF Reassess
  <2>1. PICK found \in [1..n -> [type : IssueTypes, severity : Severities]] :
          issues' = [f \in IssueFiles |-> IF f[2] \in 1..n /\ found[f[2]].type = f[1]
                                          THEN found[f[2]].severity ELSE issues[f]]
    BY <2>0
  <2>2. issues' \in [IssueFiles -> Severities \cup {None}]
    BY <1>0, <2>1 DEF TypeOK
  <2> QED
    BY <1>0, <1>3, <1>5, <2>2 DEF Reassess, TypeOK
<1>6. ASSUME NEW i \in Items, Draft(i) \/ Confirm(i) PROVE IInv'
  BY <1>0, <1>3, <1>6 DEF Draft, Confirm, TypeOK
<1>7. CASE UNCHANGED vars
  BY <1>0, <1>3, <1>7 DEF vars, TypeOK
<1> QED
  BY <1>1, <1>2, <1>4, <1>5, <1>6, <1>7 DEF Next, Processes

-----------------------------------------------------------------------------
(* Theorems *)

\* The inductive invariant behind the theorems on confidence, structure and overrides.
THEOREM Inductive == Spec => []IInv
<1>1. Init => IInv
  BY DEF Init, IInv, TypeOK, Carries, Idle
<1> QED
  BY <1>1, Kept, PTL DEF Spec

\* The bundle, the recommendation and what is about to be written are well typed.
THEOREM TypeCorrect == Spec => []TypeOK
<1>1. IInv => TypeOK
  BY DEF IInv
<1> QED
  BY <1>1, Inductive, PTL

\* No confidence is recorded that the points and the review do not bear out.
THEOREM ConfidenceIsEarned == Spec => []ConfidenceEarned
<1>1. IInv => ConfidenceEarned
  BY DEF IInv, Worthy, ConfidenceEarned
<1> QED
  BY <1>1, Inductive, PTL

\* A schema whose junctions clear both bars is a graph domain, and a schema with a
\* specialized signal is not a plain one, at any thresholds.
THEOREM StructureIsFollowed == Spec => []StructureDecides
<1>1. IInv => StructureDecides
  BY DEF IInv, Worthy, StructureDecides
<1> QED
  BY <1>1, Inductive, PTL

\* An override is never lost to a recompute.
THEOREM OverridesStay == Spec => OverrideKept
<1> DEFINE Kind == \E p \in Overriders :
                     work[p].op = "override" /\ work'[p] = Idle /\ rec' = work[p].doc
                       /\ rec'.override # None
<1>1. IInv /\ [Next]_vars /\ rec # NoDoc /\ rec.override # None /\ rec' # rec => Kind
  <2> SUFFICES ASSUME IInv, [Next]_vars, rec # NoDoc, rec.override # None, rec' # rec PROVE Kind
    OBVIOUS
  <2>0. TypeOK
    BY DEF IInv
  <2>1. PreservesSmeWork(rec.prov)
    BY DEF IInv, Worthy, PreservesSmeWork, SmeWork
  <2>2. ASSUME NEW p \in Recommenders, WriteAdvice(p) PROVE FALSE
    BY <2>1, <2>2 DEF WriteAdvice, Outcome, Skips
  <2>3. ASSUME NEW p \in Overriders, WriteOverride(p) PROVE Kind
    <3>1. work[p].op = "override" /\ work[p] # Idle
      BY <2>3 DEF WriteOverride, Idle
    <3>2. work'[p] = Idle /\ rec' = work[p].doc
      BY <2>0, <2>3, WriteStep DEF WriteOverride, TypeOK, Processes
    <3>3. rec'.override # None
      BY <3>1, <3>2 DEF IInv, Carries, Processes
    <3> QED
      BY <3>1, <3>2, <3>3
  <2> QED
    BY <2>2, <2>3 DEF Next, vars, Restructure, Reassess, Draft, Confirm, StartRecommend, StartOverride
<1> QED
  BY <1>1, Inductive, PTL DEF Spec, OverrideKept

-----------------------------------------------------------------------------
(* The recommendation as an artifact of the bundle *)

\* The whole recommendation is what a write puts in the register.
Written(doc) == IF doc = NoDoc THEN NoDoc ELSE [prov |-> doc.prov, text |-> doc, created |-> 0]

\* The two call sites: `dla recommend` (recommender/engine.py:207), unforced, and an override
\* (recommender/override.py), forced.
AdviceRegister ==
  INSTANCE ProvenanceRegister
    WITH Artifacts <- {"recommendation"}, Texts <- Recs, Stamps <- {0},
         Calls <- {[prov |-> "discovered", force |-> FALSE], [prov |-> "sme-authored", force |-> TRUE]},
         reg <- [a \in {"recommendation"} |-> Written(rec)]

\* A call of write_artifact that writes makes a legal write of the register.
LEMMA WriteIsAdmitted ==
  ASSUME NEW doc \in Recs, NEW force, NEW same, Outcome(rec, doc.prov, force, same) = "write"
  PROVE  AdviceRegister!Admits(Written(rec), Written(doc), force)
<1>1. /\ rec # NoDoc => (PreservesSmeWork(rec.prov) => force)
      /\ rec # NoDoc => doc.prov \in AllowedNext[rec.prov]
  BY DEF Outcome, Skips, TransitionAllowed
<1>2. /\ AdviceRegister!AllowedNext = AllowedNext
      /\ AdviceRegister!PreservesSmeWork(Written(rec).prov) = PreservesSmeWork(Written(rec).prov)
  BY DEF AdviceRegister!AllowedNext, AllowedNext, AdviceRegister!Provenances, Provenances,
         AdviceRegister!PreservesSmeWork, PreservesSmeWork, AdviceRegister!SmeWork, SmeWork
<1>3. doc # NoDoc
  BY NoRecAssumption
<1> QED
  BY <1>1, <1>2, <1>3 DEF Written, AdviceRegister!Admits

\* The register's promise holds of the recommendation: computed and overridden by any number of
\* processes, it changes only by writes that are legal for what they replace, and is never lost.
THEOREM RecommendationIsARegister == Spec => AdviceRegister!Lossless
<1> DEFINE Reg == [a \in {"recommendation"} |-> Written(rec)]
<1>1. Init => AdviceRegister!Init
  BY DEF Init, AdviceRegister!Init, Written
<1>2. IInv /\ [Next]_vars =>
        [\E a \in {"recommendation"} : AdviceRegister!Put(a)]_Reg
  <2> SUFFICES ASSUME IInv, [Next]_vars, Reg' # Reg
               PROVE  AdviceRegister!Put("recommendation")
    OBVIOUS
  <2>0. TypeOK /\ rec' # rec
    BY DEF IInv, Written
  <2>1. ASSUME NEW doc \in Recs, NEW force \in BOOLEAN, NEW same,
               Outcome(rec, doc.prov, force, same) = "write", rec' = doc,
               force <=> doc.prov = "sme-authored"
        PROVE  AdviceRegister!Put("recommendation")
    <3>1. AdviceRegister!Admits(Written(rec), Written(doc), force)
      BY <2>1, WriteIsAdmitted
    <3>2. Written(doc) = [prov |-> doc.prov, text |-> doc, created |-> 0]
      BY <2>1, NoRecAssumption DEF Written
    <3>3. Reg' = [Reg EXCEPT !["recommendation"] = Written(doc)]
      BY <2>1
    <3>4. doc.prov \in {"discovered", "sme-authored"}
      BY DEF Recs
    <3>5. CASE doc.prov = "discovered"
      <4>1. AdviceRegister!Admits(Written(rec), Written(doc), FALSE)
        BY <2>1, <3>1, <3>5
      <4> QED
        BY <3>2, <3>3, <3>5, <4>1 DEF AdviceRegister!Put
    <3>6. CASE doc.prov = "sme-authored"
      <4>1. AdviceRegister!Admits(Written(rec), Written(doc), TRUE)
        BY <2>1, <3>1, <3>6
      <4> QED
        BY <3>2, <3>3, <3>6, <4>1 DEF AdviceRegister!Put
    <3> QED
      BY <3>4, <3>5, <3>6
  <2>2. ASSUME NEW p \in Recommenders, WriteAdvice(p) PROVE AdviceRegister!Put("recommendation")
    <3>1. work[p] # Idle /\ work[p].doc \in Recs
      BY <2>0, <2>2, WriteStep DEF TypeOK, Processes
    <3>2. work[p].op = "recommend" /\ work[p].doc.prov = "discovered"
      BY <2>2, <3>1 DEF WriteAdvice, IInv, Carries, Worthy, Processes, Recs
    <3>3. /\ Outcome(rec, work[p].doc.prov, FALSE, SameContent(rec, work[p].doc)) = "write"
          /\ rec' = work[p].doc
      BY <2>0, <2>2 DEF WriteAdvice
    <3> QED
      BY <2>1, <3>1, <3>2, <3>3 DEF Processes
  <2>3. ASSUME NEW p \in Overriders, WriteOverride(p) PROVE AdviceRegister!Put("recommendation")
    <3>1. work[p] # Idle /\ work[p].doc \in Recs
      BY <2>0, <2>3, WriteStep DEF TypeOK, Processes
    <3>2. work[p].op = "override" /\ work[p].doc.prov = "sme-authored"
      BY <2>3, <3>1 DEF WriteOverride, IInv, Carries, Worthy, Processes
    <3>3. Outcome(rec, work[p].doc.prov, TRUE, FALSE) = "write" /\ rec' = work[p].doc
      BY <2>0, <2>3 DEF WriteOverride
    <3> QED
      BY <2>1, <3>1, <3>2, <3>3 DEF Processes
  <2> QED
    BY <2>0, <2>2, <2>3 DEF Next, vars, Restructure, Reassess, Draft, Confirm, StartRecommend,
       StartOverride
<1> QED
  BY <1>1, <1>2, Inductive, PTL DEF Spec, AdviceRegister!Lossless
=============================================================================
