---------------------------- MODULE ManifestProofs ----------------------------
(***************************************************************************)
(* Proofs about Manifest for any tables, columns, KPIs, hierarchies, rules *)
(* and processes, and any number of commands and mishaps.                  *)
(***************************************************************************)
EXTENDS Manifest, FiniteSetTheorems, TLAPS

-----------------------------------------------------------------------------
(* Counts *)

\* The directories that are counted (bundle/layout.py).
LEMMA TypesAreListed ==
  /\ Len(Types) = 6 /\ DOMAIN Types = 1 .. 6
  /\ Types[1] = "table" /\ Types[2] = "column" /\ Types[3] = "description"
  /\ Types[4] = "kpi" /\ Types[5] = "hierarchy" /\ Types[6] = "term_mapping_rule"
BY DEF Types

\* Records of one type are as many as their ids at most.
LEMMA ByIdFinite ==
  ASSUME NEW X, NEW S, IsFiniteSet(S),
         \A a \in X : a.id \in S,
         \A a, b \in X : a.id = b.id => a = b
  PROVE  IsFiniteSet(X)
<1> DEFINE f == [a \in X |-> a.id]
<1>1. f \in Injection(X, S)
  BY DEF Injection, IsInjective
<1> HIDE DEF f
<1> QED
  BY <1>1, FS_Injection

\* A bundle has finitely many artifacts.
LEMMA ArtifactsFinite == IsFiniteSet(Artifacts)
<1>1. IsFiniteSet(Tables) /\ IsFiniteSet(Columns) /\ IsFiniteSet(Described)
  BY FiniteAssumption
<1>2. IsFiniteSet(Tables \cup Columns)
  BY <1>1, FS_Union
<1>3. IsFiniteSet(Schemas)
  <2>1. \A a \in Schemas : a.id \in Tables \cup Columns
    BY DEF Schemas, Schema
  <2>2. \A a, b \in Schemas : a.id = b.id => a = b
    BY DEF Schemas, Schema
  <2> QED
    BY <1>2, <2>1, <2>2, ByIdFinite
<1>4. IsFiniteSet({Description(x) : x \in Described})
  <2> DEFINE D == {Description(x) : x \in Described}
  <2>1. \A a \in D : a.id \in Described
    BY DEF Description
  <2>2. \A a, b \in D : a.id = b.id => a = b
    BY DEF Description
  <2> QED
    BY <1>1, <2>1, <2>2, ByIdFinite
<1>5. ASSUME NEW t, NEW S, IsFiniteSet(S) PROVE IsFiniteSet([type : {t}, id : S])
  <2> DEFINE R == [type : {t}, id : S]
  <2>1. \A a \in R : a.id \in S
    OBVIOUS
  <2>2. \A a, b \in R : a.id = b.id => a = b
    OBVIOUS
  <2> QED
    BY <1>5, <2>1, <2>2, ByIdFinite
<1>6. IsFiniteSet(Curated) /\ IsFiniteSet(RuleFiles)
  <2>1. IsFiniteSet(Kpis) /\ IsFiniteSet(Hierarchies) /\ IsFiniteSet(Rules)
    BY FiniteAssumption
  <2> QED
    BY <1>5, <2>1, FS_Union DEF Curated, RuleFiles
<1>7. IsFiniteSet(Schemas \cup Curated \cup RuleFiles)
  BY <1>3, <1>6, FS_Union
<1> QED
  BY <1>4, <1>7, FS_Union DEF Artifacts

\* A directory is counted to a natural number (count_artifacts_on_disk).
LEMMA CountIsNat ==
  ASSUME NEW d \in SUBSET Artifacts, NEW type
  PROVE  CountOn(d, type) \in Nat
<1> DEFINE X == {a \in d : a.type = type}
<1>1. X \in SUBSET Artifacts
  OBVIOUS
<1>2. IsFiniteSet(X)
  BY <1>1, ArtifactsFinite, FS_Subset
<1> QED
  BY <1>2, FS_CardinalityType DEF CountOn

-----------------------------------------------------------------------------
(* What processes are doing *)

\* The work of a process has the shape that its place gives it.
LEMMA WorkShapes ==
  ASSUME NEW w \in Works
  PROVE  /\ w.at \in {"idle", "build", "put", "page", "rule", "count"}
         /\ w.at = "idle" => w = Idle
         /\ w.at = "build" => w = Building
         /\ w.at = "put" => w.art \in Curated \cup RuleFiles /\ w.refs \in SUBSET (Tables \cup Columns)
         /\ w.at \in {"page", "rule"} => w.art \in Rules /\ w.removed \in BOOLEAN /\ w.alone \in BOOLEAN
         /\ w.at = "count" => w.counts \in Seq(Nat) /\ w.alone \in BOOLEAN
BY DEF Works, Idle, Building

\* Processes that are overlapped stay what they are, but for being alone.
LEMMA OverlappedFacts ==
  ASSUME NEW w \in Works
  PROVE  /\ Overlapped(w) \in Works
         /\ Overlapped(w) = w \/ (w.at \in {"count", "rule"} /\ Overlapped(w) = [w EXCEPT !.alone = FALSE])
         /\ Overlapped(w).at = w.at
         /\ w.at = "count" => Overlapped(w).counts = w.counts
         /\ w.at \in {"page", "rule"} => Overlapped(w).art = w.art /\ Overlapped(w).removed = w.removed
         /\ w.at = "put" => Overlapped(w) = w
         /\ w.at = "count" /\ Overlapped(w).alone => w.alone /\ disk' = disk /\ manifest' = manifest
         /\ w.at = "rule" /\ Overlapped(w).alone => w.alone /\ pages' = pages
<1>1. CASE w.at \in {"idle", "build", "put", "page"}
  BY <1>1 DEF Overlapped
<1>2. CASE w.at = "count"
  <2>1. w \in [at : {"count"}, counts : Seq(Nat), alone : BOOLEAN]
    BY <1>2 DEF Works, Idle, Building
  <2> QED
    BY <1>2, <2>1 DEF Overlapped, Works
<1>3. CASE w.at = "rule"
  <2>1. w \in [at : {"page", "rule"}, art : Rules, removed : BOOLEAN, alone : BOOLEAN]
    BY <1>3 DEF Works, Idle, Building
  <2> QED
    BY <1>3, <2>1 DEF Overlapped, Works
<1> QED
  BY <1>1, <1>2, <1>3, WorkShapes

\* What a step of one process does to the work of all.
LEMMA BecomesFacts ==
  ASSUME work \in [Procs -> Works], NEW p \in Procs, NEW w \in Works, Becomes(p, w)
  PROVE  /\ work' \in [Procs -> Works]
         /\ work'[p] = w
         /\ \A q \in Procs \ {p} : work'[q] = Overlapped(work[q])
BY OverlappedFacts DEF Becomes

\* Refresh goes on to count, or ends the command.
LEMMA RefreshFacts ==
  ASSUME NEW seeds \in BOOLEAN
  PROVE  /\ Refresh(seeds) \in Works
         /\ Refresh(seeds) = Idle \/ Refresh(seeds) = Counting
         /\ Counting.counts = <<>> /\ Len(Counting.counts) = 0 /\ Counting.at = "count"
         /\ Idle.at = "idle" /\ Idle \in Works
BY DEF Refresh, Counting, Idle, Works

\* The works a command can begin with, and those it goes on with.
LEMMA WorksMade ==
  /\ Idle \in Works /\ Building \in Works /\ Counting \in Works
  /\ \A a \in Curated \cup RuleFiles, rs \in SUBSET (Tables \cup Columns) : Putting(a, rs) \in Works
  /\ \A at \in {"page", "rule"}, r \in Rules, removed \in BOOLEAN, alone \in BOOLEAN :
       Deleting(at, r, removed, alone) \in Works
  /\ Idle.at = "idle" /\ Building.at = "build" /\ Counting.at = "count"
  /\ Counting.counts = <<>> /\ Counting.alone = TRUE
  /\ \A a, rs : /\ Putting(a, rs).at = "put" /\ Putting(a, rs).art = a
                /\ Putting(a, rs).refs = rs
  /\ \A at, r, removed, alone :
       /\ Deleting(at, r, removed, alone).at = at /\ Deleting(at, r, removed, alone).art = r
       /\ Deleting(at, r, removed, alone).removed = removed
       /\ Deleting(at, r, removed, alone).alone = alone
<1>1. Idle \in Works /\ Building \in Works
  BY DEF Works
<1>2. Counting \in Works
  BY DEF Works, Counting
<1>3. \A a \in Curated \cup RuleFiles, rs \in SUBSET (Tables \cup Columns) : Putting(a, rs) \in Works
  BY DEF Works, Putting
<1>4. \A at \in {"page", "rule"}, r \in Rules, removed \in BOOLEAN, alone \in BOOLEAN :
        Deleting(at, r, removed, alone) \in Works
  BY DEF Works, Deleting
<1> QED
  BY <1>1, <1>2, <1>3, <1>4 DEF Idle, Building, Counting, Putting, Deleting

-----------------------------------------------------------------------------
(* Type correctness *)

\* The work of every process has its type, and no count goes past the last
\* directory: the part of the type invariant that is not about one variable.
WorkTyped ==
  /\ work \in [Procs -> Works]
  /\ \A p \in Procs : work[p].at = "count" => Len(work[p].counts) <= Len(Types)

\* A step of a process that goes on with w keeps the work typed.
LEMMA BecomesTyped ==
  ASSUME WorkTyped, NEW p \in Procs, NEW w \in Works, Becomes(p, w),
         w.at = "count" => Len(w.counts) <= Len(Types)
  PROVE  WorkTyped'
<1>1. /\ work' \in [Procs -> Works]
      /\ work'[p] = w
      /\ \A q \in Procs \ {p} : work'[q] = Overlapped(work[q])
  BY BecomesFacts DEF WorkTyped
<1>2. \A q \in Procs \ {p} : /\ work'[q].at = work[q].at
                             /\ work[q].at = "count" => work'[q].counts = work[q].counts
  BY <1>1, OverlappedFacts DEF WorkTyped
<1>3. ASSUME NEW q \in Procs, work'[q].at = "count" PROVE Len(work'[q].counts) <= Len(Types)
  <2>1. CASE q = p
    BY <1>1, <1>3, <2>1
  <2>2. CASE q # p
    BY <1>2, <1>3, <2>2 DEF WorkTyped
  <2> QED
    BY <2>1, <2>2
<1>4. Types' = Types
  BY DEF Types
<1> QED
  BY <1>1, <1>3, <1>4 DEF WorkTyped

\* A refresh begins with nothing counted.
LEMMA RefreshTyped ==
  ASSUME NEW seeds \in BOOLEAN
  PROVE  /\ Refresh(seeds) \in Works
         /\ Refresh(seeds).at = "count" => Len(Refresh(seeds).counts) <= Len(Types)
<1>1. CASE Refresh(seeds) = Idle
  BY <1>1, WorksMade
<1>2. CASE Refresh(seeds) = Counting
  <2>1. Len(Counting.counts) = 0
    BY RefreshFacts
  <2> QED
    BY <1>2, <2>1, WorksMade, TypesAreListed
<1> QED
  BY <1>1, <1>2, RefreshFacts

\* So does the start of a command.
LEMMA StartsTyped ==
  ASSUME WorkTyped, NEW p \in Procs, NEW w \in Works, work' = [work EXCEPT ![p] = w],
         w.at # "count"
  PROVE  WorkTyped'
BY DEF WorkTyped, Types

\* Bundle, manifest and work are well typed, and no count goes past the last
\* directory.
THEOREM TypeCorrect == Spec => []TypeOK
<1>1. Init => TypeOK
  <2> SUFFICES ASSUME Init PROVE TypeOK
    OBVIOUS
  <2>1. work \in [Procs -> Works] /\ \A p \in Procs : work[p].at # "count"
    BY WorksMade DEF Init
  <2>2. refs \in [Curated -> SUBSET (Tables \cup Columns)]
    BY DEF Init
  <2>3. commands \in 0 .. MaxCommands /\ mishaps \in 0 .. MaxMishaps
    BY BoundsAssumption DEF Init
  <2> QED
    BY <2>1, <2>2, <2>3 DEF Init, TypeOK
<1>2. TypeOK /\ [Next]_vars => TypeOK'
  <2> SUFFICES ASSUME TypeOK, [Next]_vars PROVE TypeOK'
    OBVIOUS
  <2> USE BoundsAssumption
  <2>0. /\ WorkTyped
        /\ DOMAIN Types' = DOMAIN Types
        /\ \A a \in Buildable : a \in Artifacts
        /\ Curated \subseteq Artifacts /\ RuleFiles \subseteq Artifacts
    BY DEF TypeOK, WorkTyped, Types, Buildable, Schemas, Artifacts, Present
  <2>00. ASSUME WorkTyped', disk' \in SUBSET Artifacts, pages' \in SUBSET Rules,
                refs' \in [Curated -> SUBSET (Tables \cup Columns)],
                manifest' \in {NoFile} \cup [DOMAIN Types -> Nat],
                behind' \in BOOLEAN, lost' \in SUBSET Schemas, torn' \in SUBSET Rules,
                commands' \in 0 .. MaxCommands, mishaps' \in 0 .. MaxMishaps
         PROVE  TypeOK'
    BY <2>0, <2>00 DEF TypeOK, WorkTyped, Types
  <2>1. ASSUME NEW p \in Procs, NEW w \in Works, Starts(p, w), w.at # "count" PROVE TypeOK'
    <3>1. WorkTyped'
      BY <2>0, <2>1, StartsTyped DEF Starts
    <3> QED
      BY <2>1, <2>00, <3>1 DEF Starts, TypeOK
  <2>2. ASSUME NEW p \in Procs, StartBuild(p) PROVE TypeOK'
    BY <2>1, <2>2, WorksMade DEF StartBuild
  <2>3. ASSUME NEW p \in Procs, EndBuild(p) PROVE TypeOK'
    <3>1. WorkTyped'
      BY <2>0, <2>3, BecomesTyped, RefreshTyped DEF EndBuild
    <3> QED
      BY <2>3, <2>00, <3>1 DEF EndBuild, TypeOK
  <2>4. ASSUME NEW p \in Procs, Put(p) PROVE TypeOK'
    <3>1. WorkTyped'
      BY <2>0, <2>4, BecomesTyped, RefreshTyped DEF Put
    <3>2. work[p] \in Works
      BY DEF TypeOK
    <3>3. work[p].art \in Curated \cup RuleFiles /\ work[p].refs \in SUBSET (Tables \cup Columns)
      BY <2>4, <3>2, WorkShapes DEF Put
    <3>4. disk' \in SUBSET Artifacts
      BY <2>0, <2>4, <3>3 DEF Put, TypeOK
    <3>5. CASE work[p].art \in Curated
      <4>1. refs' \in [Curated -> SUBSET (Tables \cup Columns)] /\ UNCHANGED <<pages, torn>>
        BY <2>4, <3>3, <3>5 DEF Put, TypeOK
      <4> QED
        BY <2>4, <2>00, <3>1, <3>4, <4>1 DEF Put, TypeOK
    <3>6. CASE work[p].art \notin Curated
      <4>1. work[p].art.id \in Rules
        BY <3>3, <3>6 DEF RuleFiles
      <4>2. pages' \in SUBSET Rules /\ torn' \in SUBSET Rules /\ UNCHANGED refs
        BY <2>4, <3>6, <4>1 DEF Put, TypeOK
      <4> QED
        BY <2>4, <2>00, <3>1, <3>4, <4>2 DEF Put, TypeOK
    <3> QED
      BY <3>5, <3>6
  <2>5. ASSUME NEW p \in Procs, UnlinkPage(p) PROVE TypeOK'
    <3>1. work[p] \in Works
      BY DEF TypeOK
    <3>2. work[p].art \in Rules
      BY <2>5, <3>1, WorkShapes DEF UnlinkPage
    <3> DEFINE w == Deleting("rule", work[p].art, work[p].art \in pages, TRUE)
    <3>3. w \in Works /\ w.at = "rule"
      <4>1. w \in [at : {"page", "rule"}, art : Rules, removed : BOOLEAN, alone : BOOLEAN]
        BY <3>2 DEF Deleting
      <4> QED
        BY <4>1 DEF Deleting, Works
    <3>4. Becomes(p, w)
      BY <2>5 DEF UnlinkPage
    <3> HIDE DEF w
    <3>5. WorkTyped'
      BY <2>0, <3>3, <3>4, BecomesTyped
    <3> QED
      BY <2>5, <2>00, <3>5 DEF UnlinkPage, TypeOK
  <2>6. ASSUME NEW p \in Procs, UnlinkRule(p) PROVE TypeOK'
    <3>1. work[p] \in Works
      BY DEF TypeOK
    <3>2. work[p].art \in Rules
      BY <2>6, <3>1, WorkShapes DEF UnlinkRule
    <3>3. WorkTyped'
      <4>1. PICK w \in {Idle, Refresh(FALSE)} : Becomes(p, w)
        BY <2>6 DEF UnlinkRule
      <4> QED
        BY <2>0, <4>1, BecomesTyped, RefreshTyped, WorksMade
    <3>4. disk' \in SUBSET Artifacts
      BY <2>6 DEF UnlinkRule, Without, TypeOK
    <3>5. torn' \in SUBSET Rules /\ behind' \in BOOLEAN
      BY <2>6, <3>2 DEF UnlinkRule, TypeOK
    <3> QED
      BY <2>6, <2>00, <3>3, <3>4, <3>5 DEF UnlinkRule, TypeOK
  <2>7. ASSUME NEW p \in Procs, Count(p) PROVE TypeOK'
    <3> DEFINE counts == work[p].counts
               n == CountOn(disk, Types[Len(counts) + 1])
    <3>1. work[p] \in [at : {"count"}, counts : Seq(Nat), alone : BOOLEAN]
      BY <2>7 DEF Count, TypeOK, Works, Idle, Building
    <3>2. n \in Nat
      BY CountIsNat DEF TypeOK
    <3> HIDE DEF n
    <3>3. Append(counts, n) \in Seq(Nat) /\ Len(Append(counts, n)) = Len(counts) + 1
      BY <3>1, <3>2
    <3>4. work' = [work EXCEPT ![p].counts = Append(counts, n)]
      BY <2>7 DEF Count, n
    <3>5. work'[p] \in [at : {"count"}, counts : Seq(Nat), alone : BOOLEAN]
          /\ work'[p].counts = Append(counts, n)
      BY <3>1, <3>3, <3>4 DEF TypeOK
    <3>6. work' \in [Procs -> Works]
      BY <3>4, <3>5 DEF TypeOK, Works
    <3>7. Len(Append(counts, n)) <= Len(Types)
      BY <2>7, <3>1, <3>3, TypesAreListed DEF Count
    <3>8. WorkTyped'
      BY <3>4, <3>5, <3>6, <3>7 DEF WorkTyped, TypeOK, Types
    <3> QED
      BY <2>7, <2>00, <3>8 DEF Count, TypeOK
  <2>8. ASSUME NEW p \in Procs, Save(p) PROVE TypeOK'
    <3>1. work[p] \in Works
      BY DEF TypeOK
    <3>2. work[p].counts \in Seq(Nat) /\ work[p].alone \in BOOLEAN
      BY <2>8, <3>1, WorkShapes DEF Save
    <3>3. work[p].counts \in [DOMAIN Types -> Nat]
      <4>1. work[p].counts \in [1 .. Len(work[p].counts) -> Nat]
        BY <3>2
      <4> QED
        BY <2>8, <4>1, TypesAreListed DEF Save
    <3>4. WorkTyped'
      BY <2>0, <2>8, BecomesTyped, WorksMade DEF Save
    <3> QED
      BY <2>8, <2>00, <3>2, <3>3, <3>4 DEF Save, TypeOK
  <2>9. ASSUME NEW p \in Procs, Die(p) PROVE TypeOK'
    <3>1. WorkTyped'
      BY <2>0, <2>9, StartsTyped, WorksMade DEF Die
    <3> QED
      BY <2>9, <2>00, <3>1 DEF Die, TypeOK
  <2>10. ASSUME NEW p \in Procs, NEW a \in Artifacts, Build(p, a) PROVE TypeOK'
    <3>1. WorkTyped'
      BY <2>0, <2>10, BecomesTyped, WorksMade DEF Build
    <3> QED
      BY <2>10, <2>00, <3>1 DEF Build, TypeOK
  <2>11. ASSUME NEW p \in Procs, NEW a \in Artifacts, FailWrite(p, a) PROVE TypeOK'
    <3>1. PICK w \in {Idle, Building} : Becomes(p, w)
      BY <2>11 DEF FailWrite
    <3>2. WorkTyped'
      BY <2>0, <3>1, BecomesTyped, WorksMade
    <3> QED
      BY <2>11, <2>00, <3>2 DEF FailWrite, TypeOK
  <2>12. ASSUME NEW p \in Procs, NEW k \in Kpis, StartKpi(p, k) PROVE TypeOK'
    <3>1. PICK f \in KpiForms, skip \in BOOLEAN :
            Starts(p, Putting([type |-> "kpi", id |-> k],
                              f.tables \cup IF skip THEN {} ELSE DimensionRefs(f.dims, f.tables)))
      BY <2>12 DEF StartKpi
    <3> DEFINE a == [type |-> "kpi", id |-> k]
               rs == f.tables \cup IF skip THEN {} ELSE DimensionRefs(f.dims, f.tables)
    <3>2. a \in Curated
      BY DEF Curated
    <3>3. rs \in SUBSET (Tables \cup Columns)
      BY FormsAssumption DEF DimensionRefs, Candidates
    <3>4. Starts(p, Putting(a, rs))
      BY <3>1
    <3> HIDE DEF a, rs
    <3> QED
      BY <2>1, <3>2, <3>3, <3>4, WorksMade
  <2>13. ASSUME NEW p \in Procs, NEW h \in Hierarchies, StartHierarchy(p, h) PROVE TypeOK'
    <3>1. PICK levels \in HierarchyForms : Starts(p, Putting([type |-> "hierarchy", id |-> h], levels))
      BY <2>13 DEF StartHierarchy
    <3>2. [type |-> "hierarchy", id |-> h] \in Curated /\ levels \in SUBSET (Tables \cup Columns)
      BY FormsAssumption DEF Curated
    <3> QED
      BY <2>1, <3>1, <3>2, WorksMade
  <2>14. ASSUME NEW p \in Procs, NEW r \in Rules, StartRule(p, r) \/ StartDelete(p, r) PROVE TypeOK'
    <3>1. [type |-> "term_mapping_rule", id |-> r] \in RuleFiles
      BY DEF RuleFiles
    <3> QED
      BY <2>1, <2>14, <3>1, WorksMade DEF StartRule, StartDelete
  <2>15. ASSUME NEW p \in Procs, NEW x \in Described, SaveDescription(p, x) PROVE TypeOK'
    <3>1. WorkTyped'
      BY <2>0, <2>15, BecomesTyped, WorksMade DEF SaveDescription
    <3>2. Description(x) \in Artifacts
      BY DEF Artifacts
    <3> QED
      BY <2>15, <2>00, <3>1, <3>2 DEF SaveDescription, TypeOK
  <2>16. CASE UNCHANGED vars
    BY <2>16 DEF vars, TypeOK, Types
  <2>17. ASSUME NEW p \in Procs, Keep(p) PROVE TypeOK'
    <3>1. WorkTyped'
      BY <2>0, <2>17, BecomesTyped, RefreshTyped DEF Keep
    <3> QED
      BY <2>17, <2>00, <3>1 DEF Keep, TypeOK
  <2> QED
    BY <2>2, <2>3, <2>4, <2>5, <2>6, <2>7, <2>8, <2>9, <2>10, <2>11, <2>12, <2>13, <2>14,
       <2>15, <2>16, <2>17 DEF Next, Step
<1> QED
  BY <1>1, <1>2, PTL DEF Spec

-----------------------------------------------------------------------------
(* References *)

\* What is on disk, or went from there with a failed write.
Known(x) == Schema(x) \in disk \cup lost

\* What a KPI or a hierarchy refers to was discovered, also while a command is
\* still about to write the references that it has checked: the part about
\* commands makes the invariant inductive.
RefInv ==
  /\ \A a \in Curated : \A x \in refs[a] : Known(x)
  /\ \A p \in Procs : work[p].at = "put" => \A x \in work[p].refs : Known(x)

\* The artifacts of tables and columns are no KPIs, rules or descriptions.
LEMMA TypesApart ==
  /\ \A x : Schema(x).id = x /\ Schema(x).type \in {"table", "column"}
  /\ \A x : Description(x).type = "description"
  /\ \A a \in Curated : a.type \in {"kpi", "hierarchy"}
  /\ \A a \in RuleFiles : a.type = "term_mapping_rule" /\ a.id \in Rules
BY DEF Schema, Description, Curated, RuleFiles

\* What was discovered stays known: a failed write is all that takes it.
LEMMA KnownStays ==
  ASSUME TypeOK, [Next]_vars, NEW x \in Tables \cup Columns, Known(x)
  PROVE  Known(x)'
<1>0. Schema(x) \in Schemas /\ Schema(x)' = Schema(x)
  BY DEF Schemas, Schema
<1>1. ASSUME NEW p \in Procs, UnlinkRule(p) PROVE Known(x)'
  <2>1. Schema(x) # [type |-> "term_mapping_rule", id |-> work[p].art]
    BY TypesApart
  <2> QED
    BY <1>0, <1>1, <2>1 DEF UnlinkRule, Without, Known
<1>2. ASSUME NEW p \in Procs, NEW a \in Artifacts, FailWrite(p, a) PROVE Known(x)'
  BY <1>0, <1>2 DEF FailWrite, Known
<1>3. ASSUME NEW p \in Procs, NEW a \in Artifacts, Build(p, a) PROVE Known(x)'
  BY <1>0, <1>3 DEF Build, Known
<1>4. ASSUME disk' = disk \/ \E a : disk' = disk \cup {a}, lost' = lost PROVE Known(x)'
  BY <1>0, <1>4 DEF Known
<1>5. ASSUME NEW p \in Procs, Step(p) PROVE Known(x)'
  <2>1. ASSUME NEW w, Starts(p, w) PROVE disk' = disk /\ lost' = lost
    BY <2>1 DEF Starts
  <2>2. CASE StartBuild(p) \/ \E k \in Kpis : StartKpi(p, k)
    BY <1>4, <2>1, <2>2 DEF StartBuild, StartKpi
  <2>3. CASE \E h \in Hierarchies : StartHierarchy(p, h)
    BY <1>4, <2>1, <2>3 DEF StartHierarchy
  <2>4. CASE \E r \in Rules : StartRule(p, r) \/ StartDelete(p, r)
    BY <1>4, <2>1, <2>4 DEF StartRule, StartDelete
  <2>5. CASE EndBuild(p) \/ Keep(p) \/ UnlinkPage(p) \/ Count(p) \/ Save(p) \/ Die(p)
    BY <1>4, <2>5 DEF EndBuild, Keep, UnlinkPage, Count, Save, Die
  <2>6. CASE Put(p)
    BY <1>4, <2>6 DEF Put
  <2>7. CASE \E y \in Described : SaveDescription(p, y)
    BY <1>4, <2>7 DEF SaveDescription
  <2> QED
    BY <1>1, <1>2, <1>3, <1>5, <2>2, <2>3, <2>4, <2>5, <2>6, <2>7 DEF Step
<1>6. CASE UNCHANGED vars
  BY <1>4, <1>6 DEF vars
<1> QED
  BY <1>5, <1>6 DEF Next

\* A step that leaves the references alone and puts no new ones under way.
LEMMA RefsKept ==
  ASSUME TypeOK, RefInv, [Next]_vars, refs' = refs,
         \A q \in Procs : work'[q].at = "put" => work'[q] = work[q] \/ \A x \in work'[q].refs : Known(x)'
  PROVE  RefInv'
<1>1. \A a \in Curated : \A x \in refs[a] : Known(x)'
  BY KnownStays DEF RefInv, TypeOK
<1>2. ASSUME NEW q \in Procs, work'[q].at = "put" PROVE \A x \in work'[q].refs : Known(x)'
  <2>1. CASE work'[q] = work[q]
    <3>1. work[q] \in Works
      BY DEF TypeOK
    <3>2. work[q].refs \in SUBSET (Tables \cup Columns)
      BY <1>2, <2>1, <3>1, WorkShapes
    <3> QED
      BY <1>2, <2>1, <3>2, KnownStays DEF RefInv
  <2> QED
    BY <1>2, <2>1
<1>3. Curated' = Curated
  BY DEF Curated
<1> QED
  BY <1>1, <1>2, <1>3 DEF RefInv

\* In a step of p no other process begins to put.
LEMMA OthersPut ==
  ASSUME TypeOK, NEW p \in Procs, NEW w \in Works, w.at # "put", Becomes(p, w)
  PROVE  \A q \in Procs : work'[q].at = "put" => work'[q] = work[q]
<1>1. work \in [Procs -> Works]
  BY DEF TypeOK
<1>2. work'[p] = w /\ \A q \in Procs \ {p} : work'[q] = Overlapped(work[q])
  BY <1>1, BecomesFacts
<1>3. \A q \in Procs : /\ Overlapped(work[q]).at = work[q].at
                       /\ work[q].at = "put" => Overlapped(work[q]) = work[q]
  BY <1>1, OverlappedFacts
<1> QED
  BY <1>2, <1>3

\* The references of a KPI or a hierarchy stay known in every step.
LEMMA RefsStep == TypeOK /\ RefInv /\ [Next]_vars => RefInv'
<1> SUFFICES ASSUME TypeOK, RefInv, [Next]_vars PROVE RefInv'
  OBVIOUS
<1>1. ASSUME NEW p \in Procs, NEW w \in Works, Starts(p, w),
             w.at # "put" \/ \A x \in w.refs : x \in Tables \cup Columns /\ Known(x)
      PROVE  RefInv'
  <2>1. \A x \in Tables \cup Columns : Known(x) => Known(x)'
    BY KnownStays
  <2>2. refs' = refs /\ work' = [work EXCEPT ![p] = w]
    BY <1>1 DEF Starts
  <2>3. \A q \in Procs : work'[q] = work[q] \/ work'[q] = w
    BY <2>2 DEF TypeOK
  <2> QED
    BY <1>1, <2>1, <2>2, <2>3, RefsKept
<1>2. ASSUME NEW p \in Procs, NEW w \in {Idle, Building, Counting}, Becomes(p, w), refs' = refs
      PROVE  RefInv'
  BY <1>2, WorksMade, OthersPut, RefsKept
<1>3. ASSUME NEW p \in Procs, NEW k \in Kpis, StartKpi(p, k) PROVE RefInv'
  <2>1. PICK f \in KpiForms, skip \in BOOLEAN :
          /\ f.tables \subseteq Present
          /\ Starts(p, Putting([type |-> "kpi", id |-> k],
                               f.tables \cup IF skip THEN {} ELSE DimensionRefs(f.dims, f.tables)))
    BY <1>3 DEF StartKpi
  <2> DEFINE a == [type |-> "kpi", id |-> k]
             rs == f.tables \cup IF skip THEN {} ELSE DimensionRefs(f.dims, f.tables)
  <2>2. a \in Curated
    BY DEF Curated
  <2>3. \A x \in rs : x \in Present
    BY <2>1 DEF DimensionRefs, Candidates
  <2>4. \A x \in rs : x \in Tables \cup Columns /\ Known(x)
    BY <2>3 DEF Present, Known
  <2>5. Starts(p, Putting(a, rs))
    BY <2>1
  <2> HIDE DEF a, rs
  <2> QED
    BY <1>1, <2>2, <2>4, <2>5, WorksMade
<1>4. ASSUME NEW p \in Procs, NEW h \in Hierarchies, StartHierarchy(p, h) PROVE RefInv'
  <2>1. PICK levels \in HierarchyForms :
          levels \subseteq Present /\ Starts(p, Putting([type |-> "hierarchy", id |-> h], levels))
    BY <1>4 DEF StartHierarchy
  <2>2. [type |-> "hierarchy", id |-> h] \in Curated
    BY DEF Curated
  <2>3. \A x \in levels : x \in Tables \cup Columns /\ Known(x)
    BY <2>1 DEF Present, Known
  <2> QED
    BY <1>1, <2>1, <2>2, <2>3, WorksMade
<1>5. ASSUME NEW p \in Procs, NEW r \in Rules, StartRule(p, r) \/ StartDelete(p, r) PROVE RefInv'
  <2>1. [type |-> "term_mapping_rule", id |-> r] \in RuleFiles
    BY DEF RuleFiles
  <2>2. CASE StartRule(p, r)
    <3> DEFINE w == Putting([type |-> "term_mapping_rule", id |-> r], {})
    <3>1. w \in Works /\ w.refs = {}
      BY <2>1, WorksMade
    <3>2. Starts(p, w)
      BY <2>2 DEF StartRule
    <3> HIDE DEF w
    <3> QED
      BY <1>1, <3>1, <3>2
  <2>3. CASE StartDelete(p, r)
    <3> DEFINE w == Deleting("page", r, FALSE, TRUE)
    <3>1. w \in Works /\ w.at # "put"
      BY DEF Works, Deleting
    <3>2. Starts(p, w)
      BY <2>3 DEF StartDelete
    <3> HIDE DEF w
    <3> QED
      BY <1>1, <3>1, <3>2
  <2> QED
    BY <1>5, <2>2, <2>3
<1>6. ASSUME NEW p \in Procs, StartBuild(p) PROVE RefInv'
  BY <1>1, <1>6, WorksMade DEF StartBuild
<1>7. ASSUME NEW p \in Procs, EndBuild(p) \/ Keep(p) PROVE RefInv'
  BY <1>2, <1>7, RefreshFacts DEF EndBuild, Keep
<1>8. ASSUME NEW p \in Procs, Put(p) PROVE RefInv'
  <2>1. work[p] \in Works /\ work[p].at = "put"
    BY <1>8 DEF TypeOK, Put
  <2>2. work[p].art \in Curated \cup RuleFiles /\ work[p].refs \in SUBSET (Tables \cup Columns)
    BY <2>1, WorkShapes
  <2>3. PICK w \in {Idle, Counting} : Becomes(p, w)
    BY <1>8, RefreshFacts DEF Put
  <2>4. \A q \in Procs : work'[q].at = "put" => work'[q] = work[q]
    BY <2>3, OthersPut, WorksMade
  <2>5. CASE work[p].art \in Curated
    <3>1. refs' = [refs EXCEPT ![work[p].art] = work[p].refs]
      BY <1>8, <2>5 DEF Put
    <3>2. \A a \in Curated : refs'[a] = refs[a] \/ refs'[a] = work[p].refs
      BY <3>1 DEF TypeOK
    <3>3. \A a \in Curated : \A x \in refs'[a] : Known(x)'
      BY <2>1, <2>2, <3>2, KnownStays DEF RefInv, TypeOK
    <3>4. \A q \in Procs : work'[q].at = "put" => work[q].at = "put" /\ work'[q].refs = work[q].refs
      BY <2>4
    <3>5. ASSUME NEW q \in Procs, work[q].at = "put" PROVE \A x \in work[q].refs : Known(x)'
      <4>1. work[q] \in Works
        BY DEF TypeOK
      <4>2. work[q].refs \in SUBSET (Tables \cup Columns)
        BY <3>5, <4>1, WorkShapes
      <4> QED
        BY <3>5, <4>2, KnownStays DEF RefInv
    <3>6. Curated' = Curated
      BY DEF Curated
    <3> QED
      BY <3>3, <3>4, <3>5, <3>6 DEF RefInv
  <2>6. CASE work[p].art \notin Curated
    BY <1>8, <2>4, <2>6, RefsKept DEF Put
  <2> QED
    BY <2>5, <2>6
<1>9. ASSUME NEW p \in Procs, UnlinkPage(p) PROVE RefInv'
  <2>1. work[p] \in Works /\ work[p].art \in Rules
    BY <1>9, WorkShapes DEF UnlinkPage, TypeOK
  <2> DEFINE w == Deleting("rule", work[p].art, work[p].art \in pages, TRUE)
  <2>2. w \in [at : {"page", "rule"}, art : Rules, removed : BOOLEAN, alone : BOOLEAN]
    BY <2>1 DEF Deleting
  <2>3. w \in Works /\ w.at # "put"
    BY <2>2 DEF Works
  <2>4. Becomes(p, w) /\ refs' = refs
    BY <1>9 DEF UnlinkPage
  <2> HIDE DEF w
  <2> QED
    BY <2>3, <2>4, OthersPut, RefsKept
<1>10. ASSUME NEW p \in Procs, UnlinkRule(p) PROVE RefInv'
  BY <1>2, <1>10, RefreshFacts DEF UnlinkRule
<1>11. ASSUME NEW p \in Procs, Count(p) PROVE RefInv'
  <2>1. work[p] \in [at : {"count"}, counts : Seq(Nat), alone : BOOLEAN]
    BY <1>11 DEF Count, TypeOK, Works, Idle, Building
  <2>2. \A q \in Procs : q # p => work'[q] = work[q]
    BY <1>11 DEF Count, TypeOK
  <2>3. work'[p].at = "count"
    BY <1>11, <2>1 DEF Count, TypeOK
  <2> QED
    BY <1>11, <2>2, <2>3, RefsKept DEF Count
<1>12. ASSUME NEW p \in Procs, Save(p) PROVE RefInv'
  BY <1>2, <1>12 DEF Save
<1>13. ASSUME NEW p \in Procs, Die(p) PROVE RefInv'
  <2>1. \A q \in Procs : work'[q] = work[q] \/ work'[q] = Idle
    BY <1>13 DEF Die, TypeOK
  <2> QED
    BY <1>13, <2>1, WorksMade, RefsKept DEF Die
<1>14. ASSUME NEW p \in Procs, NEW a \in Artifacts, Build(p, a) PROVE RefInv'
  BY <1>2, <1>14 DEF Build
<1>15. ASSUME NEW p \in Procs, NEW a \in Artifacts, FailWrite(p, a) PROVE RefInv'
  BY <1>2, <1>15 DEF FailWrite
<1>16. ASSUME NEW p \in Procs, NEW x \in Described, SaveDescription(p, x) PROVE RefInv'
  BY <1>2, <1>16 DEF SaveDescription
<1>17. CASE UNCHANGED vars
  BY <1>17, RefsKept DEF vars
<1> QED
  BY <1>3, <1>4, <1>5, <1>6, <1>7, <1>8, <1>9, <1>10, <1>11, <1>12, <1>13, <1>14, <1>15,
     <1>16, <1>17 DEF Next, Step

\* `dla bundle validate` finds no dangling reference of a KPI or a hierarchy but
\* to a table or a column that was discovered and went with a failed write.
THEOREM NothingDangles == Spec => []NoPhantoms
<1>1. Init => RefInv
  BY WorksMade DEF Init, RefInv
<1>2. TypeOK /\ RefInv => NoPhantoms
  <2> SUFFICES ASSUME TypeOK, RefInv, NEW f \in Findings,
                      f.code \in {"kpi_missing_table", "kpi_missing_dimension_column",
                                  "hierarchy_missing_column"}
               PROVE  Schema(f.on) \in lost
    BY DEF NoPhantoms
  <2>1. f \in Phantoms
    BY DEF Findings, Unlisted, Mismatches, Undescribed
  <2>2. PICK a \in Curated \cap disk : \E x \in Missing(a) : f = Dangling(a, x)
    BY <2>1 DEF Phantoms
  <2>3. PICK x \in Missing(a) : f = Dangling(a, x)
    BY <2>2
  <2>4. f.on = x
    BY <2>3 DEF Dangling
  <2> QED
    BY <2>3, <2>4 DEF Missing, RefInv, Known
<1> QED
  BY <1>1, <1>2, RefsStep, TypeCorrect, PTL DEF Spec

-----------------------------------------------------------------------------
(* The two files of a rule *)

RuleFile(r) == [type |-> "term_mapping_rule", id |-> r]
Parting(r) == \E p \in Procs : work[p].at = "rule" /\ work[p].art = r

\* A rule whose deletion is between its two files is not whole yet, and its page
\* is gone as long as no save came between: without that, the second half of a
\* deletion could leave a page without a rule.
RuleInv ==
  /\ \A r \in Rules \ torn : Parting(r) \/ (r \in pages <=> RuleFile(r) \in disk)
  /\ \A p \in Procs : work[p].at = "rule" /\ work[p].alone => work[p].art \notin pages

\* A step that leaves the files of every rule alone, and ends no deletion
\* without telling, keeps the rules whole.
LEMMA RulesKept ==
  ASSUME RuleInv, pages' = pages, torn \subseteq torn',
         \A r \in Rules \ torn' : RuleFile(r) \in disk' <=> RuleFile(r) \in disk,
         \A q \in Procs : work'[q].at = "rule"
           => /\ work[q].at = "rule" /\ work'[q].art = work[q].art
              /\ work'[q].alone => work[q].alone,
         \A q \in Procs : work[q].at = "rule"
           => \/ work'[q].at = "rule" /\ work'[q].art = work[q].art
              \/ work[q].art \in torn'
  PROVE  RuleInv'
<1>1. \A r \in Rules \ torn' : Parting(r) => Parting(r)'
  BY DEF Parting
<1>2. \A r : RuleFile(r)' = RuleFile(r)
  BY DEF RuleFile
<1>3. \A r \in Rules \ torn' : Parting(r)' \/ (r \in pages' <=> RuleFile(r)' \in disk')
  BY <1>1, <1>2 DEF RuleInv
<1>4. \A p \in Procs : work'[p].at = "rule" /\ work'[p].alone => work'[p].art \notin pages'
  BY DEF RuleInv
<1> QED
  BY <1>3, <1>4 DEF RuleInv

\* What a step of p does to the deletions of others.
LEMMA OthersRule ==
  ASSUME TypeOK, NEW p \in Procs, NEW w \in Works, Becomes(p, w)
  PROVE  /\ work'[p] = w
         /\ \A q \in Procs \ {p} : /\ work'[q].at = work[q].at
                                   /\ work[q].at = "rule" =>
                                        /\ work'[q].art = work[q].art
                                        /\ work'[q].alone => work[q].alone /\ pages' = pages
<1>1. work \in [Procs -> Works]
  BY DEF TypeOK
<1>2. work'[p] = w /\ \A q \in Procs \ {p} : work'[q] = Overlapped(work[q])
  BY <1>1, BecomesFacts
<1> QED
  BY <1>1, <1>2, OverlappedFacts

\* Every step keeps the rules whole.
LEMMA RulesStep == TypeOK /\ RuleInv /\ [Next]_vars => RuleInv'
<1> SUFFICES ASSUME TypeOK, RuleInv, [Next]_vars PROVE RuleInv'
  OBVIOUS
<1>0. \A r : /\ RuleFile(r) \notin Schemas /\ RuleFile(r) \notin Curated
             /\ \A x : RuleFile(r) # Description(x)
             /\ \A s : RuleFile(r) = RuleFile(s) => r = s
  <2>1. \A r : RuleFile(r).type = "term_mapping_rule" /\ RuleFile(r).id = r
    BY DEF RuleFile
  <2> QED
    BY <2>1, TypesApart DEF Schemas
<1>1. ASSUME NEW p \in Procs, NEW w, work' = [work EXCEPT ![p] = w], w.at # "rule",
             work[p].at # "rule", pages' = pages, disk' = disk, torn' = torn
      PROVE  RuleInv'
  <2>1. work'[p] = w /\ \A q \in Procs \ {p} : work'[q] = work[q]
    BY <1>1 DEF TypeOK
  <2>2. \A q \in Procs : work'[q].at = "rule" => work'[q] = work[q]
    BY <1>1, <2>1
  <2>3. \A q \in Procs : work[q].at = "rule" => work'[q] = work[q]
    BY <1>1, <2>1
  <2> QED
    BY <1>1, <2>2, <2>3, RulesKept
<1>3. ASSUME NEW p \in Procs, NEW w \in Works, Becomes(p, w), w.at # "rule", work[p].at # "rule",
             pages' = pages, torn' = torn,
             \A r \in Rules : RuleFile(r) \in disk' <=> RuleFile(r) \in disk
      PROVE  RuleInv'
  BY <1>3, OthersRule, RulesKept
<1>4. ASSUME NEW p \in Procs,
             StartBuild(p) \/ (\E k \in Kpis : StartKpi(p, k)) \/ (\E h \in Hierarchies : StartHierarchy(p, h))
             \/ \E r \in Rules : StartRule(p, r) \/ StartDelete(p, r)
      PROVE  RuleInv'
  <2>1. ASSUME NEW w, Starts(p, w), w.at # "rule" PROVE RuleInv'
    BY <1>1, <2>1, WorksMade DEF Starts
  <2>2. CASE StartBuild(p)
    BY <2>1, <2>2, WorksMade DEF StartBuild
  <2>3. CASE \E k \in Kpis : StartKpi(p, k)
    BY <2>1, <2>3, WorksMade DEF StartKpi
  <2>4. CASE \E h \in Hierarchies : StartHierarchy(p, h)
    BY <2>1, <2>4, WorksMade DEF StartHierarchy
  <2>5. CASE \E r \in Rules : StartRule(p, r) \/ StartDelete(p, r)
    BY <2>1, <2>5, WorksMade DEF StartRule, StartDelete
  <2> QED
    BY <1>4, <2>2, <2>3, <2>4, <2>5
<1>5. ASSUME NEW p \in Procs, EndBuild(p) \/ Keep(p) PROVE RuleInv'
  BY <1>3, <1>5, RefreshFacts, WorksMade DEF EndBuild, Keep
<1>6. ASSUME NEW p \in Procs, Put(p) PROVE RuleInv'
  <2>1. work[p] \in Works /\ work[p].at = "put"
    BY <1>6 DEF TypeOK, Put
  <2>2. work[p].art \in Curated \cup RuleFiles
    BY <2>1, WorkShapes
  <2>3. PICK w \in {Idle, Counting} : Becomes(p, w)
    BY <1>6, RefreshFacts DEF Put
  <2>4. w \in Works /\ w.at # "rule"
    BY WorksMade
  <2>5. CASE work[p].art \in Curated
    <3>1. disk' = disk \cup {work[p].art} /\ pages' = pages /\ torn' = torn
      BY <1>6, <2>5 DEF Put
    <3>2. \A r \in Rules : RuleFile(r) # work[p].art
      BY <1>0, <2>5
    <3> QED
      BY <1>3, <2>1, <2>3, <2>4, <3>1, <3>2
  <2>6. CASE work[p].art \notin Curated
    <3>1. PICK r \in Rules : work[p].art = RuleFile(r)
      BY <2>2, <2>6 DEF RuleFiles, RuleFile
    <3>2. work[p].art.id = r
      BY <3>1 DEF RuleFile
    <3>3. pages' = pages \cup {r} /\ torn' = torn \ {r} /\ disk' = disk \cup {RuleFile(r)}
      BY <1>6, <2>6, <3>1, <3>2 DEF Put
    <3>4. /\ work'[p] = w
          /\ \A q \in Procs \ {p} : /\ work'[q].at = work[q].at
                                    /\ work[q].at = "rule" =>
                                         /\ work'[q].art = work[q].art
                                         /\ work'[q].alone => work[q].alone /\ pages' = pages
      BY <2>3, <2>4, OthersRule
    <3>5. \A s \in Rules \ torn' : Parting(s)' \/ (s \in pages' <=> RuleFile(s)' \in disk')
      <4> TAKE s \in Rules \ torn'
      <4>1. RuleFile(s)' = RuleFile(s)
        BY DEF RuleFile
      <4>2. CASE s = r
        BY <3>3, <4>1, <4>2
      <4>3. CASE s # r
        <5>1. RuleFile(s) \in disk' <=> RuleFile(s) \in disk
          BY <1>0, <3>3, <4>3
        <5>2. Parting(s) => Parting(s)'
          BY <2>1, <3>4 DEF Parting
        <5> QED
          BY <3>3, <4>1, <4>3, <5>1, <5>2 DEF RuleInv
      <4> QED
        BY <4>2, <4>3
    <3>6. \A q \in Procs : work'[q].at = "rule" /\ work'[q].alone => work'[q].art \notin pages'
      BY <2>4, <3>4 DEF RuleInv
    <3> QED
      BY <3>5, <3>6 DEF RuleInv
  <2> QED
    BY <2>5, <2>6
<1>7. ASSUME NEW p \in Procs, UnlinkPage(p) PROVE RuleInv'
  <2>1. work[p] \in Works /\ work[p].art \in Rules /\ work[p].at = "page"
    BY <1>7, WorkShapes DEF UnlinkPage, TypeOK
  <2> DEFINE r == work[p].art
             w == Deleting("rule", r, r \in pages, TRUE)
  <2>2. w \in [at : {"page", "rule"}, art : Rules, removed : BOOLEAN, alone : BOOLEAN]
    BY <2>1 DEF Deleting
  <2>3. w \in Works /\ w.at = "rule" /\ w.art = r
    BY <2>2 DEF Works, Deleting
  <2>4. Becomes(p, w) /\ pages' = pages \ {r} /\ disk' = disk /\ torn' = torn
    BY <1>7 DEF UnlinkPage
  <2> HIDE DEF w, r
  <2>5. /\ work'[p] = w
        /\ \A q \in Procs \ {p} : /\ work'[q].at = work[q].at
                                  /\ work[q].at = "rule" =>
                                       /\ work'[q].art = work[q].art
                                       /\ work'[q].alone => work[q].alone /\ pages' = pages
    BY <2>3, <2>4, OthersRule
  <2>6. \A s \in Rules \ torn' : Parting(s)' \/ (s \in pages' <=> RuleFile(s)' \in disk')
    <3> TAKE s \in Rules \ torn'
    <3>1. CASE s = r
      BY <2>3, <2>5, <3>1 DEF Parting
    <3>2. CASE s # r
      <4>1. Parting(s) => Parting(s)'
        BY <2>1, <2>5 DEF Parting
      <4>2. RuleFile(s)' = RuleFile(s)
        BY DEF RuleFile
      <4> QED
        BY <2>4, <3>2, <4>1, <4>2 DEF RuleInv
    <3> QED
      BY <3>1, <3>2
  <2>7. \A q \in Procs : work'[q].at = "rule" /\ work'[q].alone => work'[q].art \notin pages'
    BY <2>3, <2>4, <2>5 DEF RuleInv
  <2> QED
    BY <2>6, <2>7 DEF RuleInv
<1>8. ASSUME NEW p \in Procs, UnlinkRule(p) PROVE RuleInv'
  <2>1. work[p] \in Works /\ work[p].art \in Rules /\ work[p].at = "rule"
    BY <1>8, WorkShapes DEF UnlinkRule, TypeOK
  <2> DEFINE r == work[p].art
  <2>2. PICK w \in {Idle, Counting} : Becomes(p, w)
    BY <1>8, RefreshFacts DEF UnlinkRule
  <2>3. w \in Works /\ w.at # "rule"
    BY WorksMade
  <2>4. /\ disk' = disk \ {RuleFile(r)} /\ pages' = pages
        /\ torn' = IF work[p].alone THEN torn \ {r} ELSE torn \cup {r}
    BY <1>8 DEF UnlinkRule, Without, RuleFile
  <2>5. /\ work'[p] = w
        /\ \A q \in Procs \ {p} : /\ work'[q].at = work[q].at
                                  /\ work[q].at = "rule" =>
                                       /\ work'[q].art = work[q].art
                                       /\ work'[q].alone => work[q].alone /\ pages' = pages
    BY <2>2, <2>3, OthersRule
  <2>6. \A s \in Rules \ torn' : Parting(s)' \/ (s \in pages' <=> RuleFile(s)' \in disk')
    <3> TAKE s \in Rules \ torn'
    <3>1. RuleFile(s)' = RuleFile(s)
      BY DEF RuleFile
    <3>2. CASE s = r
      <4>1. work[p].alone
        BY <2>4, <3>2
      <4>2. r \notin pages
        BY <2>1, <4>1 DEF RuleInv
      <4> QED
        BY <2>4, <3>1, <3>2, <4>2
    <3>3. CASE s # r
      <4>1. Parting(s) => Parting(s)'
        BY <2>5, <3>3 DEF Parting
      <4>2. s \notin torn /\ (RuleFile(s) \in disk' <=> RuleFile(s) \in disk)
        BY <1>0, <2>4, <3>3
      <4> QED
        BY <2>4, <3>1, <4>1, <4>2 DEF RuleInv
    <3> QED
      BY <3>2, <3>3
  <2>7. \A q \in Procs : work'[q].at = "rule" /\ work'[q].alone => work'[q].art \notin pages'
    BY <2>3, <2>4, <2>5 DEF RuleInv
  <2> QED
    BY <2>6, <2>7 DEF RuleInv
<1>9. ASSUME NEW p \in Procs, Count(p) PROVE RuleInv'
  <2>1. work[p] \in [at : {"count"}, counts : Seq(Nat), alone : BOOLEAN]
    BY <1>9 DEF Count, TypeOK, Works, Idle, Building
  <2>2. \A q \in Procs : q # p => work'[q] = work[q]
    BY <1>9 DEF Count, TypeOK
  <2>3. work'[p].at = "count"
    BY <1>9, <2>1 DEF Count, TypeOK
  <2> QED
    BY <1>9, <2>1, <2>2, <2>3, RulesKept DEF Count
<1>10. ASSUME NEW p \in Procs, Save(p) PROVE RuleInv'
  BY <1>3, <1>10, WorksMade DEF Save
<1>11. ASSUME NEW p \in Procs, Die(p) PROVE RuleInv'
  <2>1. work'[p] = Idle /\ \A q \in Procs \ {p} : work'[q] = work[q]
    BY <1>11 DEF Die, TypeOK
  <2>2. work[p].at = "rule" => work[p].art \in Rules
    BY WorkShapes DEF TypeOK
  <2>3. work[p].at = "rule" => work[p].art \in torn'
    BY <1>11, <2>2 DEF Die
  <2>4. pages' = pages /\ disk' = disk /\ torn \subseteq torn'
    BY <1>11 DEF Die
  <2> QED
    BY <2>1, <2>3, <2>4, WorksMade, RulesKept
<1>12. ASSUME NEW p \in Procs, NEW a \in Artifacts, Build(p, a) PROVE RuleInv'
  <2>1. \A r \in Rules : RuleFile(r) # a
    BY <1>0, <1>12 DEF Build, Buildable, Schemas, Present
  <2> QED
    BY <1>3, <1>12, <2>1, WorksMade DEF Build
<1>13. ASSUME NEW p \in Procs, NEW a \in Artifacts, FailWrite(p, a) PROVE RuleInv'
  <2>1. PICK w \in {Idle, Building} : Becomes(p, w)
    BY <1>13 DEF FailWrite
  <2>2. w \in Works /\ w.at # "rule" /\ work[p].at # "rule"
    BY <1>13, WorksMade DEF FailWrite
  <2>3. \A r \in Rules \ torn' : RuleFile(r) \in disk' <=> RuleFile(r) \in disk
    BY <1>13 DEF FailWrite, RuleFile
  <2> QED
    BY <1>13, <2>1, <2>2, <2>3, OthersRule, RulesKept DEF FailWrite
<1>14. ASSUME NEW p \in Procs, NEW x \in Described, SaveDescription(p, x) PROVE RuleInv'
  BY <1>0, <1>3, <1>14, WorksMade DEF SaveDescription
<1>15. CASE UNCHANGED vars
  BY <1>15, RulesKept DEF vars
<1> QED
  BY <1>4, <1>5, <1>6, <1>7, <1>8, <1>9, <1>10, <1>11, <1>12, <1>13, <1>14, <1>15
     DEF Next, Step

\* A rule has both its files or neither when nobody is at work, unless a death, a
\* failed write or a save between the two halves of a deletion parted them.
THEOREM RulesStayWhole == Spec => []RulesWhole
<1>1. Init => RuleInv
  BY WorksMade DEF Init, RuleInv
<1>2. RuleInv => RulesWhole
  BY WorksMade DEF RuleInv, RulesWhole, Quiet, Parting, RuleFile
<1> QED
  BY <1>1, <1>2, RulesStep, TypeCorrect, PTL DEF Spec

-----------------------------------------------------------------------------
(* The counts of bundle.json *)

\* The manifest says what is on disk; there is none only where there is nothing.
Accurate ==
  IF manifest = NoFile THEN disk = {}
  ELSE \A i \in DOMAIN Types : manifest[i] = CountOn(disk, Types[i])

Refreshing == \E p \in Procs : work[p].at \in {"build", "count"}

Counted(p) ==
  \A i \in 1 .. Len(work[p].counts) : work[p].counts[i] = CountOn(disk, Types[i])

\* A refresh that is not behind is still to come or has come through, and what
\* a refresh has counted so far is right as long as nobody came between: without
\* the second part a save could write counts that were never true together.
CountInv ==
  /\ behind \/ Refreshing \/ Accurate
  /\ \A p \in Procs : work[p].at = "count" /\ work[p].alone => Counted(p)

\* What a step of p does to the counts of others.
LEMMA OthersCount ==
  ASSUME TypeOK, NEW p \in Procs, NEW w \in Works, Becomes(p, w)
  PROVE  /\ work'[p] = w
         /\ \A q \in Procs \ {p} : /\ work'[q].at = work[q].at
                                   /\ work[q].at = "count" /\ work'[q].alone
                                        => /\ work'[q].counts = work[q].counts
                                           /\ work[q].alone /\ disk' = disk
<1>1. work \in [Procs -> Works]
  BY DEF TypeOK
<1>2. work'[p] = w /\ \A q \in Procs \ {p} : work'[q] = Overlapped(work[q])
  BY <1>1, BecomesFacts
<1> QED
  BY <1>1, <1>2, OverlappedFacts

\* In a step of p what others have counted stays right.
LEMMA CountsKept ==
  ASSUME TypeOK, CountInv, NEW p \in Procs, NEW w \in Works, Becomes(p, w),
         w.at = "count" => w = Counting
  PROVE  \A q \in Procs : work'[q].at = "count" /\ work'[q].alone => Counted(q)'
<1>1. /\ work'[p] = w
      /\ \A q \in Procs \ {p} : /\ work'[q].at = work[q].at
                                /\ work[q].at = "count" /\ work'[q].alone
                                     => /\ work'[q].counts = work[q].counts
                                        /\ work[q].alone /\ disk' = disk
  BY OthersCount
<1> TAKE q \in Procs
<1>2. CASE q = p
  <2>1. work'[q].at = "count" => Len(work'[q].counts) = 0
    BY <1>1, <1>2, RefreshFacts
  <2> QED
    BY <2>1 DEF Counted
<1>3. CASE q # p
  BY <1>1, <1>3 DEF CountInv, Counted, Types
<1> QED
  BY <1>2, <1>3

\* A step of p after which p builds or counts.
LEMMA StillRefreshing ==
  ASSUME TypeOK, CountInv, NEW p \in Procs, NEW w \in {Building, Counting}, Becomes(p, w)
  PROVE  CountInv'
<1>1. w \in Works /\ w.at \in {"build", "count"} /\ (w.at = "count" => w = Counting)
  BY WorksMade
<1>2. work'[p] = w
  BY <1>1, OthersCount
<1>3. Refreshing'
  BY <1>1, <1>2 DEF Refreshing
<1> QED
  BY <1>1, <1>3, CountsKept DEF CountInv

\* A step that leaves artifacts and manifest alone, and the refreshes that are
\* under way.
LEMMA NothingCounted ==
  ASSUME CountInv, disk' = disk, manifest' = manifest, behind => behind',
         behind' \/ \A q \in Procs : work[q].at \in {"build", "count"} => work'[q].at = work[q].at,
         \A q \in Procs : work'[q].at = "count" /\ work'[q].alone => Counted(q)'
  PROVE  CountInv'
<1>1. behind' \/ (Refreshing => Refreshing')
  BY DEF Refreshing
<1>2. Accurate => Accurate'
  BY DEF Accurate, Types
<1> QED
  BY <1>1, <1>2 DEF CountInv

\* A step that sets the work of p alone, to something that is no refresh.
LEMMA SetWork ==
  ASSUME TypeOK, CountInv, NEW p \in Procs, NEW w, work' = [work EXCEPT ![p] = w],
         w.at # "count", disk' = disk, manifest' = manifest,
         behind' \/ work[p] = Idle, behind => behind'
  PROVE  CountInv'
<1>1. work'[p] = w /\ \A q \in Procs \ {p} : work'[q] = work[q]
  BY DEF TypeOK
<1>2. \A q \in Procs : work'[q].at = "count" => work'[q] = work[q]
  BY <1>1
<1>3. \A q \in Procs : work'[q].at = "count" /\ work'[q].alone => Counted(q)'
  BY <1>2 DEF CountInv, Counted, Types
<1>4. behind' \/ \A q \in Procs : work[q].at \in {"build", "count"} => work'[q].at = work[q].at
  BY <1>1, WorksMade
<1> QED
  BY <1>3, <1>4, NothingCounted

\* Every step keeps the counts: a refresh is behind, to come, or right.
LEMMA CountsStep == TypeOK /\ CountInv /\ [Next]_vars => CountInv'
<1> SUFFICES ASSUME TypeOK, CountInv, [Next]_vars PROVE CountInv'
  OBVIOUS
<1>1. ASSUME NEW p \in Procs,
             StartBuild(p) \/ (\E k \in Kpis : StartKpi(p, k)) \/ (\E h \in Hierarchies : StartHierarchy(p, h))
             \/ \E r \in Rules : StartRule(p, r) \/ StartDelete(p, r)
      PROVE  CountInv'
  <2>1. ASSUME NEW w, Starts(p, w), w.at # "count" PROVE CountInv'
    BY <2>1, SetWork DEF Starts
  <2>2. CASE StartBuild(p)
    BY <2>1, <2>2, WorksMade DEF StartBuild
  <2>3. CASE \E k \in Kpis : StartKpi(p, k)
    BY <2>1, <2>3, WorksMade DEF StartKpi
  <2>4. CASE \E h \in Hierarchies : StartHierarchy(p, h)
    BY <2>1, <2>4, WorksMade DEF StartHierarchy
  <2>5. CASE \E r \in Rules : StartRule(p, r) \/ StartDelete(p, r)
    BY <2>1, <2>5, WorksMade DEF StartRule, StartDelete
  <2> QED
    BY <1>1, <2>2, <2>3, <2>4, <2>5
<1>2. ASSUME NEW p \in Procs, EndBuild(p) \/ Keep(p) PROVE CountInv'
  BY <1>2, StillRefreshing DEF EndBuild, Keep, Refresh
<1>3. ASSUME NEW p \in Procs, Put(p) PROVE CountInv'
  BY <1>3, StillRefreshing DEF Put, Refresh
<1>4. ASSUME NEW p \in Procs, UnlinkPage(p) PROVE CountInv'
  <2>1. work[p] \in Works /\ work[p].art \in Rules /\ work[p].at = "page"
    BY <1>4, WorkShapes DEF UnlinkPage, TypeOK
  <2> DEFINE w == Deleting("rule", work[p].art, work[p].art \in pages, TRUE)
  <2>2. w \in [at : {"page", "rule"}, art : Rules, removed : BOOLEAN, alone : BOOLEAN]
    BY <2>1 DEF Deleting
  <2>3. w \in Works /\ w.at = "rule"
    BY <2>2 DEF Works, Deleting
  <2>4. Becomes(p, w) /\ UNCHANGED <<disk, manifest, behind>>
    BY <1>4 DEF UnlinkPage
  <2> HIDE DEF w
  <2>5. \A q \in Procs : work'[q].at = "count" /\ work'[q].alone => Counted(q)'
    BY <2>3, <2>4, CountsKept
  <2>6. \A q \in Procs : work[q].at \in {"build", "count"} => work'[q].at = work[q].at
    BY <2>1, <2>3, <2>4, OthersCount
  <2> QED
    BY <2>4, <2>5, <2>6, NothingCounted
<1>5. ASSUME NEW p \in Procs, UnlinkRule(p) PROVE CountInv'
  <2> DEFINE file == [type |-> "term_mapping_rule", id |-> work[p].art]
             removed == work[p].removed \/ file \in disk
  <2>1. /\ work[p].at = "rule" /\ disk' = disk \ {file} /\ manifest' = manifest
        /\ behind' = (behind \/ (removed /\ manifest = NoFile))
        /\ Becomes(p, IF removed THEN Refresh(FALSE) ELSE Idle)
    BY <1>5 DEF UnlinkRule, Without
  <2>2. CASE removed /\ manifest # NoFile
    BY <2>1, <2>2, StillRefreshing DEF Refresh
  <2>3. CASE ~removed \/ manifest = NoFile
    <3>1. Becomes(p, Idle)
      BY <2>1, <2>3 DEF Refresh
    <3>2. \A q \in Procs : work'[q].at = "count" /\ work'[q].alone => Counted(q)'
      BY <3>1, WorksMade, CountsKept
    <3>3. CASE removed
      BY <2>1, <2>3, <3>2, <3>3 DEF CountInv
    <3>4. CASE ~removed
      <4>1. disk' = disk /\ (behind => behind')
        BY <2>1, <3>4
      <4>2. \A q \in Procs : work[q].at \in {"build", "count"} => work'[q].at = work[q].at
        BY <2>1, <3>1, WorksMade, OthersCount
      <4> QED
        BY <2>1, <3>2, <4>1, <4>2, NothingCounted
    <3> QED
      BY <3>3, <3>4
  <2> QED
    BY <2>2, <2>3
<1>6. ASSUME NEW p \in Procs, Count(p) PROVE CountInv'
  <2> DEFINE counts == work[p].counts
             n == CountOn(disk, Types[Len(counts) + 1])
  <2>1. work[p] \in [at : {"count"}, counts : Seq(Nat), alone : BOOLEAN]
    BY <1>6 DEF Count, TypeOK, Works, Idle, Building
  <2>2. UNCHANGED <<disk, manifest, behind>> /\ work' = [work EXCEPT ![p].counts = Append(counts, n)]
    BY <1>6 DEF Count
  <2>3. n \in Nat
    BY CountIsNat DEF TypeOK
  <2>4. /\ Len(Append(counts, n)) = Len(counts) + 1
        /\ \A i \in 1 .. Len(counts) : Append(counts, n)[i] = counts[i]
        /\ Append(counts, n)[Len(counts) + 1] = n
    BY <2>1, <2>3
  <2>5. /\ work'[p].counts = Append(counts, n) /\ work'[p].at = "count" /\ work'[p].alone = work[p].alone
        /\ \A q \in Procs : q # p => work'[q] = work[q]
    BY <2>1, <2>2 DEF TypeOK
  <2>6. ASSUME NEW q \in Procs, work'[q].at = "count", work'[q].alone PROVE Counted(q)'
    <3>1. CASE q = p
      <4>1. \A i \in 1 .. Len(counts) : counts[i] = CountOn(disk, Types[i])
        BY <2>1, <2>5, <2>6, <3>1 DEF CountInv, Counted
      <4>2. Len(counts) \in Nat
        BY <2>1
      <4> SUFFICES ASSUME NEW i \in 1 .. Len(counts) + 1
                   PROVE  Append(counts, n)[i] = CountOn(disk, Types[i])
        BY <2>2, <2>4, <2>5, <3>1 DEF Counted, Types
      <4>3. CASE i \in 1 .. Len(counts)
        BY <2>4, <4>1, <4>3
      <4>4. CASE i = Len(counts) + 1
        BY <2>4, <4>4
      <4> QED
        BY <4>2, <4>3, <4>4
    <3>2. CASE q # p
      BY <2>2, <2>5, <2>6, <3>2 DEF CountInv, Counted, Types
    <3> QED
      BY <3>1, <3>2
  <2>7. \A q \in Procs : work[q].at \in {"build", "count"} => work'[q].at = work[q].at
    BY <2>1, <2>5
  <2> QED
    BY <2>2, <2>6, <2>7, NothingCounted
<1>7. ASSUME NEW p \in Procs, Save(p) PROVE CountInv'
  <2>1. work[p] \in Works /\ work[p].at = "count" /\ Len(work[p].counts) = Len(Types)
    BY <1>7 DEF Save, TypeOK
  <2>2. work[p].counts \in Seq(Nat) /\ work[p].alone \in BOOLEAN
    BY <2>1, WorkShapes
  <2>3. manifest' = work[p].counts /\ behind' = ~work[p].alone /\ disk' = disk /\ Becomes(p, Idle)
    BY <1>7 DEF Save
  <2>4. \A q \in Procs : work'[q].at = "count" /\ work'[q].alone => Counted(q)'
    BY <2>3, WorksMade, CountsKept
  <2>5. CASE work[p].alone
    <3>1. \A i \in 1 .. Len(Types) : work[p].counts[i] = CountOn(disk, Types[i])
      BY <2>1, <2>5 DEF CountInv, Counted
    <3>2. manifest' # NoFile
      BY <2>2, <2>3, NoFileAssumption
    <3>3. Accurate'
      BY <2>3, <3>1, <3>2, TypesAreListed DEF Accurate, Types
    <3> QED
      BY <2>4, <3>3 DEF CountInv
  <2>6. CASE ~work[p].alone
    BY <2>3, <2>4, <2>6 DEF CountInv
  <2> QED
    BY <2>5, <2>6
<1>8. ASSUME NEW p \in Procs, Die(p) PROVE CountInv'
  BY <1>8, WorksMade, SetWork DEF Die
<1>9. ASSUME NEW p \in Procs, NEW a \in Artifacts, Build(p, a) PROVE CountInv'
  BY <1>9, StillRefreshing DEF Build
<1>10. ASSUME NEW p \in Procs, NEW a \in Artifacts, FailWrite(p, a) PROVE CountInv'
  <2>1. CASE a.type = "description"
    BY <1>10, <2>1, StillRefreshing DEF FailWrite
  <2>2. CASE a.type # "description"
    <3>1. Becomes(p, Idle) /\ behind'
      BY <1>10, <2>2 DEF FailWrite
    <3> QED
      BY <3>1, WorksMade, CountsKept DEF CountInv
  <2> QED
    BY <2>1, <2>2
<1>11. ASSUME NEW p \in Procs, NEW x \in Described, SaveDescription(p, x) PROVE CountInv'
  <2>1. Becomes(p, Idle) /\ work[p] = Idle /\ manifest' = manifest
    BY <1>11 DEF SaveDescription
  <2>2. \A q \in Procs : work'[q].at = "count" /\ work'[q].alone => Counted(q)'
    BY <2>1, WorksMade, CountsKept
  <2>3. CASE Description(x) \in disk
    <3>1. disk' = disk /\ (behind => behind')
      BY <1>11, <2>3 DEF SaveDescription
    <3>2. \A q \in Procs : work[q].at \in {"build", "count"} => work'[q].at = work[q].at
      BY <2>1, WorksMade, OthersCount
    <3> QED
      BY <2>1, <2>2, <3>1, <3>2, NothingCounted
  <2>4. CASE Description(x) \notin disk
    BY <1>11, <2>2, <2>4 DEF SaveDescription, CountInv
  <2> QED
    BY <2>3, <2>4
<1>12. CASE UNCHANGED vars
  <2>1. \A q \in Procs : work'[q].at = "count" /\ work'[q].alone => Counted(q)'
    BY <1>12 DEF vars, CountInv, Counted, Types
  <2> QED
    BY <1>12, <2>1, NothingCounted DEF vars
<1> QED
  BY <1>1, <1>2, <1>3, <1>4, <1>5, <1>6, <1>7, <1>8, <1>9, <1>10, <1>11, <1>12 DEF Next, Step

\* When nobody is at work, `dla bundle validate` finds no count that is off,
\* unless the last refresh was cut short or overlapped, or is missing.
THEOREM CountsAreHonest == Spec => []CountsHonest
<1>1. Init => CountInv
  BY WorksMade DEF Init, CountInv, Accurate
<1>2. CountInv => CountsHonest
  <2> SUFFICES ASSUME CountInv, Quiet, ~behind, disk # {} \/ manifest # NoFile, NEW f \in Findings
               PROVE  f.code \notin {"missing_manifest", "manifest_count_mismatch"}
    BY DEF CountsHonest
  <2>1. Accurate
    BY WorksMade DEF CountInv, Refreshing, Quiet
  <2>2. manifest # NoFile /\ Mismatches = {} /\ Unlisted = {}
    BY <2>1 DEF Accurate, Mismatches, Unlisted
  <2>3. f \in Phantoms \/ f \in Undescribed
    BY <2>2 DEF Findings
  <2>4. CASE f \in Phantoms
    <3>1. PICK a \in Curated \cap disk : \E x \in Missing(a) : f = Dangling(a, x)
      BY <2>4 DEF Phantoms
    <3> QED
      BY <3>1 DEF Dangling
  <2>5. CASE f \in Undescribed
    BY <2>5 DEF Undescribed
  <2> QED
    BY <2>3, <2>4, <2>5
<1> QED
  BY <1>1, <1>2, CountsStep, TypeCorrect, PTL DEF Spec
=============================================================================
