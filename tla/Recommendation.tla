--------------------------- MODULE Recommendation ---------------------------
(***************************************************************************)
(* The strategy recommendation (recommender/): the signals that are read   *)
(* from the bundle, the points they earn each strategy, the confidence     *)
(* that review coverage allows, and the one artifact they end in, which    *)
(* `dla recommend` recomputes and an expert overrides, from the command    *)
(* line or in the review UI.  What a call reads of the bundle, before it   *)
(* writes, is read in one step; a call of write_artifact is one step.      *)
(***************************************************************************)
EXTENDS WriteRules, Integers, FiniteSets, Functions

CONSTANTS
  Schemas,         \* what discovery, profiling and pattern detection may leave
  Items,           \* artifacts that experts review
  IssueTypes,      \* kinds of readiness issues
  Severities,      \* severities they may have here
  MaxIssues,       \* bound on the issues of a readiness run
  Recommenders,    \* processes that run `dla recommend`
  Overriders,      \* processes that record an override
  Choices,         \* strategies an expert may choose
  TopN, TextFieldCount, TextAvgLength,           \* ThresholdsConfig
  JunctionCount, JunctionRich, RelDensity,       \* RelDensity: <<numerator, denominator>>
  MinCoverage,                                   \* <<numerator, denominator>>
  SmallSchema,     \* _SMALL_SCHEMA_TABLES
  None             \* no strategy, no count, no banner

Strategies == {"plain_schema", "vector", "knowledge_graph"}
Levels == {"low", "medium", "high"}
Verdicts == {"GREEN", "AMBER", "RED"}
Processes == Recommenders \cup Overriders

\* A schema: its tables, its columns with what their profiles say, its links
\* (the two tables of each relationship), its junction tables.
ASSUME SchemasAssumption ==
  \A s \in Schemas :
    /\ IsFiniteSet(s.tables) /\ IsFiniteSet(DOMAIN s.columns) /\ IsFiniteSet(DOMAIN s.links)
    /\ IsFiniteSet(s.junctions)
ASSUME ItemsAssumption == IsFiniteSet(Items)
ASSUME ChoicesAssumption == Choices \subseteq Strategies
ASSUME IssuesAssumption ==
  Severities \subseteq {"critical", "warning", "info"} /\ MaxIssues \in Nat
\* ThresholdsConfig takes any number, in any order.
ASSUME ThresholdsAssumption ==
  /\ {TextFieldCount, TextAvgLength, JunctionCount, JunctionRich} \subseteq Int
  /\ MinCoverage \in Int \X Nat /\ RelDensity \in Int \X Nat
ASSUME NoneAssumption == None \notin Strategies \cup Verdicts \cup Severities

VARIABLES
  schema,  \* the structure in the bundle
  review,  \* review[i]: the item is absent, open or confirmed
  issues,  \* issues[<<t, k>>]: the severity in the file of the k-th issue, of type t
  rec,     \* the recommendation's JSON, or NoDoc
  banner,  \* the readiness line of its markdown (the rest repeats the JSON)
  work     \* work[p]: the recommend or override that p is in

vars == <<schema, review, issues, rec, banner, work>>

-----------------------------------------------------------------------------
(* Bugs the operators that follow could have, each caught by a property below *)
FullWhenEmpty(cov, min) == cov.confirmed * min[2] < min[1] * cov.total
UnsignedOverride(doc, choice) == [doc EXCEPT !.override = choice]
NoFloor == [high |-> "medium", medium |-> "low", low |-> "none"]

(* extract_signals *)

\* A string column, not low-cardinality, whose samples read like prose; without
\* a profile there are no samples.
IsFreeText(col) ==
  /\ col.type = "string"
  /\ col.distinct # None => col.distinct > TopN
  /\ col.length >= 40

Connected(s) == UNION {s.links[l] : l \in DOMAIN s.links}

Signals(s) ==
  LET prose == {c \in DOMAIN s.columns : IsFreeText(s.columns[c])} IN
  [tables    |-> Cardinality(s.tables),
   links     |-> Cardinality(DOMAIN s.links),
   connected |-> Cardinality(Connected(s)),
   junctions |-> Cardinality(s.junctions),
   texts     |-> Cardinality(prose),
   length    |-> SumFunction([c \in prose |-> s.columns[c].length])]

\* compute_overall_coverage
Coverage ==
  [confirmed |-> Cardinality({i \in Items : review[i] = "confirmed"}),
   total     |-> Cardinality({i \in Items : review[i] # "absent"})]

\* Nothing reviewable is no coverage, not full coverage.
Below(cov, min) == cov.total = 0 \/ cov.confirmed * min[2] < min[1] * cov.total

-----------------------------------------------------------------------------
(* score_strategies *)

If(condition, points) == IF condition THEN points ELSE 0

\* Density counts over at least three connected tables.
Dense(sig) == sig.connected >= 3 /\ sig.links * RelDensity[2] >= RelDensity[1] * sig.connected

\* The average length of the free-text columns; zero if there are none.
LongText(sig) == sig.texts >= 1 /\ sig.length >= TextAvgLength * sig.texts

Points(sig) ==
  [knowledge_graph |-> If(sig.junctions >= JunctionCount, 3) + If(sig.junctions >= JunctionRich, 3)
                       + If(Dense(sig), 2) + If(sig.junctions >= 1, 1),
   vector          |-> If(sig.texts >= TextFieldCount, 3) + If(LongText(sig), 2)
                       + If(sig.texts >= 1, 1),
   plain_schema    |-> 1 + If(sig.texts = 0 /\ sig.junctions = 0 /\ ~Dense(sig), 2)
                       + If(sig.tables <= SmallSchema, 1)]

\* _PRECEDENCE: of two strategies with equal points, the simpler one.
Precedence == [plain_schema |-> 0, vector |-> 1, knowledge_graph |-> 2]

Beats(points, a, b) ==
  points[a] > points[b] \/ (points[a] = points[b] /\ Precedence[a] <= Precedence[b])

Top(points) == CHOOSE a \in Strategies : \A b \in Strategies : Beats(points, a, b)

\* How far the best is ahead of the second.
Margin(points) ==
  LET others == Strategies \ {Top(points)}
      second == CHOOSE b \in others : \A c \in others : points[c] <= points[b]
  IN  points[Top(points)] - points[second]

\* _confidence: from the margin, less when too little has been reviewed.
Base(margin) == IF margin >= 3 THEN "high" ELSE IF margin = 2 THEN "medium" ELSE "low"
Downgrade == [high |-> "medium", medium |-> "low", low |-> "low"]
Confidence(margin, cov) == IF Below(cov, MinCoverage) THEN Downgrade[Base(margin)] ELSE Base(margin)

\* What `dla recommend` makes of the bundle as it is.
Advice ==
  LET sig == Signals(schema)
      points == Points(sig)
  IN  [prov |-> "discovered", signals |-> sig, coverage |-> Coverage,
       strategy |-> Top(points), confidence |-> Confidence(Margin(points), Coverage),
       warned |-> Below(Coverage, MinCoverage), override |-> None]

\* _readiness_header
Verdict ==
  LET Has(severity) == \E f \in DOMAIN issues : issues[f] = severity IN
  IF Has("critical") THEN "RED"
  ELSE IF Has("warning") \/ Below(Coverage, <<1, 1>>) THEN "AMBER"
  ELSE "GREEN"

\* The JSON holds the fraction that is covered, not its terms.
SameCoverage(a, b) ==
  (a.total = 0 <=> b.total = 0) /\ a.confirmed * b.total = b.confirmed * a.total

SameContent(old, new) ==
  /\ old # NoDoc
  /\ [old EXCEPT !.coverage = new.coverage] = new
  /\ SameCoverage(old.coverage, new.coverage)

-----------------------------------------------------------------------------
IssueFiles == IssueTypes \X (1..MaxIssues)
Idle == [op |-> "idle"]

Init ==
  /\ schema \in Schemas
  /\ review = [i \in Items |-> "absent"]
  /\ issues = [f \in IssueFiles |-> None]
  /\ rec = NoDoc /\ banner = None
  /\ work = [p \in Processes |-> Idle]

\* Other commands.  Discovery, profiling and pattern detection rewrite what
\* they find and remove nothing.
Restructure ==
  /\ schema' \in Schemas
  /\ schema.tables \subseteq schema'.tables /\ schema.junctions \subseteq schema'.junctions
  /\ DOMAIN schema.links \subseteq DOMAIN schema'.links
  /\ DOMAIN schema.columns \subseteq DOMAIN schema'.columns
  /\ UNCHANGED <<review, issues, rec, banner, work>>

\* Something is drafted, imported or defined; something is authored or reviewed.
Draft(i) ==
  /\ review[i] = "absent"
  /\ review' = [review EXCEPT ![i] = "open"]
  /\ UNCHANGED <<schema, issues, rec, banner, work>>

Confirm(i) ==
  /\ review[i] # "confirmed"
  /\ review' = [review EXCEPT ![i] = "confirmed"]
  /\ UNCHANGED <<schema, issues, rec, banner, work>>

\* assemble: the issues found, the most severe first, are written under their
\* type and number; the files of other types and numbers stay.
Severe == [critical |-> 3, warning |-> 2, info |-> 1]

Reassess ==
  /\ \E n \in 0..MaxIssues : \E found \in [1..n -> [type : IssueTypes, severity : Severities]] :
       /\ \A j, k \in 1..n : j < k => Severe[found[j].severity] >= Severe[found[k].severity]
       /\ issues' = [f \in IssueFiles |-> IF f[2] \in 1..n /\ found[f[2]].type = f[1]
                                         THEN found[f[2]].severity ELSE issues[f]]
  /\ UNCHANGED <<schema, review, rec, banner, work>>

-----------------------------------------------------------------------------
(* `dla recommend` *)

StartRecommend(p) ==
  /\ work[p] = Idle
  /\ work' = [work EXCEPT ![p] = [op |-> "recommend", doc |-> Advice, verdict |-> Verdict]]
  /\ UNCHANGED <<schema, review, issues, rec, banner>>

\* An unforced write: an override is left alone, and so is a recommendation
\* that says the same.
WriteAdvice(p) ==
  LET doc == work[p].doc
      outcome == Outcome(rec, doc.prov, FALSE, SameContent(rec, doc))
  IN  /\ work[p].op = "recommend"
      /\ rec' = IF outcome = "write" THEN doc ELSE rec
      /\ banner' = IF outcome = "write" THEN work[p].verdict ELSE banner
      /\ work' = [work EXCEPT ![p] = Idle]
      /\ UNCHANGED <<schema, review, issues>>

-----------------------------------------------------------------------------
(* apply_override *)

Overridden(doc, choice) ==
  [prov |-> "sme-authored", signals |-> doc.signals, coverage |-> doc.coverage,
   strategy |-> doc.strategy, confidence |-> doc.confidence, warned |-> doc.warned,
   override |-> choice]

\* Without a recommendation there is nothing to override.
StartOverride(p) ==
  /\ work[p] = Idle /\ rec # NoDoc
  /\ \E choice \in Choices :
       work' = [work EXCEPT ![p] = [op |-> "override", doc |-> Overridden(rec, choice),
                                    verdict |-> Verdict]]
  /\ UNCHANGED <<schema, review, issues, rec, banner>>

\* A forced write, with the time of the override in it: never the same as before.
WriteOverride(p) ==
  LET outcome == Outcome(rec, work[p].doc.prov, TRUE, FALSE) IN
  /\ work[p].op = "override"
  /\ rec' = IF outcome = "write" THEN work[p].doc ELSE rec
  /\ banner' = IF outcome = "write" THEN work[p].verdict ELSE banner
  /\ work' = [work EXCEPT ![p] = Idle]
  /\ UNCHANGED <<schema, review, issues>>

Next ==
  \/ Restructure \/ Reassess
  \/ \E i \in Items : Draft(i) \/ Confirm(i)
  \/ \E p \in Recommenders : StartRecommend(p) \/ WriteAdvice(p)
  \/ \E p \in Overriders : StartOverride(p) \/ WriteOverride(p)

Spec == Init /\ [][Next]_vars

-----------------------------------------------------------------------------
(* Properties *)

Coverages == {cov \in [confirmed : Nat, total : Nat] : cov.confirmed <= cov.total}
Recs == [prov : {"discovered", "sme-authored"}, signals : {Signals(s) : s \in Schemas},
         coverage : Coverages, strategy : Strategies, confidence : Levels, warned : BOOLEAN,
         override : Strategies \cup {None}]

ASSUME NoRecAssumption == NoDoc \notin Recs

\* Every variable has its type, and the recommendation on disk is SME-authored
\* exactly if it is overridden.
TypeOK ==
  /\ schema \in Schemas
  /\ review \in [Items -> {"absent", "open", "confirmed"}]
  /\ issues \in [IssueFiles -> Severities \cup {None}]
  /\ rec \in Recs \cup {NoDoc}
  /\ rec # NoDoc => (rec.override # None <=> rec.prov = "sme-authored")
  /\ banner \in Verdicts \cup {None}
  /\ work \in [Processes -> {Idle} \cup
                  [op : {"recommend", "override"}, doc : Recs, verdict : Verdicts]]

\* An override stays, whatever `dla recommend` computes, before or after it: it
\* is replaced by another override only.
OverrideKept ==
  [][rec # NoDoc /\ rec.override # None /\ rec' # rec =>
       \E p \in Overriders :
         work[p].op = "override" /\ work'[p] = Idle /\ rec' = work[p].doc /\ rec'.override # None]_vars

Earned(doc) ==
  LET points == Points(doc.signals)
      cov == doc.coverage
      enough == cov.total > 0 /\ cov.confirmed * MinCoverage[2] >= MinCoverage[1] * cov.total
      Ahead(n) == \A b \in Strategies \ {doc.strategy} : points[doc.strategy] >= points[b] + n
  IN  /\ doc.confidence = "high"   => enough /\ Ahead(3)
      /\ doc.confidence = "medium" => IF enough THEN Ahead(2) ELSE Ahead(3)
      /\ doc.warned = ~enough

\* The confidence that is recorded was earned: high means three points ahead of
\* every other strategy and enough reviewed, medium two points, or three on too
\* little review, and a bundle with nothing to review is never enough.
ConfidenceEarned == rec # NoDoc => Earned(rec)

Follows(doc) ==
  LET sig == doc.signals IN
  /\ sig.junctions >= 1 /\ sig.junctions >= JunctionCount /\ sig.junctions >= JunctionRich
     => doc.strategy = "knowledge_graph"
  /\ \/ sig.texts >= 1 /\ sig.texts >= TextFieldCount
     \/ sig.texts >= 1 /\ sig.length >= TextAvgLength * sig.texts
     \/ sig.junctions >= 1 /\ sig.junctions >= JunctionCount
     => doc.strategy # "plain_schema"

\* The strategy follows the structure, wherever the bars are set: a schema whose
\* junctions clear both bars is a graph domain however much text it has (junction-rich
\* alone is not enough when that bar is the lower one), and no schema with enough text,
\* long text or enough junctions is taken for a plain one.  An override does not change it.
StructureDecides == rec # NoDoc => Follows(rec)
=============================================================================
