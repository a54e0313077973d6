------------------------ MODULE SchemaDiscoveryProofs ------------------------
(***************************************************************************)
(* Proofs about SchemaDiscovery for any tables, column names, source       *)
(* schemas, sampled values and thresholds, and any number of deaths.       *)
(***************************************************************************)
EXTENDS SchemaDiscovery, FiniteSetTheorems, TLAPS

-----------------------------------------------------------------------------
(* Types *)

\* What a schema is made of (the introspected columns and foreign keys).
LEMMA SchemaFacts ==
  ASSUME NEW s \in Schemas
  PROVE  /\ s.cols \subseteq Columns /\ \A c \in s.cols : c[1] \in Scope /\ c[1] \in Tables
         /\ s.pk \subseteq s.cols
         /\ DOMAIN s.fk \subseteq Pairs
         /\ \A p \in DOMAIN s.fk : p[1] \in s.cols /\ (p[2][1] \in Scope => p[2] \in s.cols)
BY SchemasAssumption, ScopeAssumption DEF IsSchema, Columns, Pairs

\* Both ends of an inferred pair are columns of the schema.
LEMMA InferredFacts ==
  ASSUME NEW s \in Schemas, NEW p \in Inferred(s)
  PROVE  p[1] \in s.cols /\ p[2] \in s.cols /\ p \in Pairs /\ p[1] \notin DeclaredFrom(s)
BY SchemaFacts DEF Inferred, SinglePks, Pairs

\* What the two link stages write is a relationship between columns.
LEMMA LinkFacts ==
  ASSUME NEW s \in Schemas, NEW at \in {"declared", "inferred"}, NEW p \in Work(at, s)
  PROVE  p \in Pairs /\ p[1] \in s.cols /\ (p[2][1] \in Scope => p[2] \in s.cols)
<1>1. CASE at = "declared"
  BY <1>1, SchemaFacts DEF Work
<1>2. CASE at = "inferred"
  BY <1>2, InferredFacts DEF Work
<1> QED
  BY <1>1, <1>2

\* Relationship files have their type, whatever the evidence.
LEMMA FilesTyped ==
  ASSUME NEW s, NEW p \in Pairs
  PROVE  /\ DeclaredFile(s, p) \in RelFiles /\ DeclaredFile(s, p).pair = p
         /\ InferredFile(s, p) \in RelFiles /\ InferredFile(s, p).pair = p
<1>1. Tag(Compatible(s, p), Evidence(s, p)) \in {"Strong", "Weak"}
  BY DEF Tag
<1>2. [pair |-> p, conf |-> "Explicit", grouped |-> Grouped(s, p)] \in RelFiles
  BY DEF Grouped, RelFiles
<1>3. [pair |-> p, conf |-> Tag(Compatible(s, p), Evidence(s, p)), grouped |-> FALSE] \in RelFiles
  BY <1>1 DEF RelFiles
<1> QED
  BY <1>2, <1>3 DEF DeclaredFile, InferredFile

\* What the detectors find are patterns.
LEMMA FoundTyped == ASSUME rels \subseteq RelFiles PROVE Found \subseteq Patterns
<1>1. \A t : Targets(t) \subseteq Tables
  BY DEF Targets, Linked, RelFiles, Pairs, Columns
<1>2. Discovered \subseteq Tables
  BY DEF Discovered
<1>3. Facts \subseteq Tables /\ Linking \subseteq Tables
  BY <1>2 DEF Facts, Linking
<1>4. Stars \subseteq Patterns
  BY <1>1, <1>3 DEF Stars, Pattern, Patterns
<1>5. Snowflakes \subseteq Patterns
  BY <1>1, <1>3 DEF Snowflakes, Normalized, Pattern, Patterns
<1>6. Junctions \subseteq Patterns
  BY <1>1, <1>3 DEF Junctions, Pattern, Patterns
<1>7. Audited \subseteq Patterns
  <2> SUFFICES ASSUME NEW t \in Discovered PROVE Pattern("audit", t, t, ColNames(t) \cap Audit) \in Patterns
    BY DEF Audited
  <2> DEFINE names == ColNames(t) \cap Audit
  <2>1. \A n \in names : n \in Audit
    OBVIOUS
  <2> HIDE DEF names
  <2>2. names \in (SUBSET Tables) \cup (SUBSET Audit)
    BY <2>1
  <2>3. Pattern("audit", t, t, names) \in Patterns
    BY <1>2, <2>2 DEF Pattern, Patterns
  <2> QED
    BY <2>3 DEF names
<1> QED
  BY <1>4, <1>5, <1>6, <1>7 DEF Found

\* The running discovery, if any, is in one of its stages and has part of the
\* stage's work left.
DiscTyped ==
  \/ disc = Idle
  \/ /\ disc.at \in Stages /\ disc.schema \in Schemas
     /\ disc = Writing(disc.at, disc.schema, disc.left)
     /\ disc.left \subseteq Work(disc.at, disc.schema)

\* A record that is written is taken apart to what went into it.
LEMMA WritingFacts ==
  ASSUME NEW at, NEW s, NEW left
  PROVE  /\ Writing(at, s, left).at = at /\ Writing(at, s, left).schema = s
         /\ Writing(at, s, left).left = left
BY DEF Writing

\* The command that does not run.
LEMMA IdleFacts == Idle.at = "idle" /\ Idle.schema = NoFile /\ Idle.left = {}
BY DEF Idle

\* Taking something off what is left leaves a stage a stage.
LEMMA LessLeft ==
  ASSUME DiscTyped, Running, NEW x
  PROVE  LET d == [disc EXCEPT !.left = @ \ {x}]
         IN  /\ d.at = disc.at /\ d.schema = disc.schema /\ d.left = disc.left \ {x}
             /\ d = Writing(d.at, d.schema, d.left)
<1>1. disc = Writing(disc.at, disc.schema, disc.left)
  BY IdleFacts DEF DiscTyped, Running
<1> QED
  BY <1>1 DEF Writing

\* What is written of a table at its turn.
LEMMA TableFacts ==
  ASSUME NEW s \in Schemas, NEW t
  PROVE  {c[2] : c \in {d \in s.pk : d[1] = t}} \in SUBSET Names
BY SchemaFacts DEF Columns

-----------------------------------------------------------------------------
(* Type correctness *)

\* Bundle, catalog and commands are well typed.
THEOREM TypeCorrect == Spec => []TypeOK
<1>1. Init => TypeOK
  <2> SUFFICES ASSUME Init PROVE TypeOK
    OBVIOUS
  <2>1. tables \in [Tables -> {NoFile} \cup SUBSET Names]
    BY DEF Init
  <2> QED
    BY <2>1, BoundsAssumption DEF Init, TypeOK
<1>2. TypeOK /\ [Next]_vars => TypeOK'
  <2> SUFFICES ASSUME TypeOK, [Next]_vars PROVE TypeOK'
    OBVIOUS
  <2> USE BoundsAssumption
  <2>0. DiscTyped
    BY DEF TypeOK, DiscTyped
  <2>1. ASSUME NEW s \in Schemas, StartDiscover(s) PROVE TypeOK'
    <3>1. disc' = Writing("schema", s, Work("schema", s))
      BY <2>1 DEF StartDiscover, NextStage
    <3>2. DiscTyped'
      BY <3>1, WritingFacts DEF DiscTyped, Stages
    <3> QED
      BY <2>1, <3>2 DEF StartDiscover, TypeOK, DiscTyped
  <2>2. ASSUME NEW t \in disc.left, WriteTable(t) PROVE TypeOK'
    <3>1. disc.schema \in Schemas /\ Running
      BY <2>0, <2>2, IdleFacts DEF DiscTyped, WriteTable, Running
    <3>2. tables' \in [Tables -> {NoFile} \cup SUBSET Names]
      BY <2>2, <3>1, TableFacts DEF WriteTable, PutTable, TypeOK
    <3>3. columns' \subseteq Columns
      BY <2>2, <3>1, SchemaFacts DEF WriteTable, PutTable, OwnColumns, TypeOK
    <3>4. DiscTyped'
      BY <2>0, <2>2, <3>1, LessLeft, IdleFacts DEF WriteTable, DiscTyped, Running
    <3> QED
      BY <2>2, <3>2, <3>3, <3>4 DEF WriteTable, TypeOK, DiscTyped
  <2>3. ASSUME NEW p \in disc.left, WriteRel(p) PROVE TypeOK'
    <3>1. disc.schema \in Schemas /\ Running /\ p \in Work(disc.at, disc.schema)
      BY <2>0, <2>3, IdleFacts DEF DiscTyped, WriteRel, Running
    <3>2. p \in Pairs
      BY <2>3, <3>1, LinkFacts DEF WriteRel
    <3>3. rels' \subseteq RelFiles
      BY <2>3, <3>2, FilesTyped DEF WriteRel, TypeOK
    <3>4. DiscTyped'
      BY <2>0, <2>3, <3>1, LessLeft, IdleFacts DEF WriteRel, DiscTyped, Running
    <3> QED
      BY <2>3, <3>3, <3>4 DEF WriteRel, TypeOK, DiscTyped
  <2>4. ASSUME EndStage PROVE TypeOK'
    <3>1. disc.schema \in Schemas /\ disc.at \in Stages
      BY <2>0, <2>4, IdleFacts DEF DiscTyped, EndStage, Running
    <3>2. CASE NextStage[disc.at] = "idle"
      <4>1. disc' = Idle /\ settled' = disc.schema
        BY <2>4, <3>2 DEF EndStage
      <4> QED
        BY <2>4, <3>1, <4>1 DEF EndStage, TypeOK, Idle
    <3>3. CASE NextStage[disc.at] # "idle"
      <4> DEFINE next == NextStage[disc.at]
      <4>1. next \in Stages
        BY <3>1, <3>3 DEF NextStage, Stages
      <4>2. disc' = Writing(next, disc.schema, Work(next, disc.schema)) /\ settled' = settled
        BY <2>4, <3>3 DEF EndStage
      <4> HIDE DEF next
      <4>3. DiscTyped'
        BY <3>1, <4>1, <4>2, WritingFacts DEF DiscTyped, Stages
      <4> QED
        BY <2>4, <4>2, <4>3 DEF EndStage, TypeOK, DiscTyped
    <3> QED
      BY <3>2, <3>3
  <2>5. ASSUME StartDetect PROVE TypeOK'
    <3>1. Found \subseteq Patterns
      BY FoundTyped DEF TypeOK
    <3>2. Acyclic(Edges) \in BOOLEAN
      BY DEF Acyclic
    <3> DEFINE found == Found
               acyclic == Acyclic(Edges)
    <3>3. det' = [left |-> found, found |-> found, acyclic |-> acyclic]
      BY <2>5 DEF StartDetect
    <3> HIDE DEF found, acyclic
    <3>4. det'.left = found /\ det'.found = found /\ det'.acyclic = acyclic
      BY <3>3
    <3> QED
      BY <2>5, <3>1, <3>2, <3>4 DEF StartDetect, TypeOK, Idle, Writing, found, acyclic
  <2>6. ASSUME NEW p \in det.left, WritePattern(p) PROVE TypeOK'
    BY <2>6 DEF WritePattern, TypeOK, Idle, Writing
  <2>7. ASSUME DieDiscover PROVE TypeOK'
    <3>1. disc.schema \in Schemas
      BY <2>0, <2>7, IdleFacts DEF DiscTyped, DieDiscover, Running
    <3>2. tables' \in [Tables -> {NoFile} \cup SUBSET Names]
      BY <2>7, <3>1, TableFacts DEF DieDiscover, PutTable, TypeOK
    <3>3. columns' \subseteq Columns
      BY <2>7, <3>1, SchemaFacts DEF DieDiscover, PutTable, OwnColumns, TypeOK
    <3> QED
      BY <2>7, <3>2, <3>3 DEF DieDiscover, TypeOK, Idle
  <2>8. ASSUME DieDetect PROVE TypeOK'
    BY <2>8 DEF DieDetect, TypeOK, Idle, Writing
  <2>9. CASE UNCHANGED vars
    BY <2>9 DEF vars, TypeOK, Idle, Writing
  <2> QED
    BY <2>1, <2>2, <2>3, <2>4, <2>5, <2>6, <2>7, <2>8, <2>9 DEF Next, Discover, Detect
<1> QED
  BY <1>1, <1>2, PTL DEF Spec

-----------------------------------------------------------------------------
(* The order in which discover writes *)

\* A column and its table are in the bundle.
There(c) == c \in columns /\ tables[c[1]] # NoFile

\* The files of a schema are in place before its links are written: the table
\* stage has written what is no longer left, and later stages find all of it.
RefInv ==
  /\ RefsResolve
  /\ disc.at = "schema" => \A c \in disc.schema.cols : c[1] \in disc.left \/ There(c)
  /\ disc.at \in {"declared", "inferred"} => \A c \in disc.schema.cols : There(c)

\* Nothing takes a column or a table from the bundle.
LEMMA ThereStays ==
  ASSUME TypeOK, [Next]_vars, NEW c \in Columns, There(c)
  PROVE  There(c)'
<1>1. ASSUME disc.schema \in Schemas, NEW t, NEW cs, PutTable(t, cs) PROVE There(c)'
  <2>1. {d[2] : d \in {e \in disc.schema.pk : e[1] = t}} # NoFile
    BY <1>1, TableFacts, NoFileAssumption
  <2> QED
    BY <1>1, <2>1 DEF PutTable, There, TypeOK
<1>2. ASSUME columns' = columns, tables' = tables PROVE There(c)'
  BY <1>2 DEF There
<1>3. Running => disc.schema \in Schemas
  BY IdleFacts DEF TypeOK, Running
<1>4. CASE \E t \in disc.left : WriteTable(t)
  BY <1>1, <1>3, <1>4 DEF WriteTable, Running
<1>5. CASE DieDiscover
  BY <1>1, <1>2, <1>3, <1>5 DEF DieDiscover
<1>6. CASE (\E s \in Schemas : StartDiscover(s)) \/ (\E p \in disc.left : WriteRel(p)) \/ EndStage \/ Detect
           \/ DieDetect \/ UNCHANGED vars
  BY <1>2, <1>6 DEF StartDiscover, WriteRel, EndStage, Detect, StartDetect, WritePattern, DieDetect, vars
<1> QED
  BY <1>4, <1>5, <1>6 DEF Next, Discover

\* ... so what resolved keeps resolving.
LEMMA RefsKeep ==
  ASSUME TypeOK, RefsResolve, [Next]_vars, NEW f \in rels, NEW c \in {f.pair[1], f.pair[2]}, c[1] \in Scope
  PROVE  There(c)'
<1>1. f.pair \in Pairs
  BY DEF TypeOK, RelFiles
<1>2. c \in Columns
  BY <1>1 DEF Pairs
<1> QED
  BY <1>2, ThereStays DEF RefsResolve, There

\* No step of either command leaves a relationship without its ends.
LEMMA RefsStep == TypeOK /\ RefInv /\ [Next]_vars => RefInv'
<1> SUFFICES ASSUME TypeOK, RefInv, [Next]_vars PROVE RefInv'
  OBVIOUS
<1>0. /\ \A s \in Schemas : \A c \in s.cols : There(c) => There(c)'
      /\ Running => disc.schema \in Schemas
  BY SchemaFacts, ThereStays, IdleFacts DEF TypeOK, Running
<1>1. ASSUME rels' = rels PROVE RefsResolve'
  BY <1>1, RefsKeep DEF RefInv, RefsResolve, There
<1>2. ASSUME NEW s \in Schemas, StartDiscover(s) PROVE RefInv'
  <2>1. disc' = Writing("schema", s, Work("schema", s)) /\ rels' = rels
    BY <1>2 DEF StartDiscover, NextStage
  <2>2. disc'.at = "schema" /\ disc'.schema = s /\ disc'.left = {c[1] : c \in s.cols}
    BY <2>1, WritingFacts DEF Work
  <2> QED
    BY <1>1, <2>1, <2>2 DEF RefInv
<1>3. ASSUME NEW t \in disc.left, WriteTable(t) PROVE RefInv'
  <2>1. disc.at = "schema" /\ disc.schema \in Schemas /\ Running
    BY <1>0, <1>3 DEF WriteTable, Running
  <2>2. disc'.at = "schema" /\ disc'.schema = disc.schema /\ disc'.left = disc.left \ {t}
    BY <1>3, <2>1, LessLeft DEF WriteTable, TypeOK, DiscTyped
  <2>3. ASSUME NEW c \in disc.schema.cols, c[1] = t PROVE There(c)'
    <3>1. c \in columns'
      BY <1>3, <2>3 DEF WriteTable, PutTable, OwnColumns
    <3>2. t \in Tables
      BY <2>1, <2>3, SchemaFacts
    <3>3. {d[2] : d \in {e \in disc.schema.pk : e[1] = t}} # NoFile
      BY <2>1, TableFacts, NoFileAssumption
    <3>4. tables'[t] # NoFile
      BY <1>3, <3>2, <3>3 DEF WriteTable, PutTable, TypeOK
    <3> QED
      BY <2>3, <3>1, <3>4 DEF There
  <2>4. \A c \in disc.schema.cols : c[1] \in disc'.left \/ There(c)'
    BY <1>0, <2>1, <2>2, <2>3 DEF RefInv
  <2>5. rels' = rels
    BY <1>3 DEF WriteTable
  <2> QED
    BY <1>1, <2>2, <2>4, <2>5 DEF RefInv
<1>4. ASSUME NEW p \in disc.left, WriteRel(p) PROVE RefInv'
  <2>1. disc.at \in {"declared", "inferred"} /\ disc.schema \in Schemas /\ Running
    BY <1>0, <1>4 DEF WriteRel, Running
  <2>2. disc'.at = disc.at /\ disc'.schema = disc.schema
    BY <1>4, <2>1, LessLeft DEF WriteRel, TypeOK, DiscTyped
  <2>3. \A c \in disc.schema.cols : There(c)'
    BY <1>0, <2>1 DEF RefInv
  <2>4. p \in Work(disc.at, disc.schema)
    BY <2>1, IdleFacts DEF TypeOK
  <2>5. p \in Pairs /\ p[1] \in disc.schema.cols /\ (p[2][1] \in Scope => p[2] \in disc.schema.cols)
    BY <2>1, <2>4, LinkFacts
  <2>6. ASSUME NEW f \in rels', NEW c \in {f.pair[1], f.pair[2]}, c[1] \in Scope PROVE There(c)'
    <3>1. CASE f \in rels
      BY <2>6, <3>1, RefsKeep DEF RefInv
    <3>2. CASE f.pair = p
      BY <2>3, <2>5, <2>6, <3>2
    <3> QED
      BY <1>4, <2>5, <3>1, <3>2, FilesTyped DEF WriteRel
  <2>7. RefsResolve'
    BY <2>6 DEF RefsResolve, There
  <2> QED
    BY <2>1, <2>2, <2>3, <2>7 DEF RefInv
<1>5. ASSUME EndStage PROVE RefInv'
  <2>1. Running /\ disc.left = {} /\ disc.at \in Stages /\ disc.schema \in Schemas /\ rels' = rels
    BY <1>5, IdleFacts DEF EndStage, TypeOK, Running
  <2>2. \A c \in disc.schema.cols : There(c)'
    BY <1>0, <2>1 DEF RefInv, Stages
  <2>3. CASE NextStage[disc.at] = "idle"
    <3>1. disc'.at = "idle"
      BY <1>5, <2>3, IdleFacts DEF EndStage
    <3> QED
      BY <1>1, <2>1, <3>1 DEF RefInv
  <2>4. CASE NextStage[disc.at] # "idle"
    <3>1. NextStage[disc.at] \in {"declared", "inferred"}
      BY <2>1, <2>4 DEF NextStage, Stages
    <3>2. disc'.at \in {"declared", "inferred"} /\ disc'.schema = disc.schema
      BY <1>5, <2>4, <3>1, WritingFacts DEF EndStage
    <3> QED
      BY <1>1, <2>1, <2>2, <3>2 DEF RefInv
  <2> QED
    BY <2>3, <2>4
<1>6. ASSUME DieDiscover PROVE RefInv'
  <2>1. disc'.at = "idle" /\ rels' = rels
    BY <1>6, IdleFacts DEF DieDiscover
  <2> QED
    BY <1>1, <2>1 DEF RefInv
<1>7. CASE Detect \/ DieDetect \/ UNCHANGED vars
  <2>1. disc' = disc /\ rels' = rels /\ tables' = tables /\ columns' = columns
    BY <1>7 DEF Detect, StartDetect, WritePattern, DieDetect, vars
  <2> QED
    BY <1>1, <2>1 DEF RefInv, There
<1> QED
  BY <1>2, <1>3, <1>4, <1>5, <1>6, <1>7 DEF Next, Discover

\* Wherever a discovery was killed and whatever the source became, the ends of
\* every relationship of the bundle are columns of the bundle.
THEOREM ReferencesResolve == Spec => []RefsResolve
<1>1. Init => RefInv
  BY IdleFacts DEF Init, RefInv, RefsResolve
<1>2. RefInv => RefsResolve
  BY DEF RefInv
<1> QED
  BY <1>1, <1>2, RefsStep, TypeCorrect, PTL DEF Spec

-----------------------------------------------------------------------------
(* The catalog *)

\* Links and columns are only ever added: a relationship file is replaced by one
\* of the same pair.
LEMMA LinksGrow ==
  ASSUME TypeOK, [Next]_vars
  PROVE  /\ \A t : Targets(t) \subseteq Targets(t)'
         /\ \A t : ColNames(t) \subseteq ColNames(t)'
<1>1. columns \subseteq columns'
  BY DEF Next, Discover, Detect, StartDiscover, WriteTable, WriteRel, EndStage, StartDetect,
         WritePattern, DieDiscover, DieDetect, PutTable, vars
<1>2. {f.pair : f \in rels} \subseteq {f.pair : f \in rels'}
  <2>1. ASSUME NEW p \in disc.left, WriteRel(p) PROVE \A f \in rels : \E g \in rels' : g.pair = f.pair
    <3>1. disc.schema \in Schemas /\ p \in Work(disc.at, disc.schema)
      BY <2>1, IdleFacts DEF WriteRel, TypeOK
    <3>2. p \in Pairs
      BY <2>1, <3>1, LinkFacts DEF WriteRel
    <3>3. DeclaredFile(disc.schema, p).pair = p /\ InferredFile(disc.schema, p).pair = p
      BY <3>2, FilesTyped
    <3> QED
      BY <2>1, <3>3 DEF WriteRel
  <2>2. (\E p \in disc.left : WriteRel(p)) \/ rels' = rels
    BY DEF Next, Discover, Detect, StartDiscover, WriteTable, EndStage, StartDetect,
           WritePattern, DieDiscover, DieDetect, vars
  <2> QED
    BY <2>1, <2>2
<1>3. Linked \subseteq Linked'
  BY <1>2 DEF Linked
<1> QED
  BY <1>1, <1>3 DEF Targets, ColNames

\* What is found is grounded in the bundle when it is found.
LEMMA FoundGrounded == \A q \in Found : Grounded(q)
<1>0. ASSUME NEW type, NEW t, NEW d, NEW refs
      PROVE  LET q == Pattern(type, t, d, refs)
             IN  q.type = type /\ q.table = t /\ q.dim = d /\ q.refs = refs
  BY DEF Pattern
<1>1. ASSUME NEW type \in {"star", "junction"}, NEW t PROVE Grounded(Pattern(type, t, t, Targets(t)))
  <2> DEFINE q == Pattern(type, t, t, Targets(t))
  <2>1. q.type = type /\ q.table = t /\ q.refs = Targets(t)
    BY <1>0
  <2> HIDE DEF q
  <2>2. q.type \in {"star", "junction"} /\ q.type # "snowflake" /\ q.type # "audit"
    BY <2>1
  <2> QED
    BY <2>1, <2>2 DEF Grounded, q
<1>2. ASSUME NEW t, NEW d \in Targets(t)
      PROVE  Grounded(Pattern("snowflake", t, d, Targets(d) \ {t}))
  <2> DEFINE q == Pattern("snowflake", t, d, Targets(d) \ {t})
  <2>1. q.type = "snowflake" /\ q.table = t /\ q.dim = d /\ q.refs = Targets(d) \ {t}
    BY <1>0
  <2> HIDE DEF q
  <2> QED
    BY <2>1 DEF Grounded, q
<1>3. ASSUME NEW t PROVE Grounded(Pattern("audit", t, t, ColNames(t) \cap Audit))
  <2> DEFINE q == Pattern("audit", t, t, ColNames(t) \cap Audit)
  <2>1. q.type = "audit" /\ q.table = t /\ q.refs = ColNames(t) \cap Audit
    BY <1>0
  <2> HIDE DEF q
  <2> QED
    BY <2>1 DEF Grounded, q
<1>4. \A q \in Stars : Grounded(q)
  BY <1>1 DEF Stars
<1>5. \A q \in Junctions : Grounded(q)
  BY <1>1 DEF Junctions
<1>6. \A q \in Snowflakes : Grounded(q)
  <2> TAKE q \in Snowflakes
  <2>1. PICK t \in Facts : q \in {Pattern("snowflake", t, d, Targets(d) \ {t}) : d \in Normalized(t)}
    BY DEF Snowflakes
  <2>2. PICK d \in Targets(t) : q = Pattern("snowflake", t, d, Targets(d) \ {t})
    BY <2>1 DEF Normalized
  <2> QED
    BY <1>2, <2>2
<1>7. \A q \in Audited : Grounded(q)
  BY <1>3 DEF Audited
<1> QED
  BY <1>4, <1>5, <1>6, <1>7 DEF Found

\* A detection writes what it found at its start, so that is grounded as well.
GroundInv == \A q \in patterns \cup det.found : Grounded(q)

\* No step takes away what a pattern rests on.
LEMMA GroundStep == TypeOK /\ GroundInv /\ [Next]_vars => GroundInv'
<1> SUFFICES ASSUME TypeOK, GroundInv, [Next]_vars PROVE GroundInv'
  OBVIOUS
<1>1. ASSUME NEW q \in Patterns, Grounded(q) PROVE Grounded(q)'
  BY <1>1, LinksGrow DEF Grounded, Patterns
<1>2. \A q \in patterns \cup det.found : Grounded(q)'
  BY <1>1 DEF GroundInv, TypeOK
<1>3. CASE StartDetect
  <2>1. \A q \in Found : q \in Patterns /\ Grounded(q)
    BY FoundTyped, FoundGrounded DEF TypeOK
  <2>2. det'.found = Found /\ patterns' = patterns
    BY <1>3 DEF StartDetect
  <2> QED
    BY <1>1, <1>2, <2>1, <2>2 DEF GroundInv
<1>4. ASSUME NEW p \in det.left, WritePattern(p) PROVE GroundInv'
  <2>1. p \in det.found /\ det'.found = det.found
    BY <1>4 DEF WritePattern, TypeOK
  <2>2. patterns' \subseteq patterns \cup {p}
    BY <1>4 DEF WritePattern
  <2> QED
    BY <1>2, <2>1, <2>2 DEF GroundInv
<1>5. CASE DieDetect
  BY <1>2, <1>5 DEF DieDetect, GroundInv
<1>6. CASE Discover \/ DieDiscover \/ UNCHANGED vars
  <2>1. patterns' = patterns /\ det' = det
    BY <1>6 DEF Discover, StartDiscover, WriteTable, WriteRel, EndStage, DieDiscover, vars
  <2> QED
    BY <1>2, <2>1 DEF GroundInv
<1> QED
  BY <1>3, <1>4, <1>5, <1>6 DEF Next, Detect

\* What the pattern files say of tables, columns and links stays true of the
\* bundle, though none is ever removed.
THEOREM CatalogIsGrounded == Spec => []CatalogGrounded
<1>1. Init => GroundInv
  BY DEF Init, GroundInv
<1>2. GroundInv => CatalogGrounded
  BY DEF GroundInv, CatalogGrounded
<1> QED
  BY <1>1, <1>2, GroundStep, TypeCorrect, PTL DEF Spec

-----------------------------------------------------------------------------
(* The ids of patterns *)

\* While foreign keys form no cycle, a table ranks above all that it reaches, so
\* a pattern's fact (and a snowflake's dimension) can be told from the set of its
\* participants: patterns that are found together have different ids.
LEMMA IdsDiffer ==
  ASSUME TypeOK, Acyclic(Edges), NEW p \in Found, NEW q \in Found, Id(p) = Id(q)
  PROVE  p = q
<1>1. PICK rank \in [Tables -> 0 .. Cardinality(Tables)] : \A e \in Edges : rank[e[2]] < rank[e[1]]
  BY DEF Acyclic
<1>2. \A t \in Tables : rank[t] \in Int
  BY <1>1
<1>3. \A t : \A x \in Targets(t) : t \in Tables /\ x \in Tables /\ rank[x] < rank[t]
  <2> TAKE t
  <2> TAKE x \in Targets(t)
  <2>1. PICK l \in Linked : l[1][1] = t /\ l[2][1] = x
    BY DEF Targets
  <2>2. <<t, x>> \in Edges
    BY <2>1 DEF Edges
  <2>3. l \in Pairs
    BY DEF Linked, TypeOK, RelFiles
  <2>4. t \in Tables /\ x \in Tables
    BY <2>1, <2>3 DEF Pairs, Columns
  <2> QED
    BY <1>1, <2>2, <2>4
<1>4. p \in Patterns /\ q \in Patterns
  BY FoundTyped DEF TypeOK
<1>5. p.type = q.type /\ {p.table, p.dim} \cup p.refs = {q.table, q.dim} \cup q.refs
  BY DEF Id
<1>6. ASSUME NEW type \in {"star", "junction"}, NEW t, NEW u,
             p = Pattern(type, t, t, Targets(t)), q = Pattern(type, u, u, Targets(u))
      PROVE  p = q
  <2>1. {t} \cup Targets(t) = {u} \cup Targets(u)
    BY <1>5, <1>6 DEF Pattern
  <2>2. CASE t # u
    <3>1. t \in Targets(u) /\ u \in Targets(t)
      BY <2>1, <2>2
    <3> QED
      BY <1>2, <1>3, <3>1
  <2> QED
    BY <1>6, <2>2
<1>7. ASSUME NEW t, NEW d \in Targets(t), NEW u, NEW e \in Targets(u),
             p = Pattern("snowflake", t, d, Targets(d) \ {t}),
             q = Pattern("snowflake", u, e, Targets(e) \ {u})
      PROVE  p = q
  <2>1. {t, d} \cup (Targets(d) \ {t}) = {u, e} \cup (Targets(e) \ {u})
    BY <1>5, <1>7 DEF Pattern
  <2>2. \A x \in {d} \cup (Targets(d) \ {t}) : x \in Tables /\ rank[x] < rank[t]
    BY <1>2, <1>3
  <2>3. \A x \in {e} \cup (Targets(e) \ {u}) : x \in Tables /\ rank[x] < rank[u]
    BY <1>2, <1>3
  <2>4. t \in Tables /\ u \in Tables /\ d \in Tables /\ e \in Tables
    BY <1>3
  <2>5. t = u
    <3>1. CASE t # u
      <4>1. t \in {e} \cup (Targets(e) \ {u}) /\ u \in {d} \cup (Targets(d) \ {t})
        BY <2>1, <3>1
      <4> QED
        BY <1>2, <2>2, <2>3, <2>4, <4>1
    <3> QED
      BY <3>1
  <2>6. d = e
    <3>1. CASE d # e
      <4>1. d # t /\ e # t
        BY <1>2, <2>2, <2>3, <2>4, <2>5
      <4>2. d \in Targets(e) /\ e \in Targets(d)
        BY <2>1, <2>5, <3>1, <4>1
      <4> QED
        BY <1>2, <1>3, <2>4, <4>2
    <3> QED
      BY <3>1
  <2> QED
    BY <1>7, <2>5, <2>6
<1>8. ASSUME NEW t \in Tables, NEW u \in Tables,
             p = Pattern("audit", t, t, ColNames(t) \cap Audit),
             q = Pattern("audit", u, u, ColNames(u) \cap Audit)
      PROVE  p = q
  <2>1. {t} \cup (ColNames(t) \cap Audit) = {u} \cup (ColNames(u) \cap Audit)
    BY <1>5, <1>8 DEF Pattern
  <2>2. t = u
    BY <2>1, AuditAssumption
  <2> QED
    BY <1>8, <2>2
<1>9. \A x \in Found :
        \/ x.type = "star" /\ \E t : x = Pattern("star", t, t, Targets(t))
        \/ x.type = "junction" /\ \E t : x = Pattern("junction", t, t, Targets(t))
        \/ x.type = "snowflake" /\ \E t : \E d \in Targets(t) :
             x = Pattern("snowflake", t, d, Targets(d) \ {t})
        \/ x.type = "audit" /\ \E t \in Tables : x = Pattern("audit", t, t, ColNames(t) \cap Audit)
  <2>1. \A x \in Stars : x.type = "star" /\ \E t : x = Pattern("star", t, t, Targets(t))
    BY DEF Stars, Pattern
  <2>2. \A x \in Junctions : x.type = "junction" /\ \E t : x = Pattern("junction", t, t, Targets(t))
    BY DEF Junctions, Pattern
  <2>3. \A x \in Snowflakes :
          x.type = "snowflake" /\ \E t : \E d \in Targets(t) :
            x = Pattern("snowflake", t, d, Targets(d) \ {t})
    BY DEF Snowflakes, Normalized, Pattern
  <2>4. \A x \in Audited :
          x.type = "audit" /\ \E t \in Tables : x = Pattern("audit", t, t, ColNames(t) \cap Audit)
    <3> TAKE x \in Audited
    <3>1. PICK t \in Tables : x = Pattern("audit", t, t, ColNames(t) \cap Audit)
      BY DEF Audited, Discovered
    <3>2. x.type = "audit"
      BY <3>1 DEF Pattern
    <3> QED
      BY <3>1, <3>2
  <2> QED
    BY <2>1, <2>2, <2>3, <2>4 DEF Found
<1>10. CASE p.type \in {"star", "junction"}
  BY <1>5, <1>6, <1>9, <1>10
<1>11. CASE p.type = "snowflake"
  BY <1>5, <1>7, <1>9, <1>11
<1>12. CASE p.type = "audit"
  BY <1>5, <1>8, <1>9, <1>12
<1> QED
  BY <1>4, <1>10, <1>11, <1>12 DEF Patterns

\* What one detection found has different ids, so what it has written is there.
FilesInv ==
  det.acyclic => /\ \A p, q \in det.found : Id(p) = Id(q) => p = q
                 /\ det.found \ det.left \subseteq patterns

\* No step of a detection replaces what it wrote before.
LEMMA FilesStep == TypeOK /\ FilesInv /\ [Next]_vars => FilesInv'
<1> SUFFICES ASSUME TypeOK, FilesInv, [Next]_vars PROVE FilesInv'
  OBVIOUS
<1>1. CASE StartDetect
  <2> DEFINE found == Found
             acyclic == Acyclic(Edges)
  <2>1. acyclic => \A p, q \in found : Id(p) = Id(q) => p = q
    BY IdsDiffer
  <2>2. det' = [left |-> found, found |-> found, acyclic |-> acyclic]
    BY <1>1 DEF StartDetect
  <2> HIDE DEF found, acyclic
  <2>3. det'.left = found /\ det'.found = found /\ det'.acyclic = acyclic
    BY <2>2
  <2> QED
    BY <2>1, <2>3 DEF FilesInv, Id
<1>2. ASSUME NEW p \in det.left, WritePattern(p) PROVE FilesInv'
  <2>1. det'.found = det.found /\ det'.acyclic = det.acyclic /\ det'.left = det.left \ {p}
    BY <1>2 DEF WritePattern, TypeOK
  <2>2. p \in det.found /\ patterns' = {q \in patterns : Id(q) # Id(p)} \cup {p}
    BY <1>2 DEF WritePattern, TypeOK
  <2> QED
    BY <2>1, <2>2 DEF FilesInv, Id
<1>3. CASE DieDetect
  BY <1>3 DEF DieDetect, FilesInv
<1>4. CASE Discover \/ DieDiscover \/ UNCHANGED vars
  BY <1>4 DEF Discover, StartDiscover, WriteTable, WriteRel, EndStage, DieDiscover, vars, FilesInv, Id
<1> QED
  BY <1>1, <1>2, <1>3, <1>4 DEF Next, Detect

\* The files of one detection do not replace one another: each pattern that it
\* wrote is on disk, while the foreign keys of the bundle form no cycle.
THEOREM PatternFilesAreKept == Spec => []PatternsKeepTheirFiles
<1>1. Init => FilesInv
  BY DEF Init, FilesInv
<1>2. FilesInv => PatternsKeepTheirFiles
  BY DEF FilesInv, PatternsKeepTheirFiles
<1> QED
  BY <1>1, <1>2, FilesStep, TypeCorrect, PTL DEF Spec

-----------------------------------------------------------------------------
(* Idempotence *)

KeyNames(s, t) == {c[2] : c \in {d \in s.pk : d[1] = t}}
FileOf(at, s, p) == IF at = "declared" THEN DeclaredFile(s, p) ELSE InferredFile(s, p)

\* The files of a schema's table, and those of all but some tables or links.
TableDone(s, t) == tables[t] = KeyNames(s, t) /\ \A c \in s.cols : c[1] = t => c \in columns
TablesDone(s, left) == \A t \in Work("schema", s) \ left : TableDone(s, t)
LinksDone(at, s, left) == \A p \in Work(at, s) \ left : FileOf(at, s, p) \in rels

\* What a discovery of s has written when it has left of its stage to write.
Progress(s, at, left) ==
  /\ at = "schema" => TablesDone(s, left)
  /\ at # "schema" => TablesDone(s, {})
  /\ at = "declared" => LinksDone("declared", s, left)
  /\ at = "inferred" => LinksDone("declared", s, {}) /\ LinksDone("inferred", s, left)
AllDone(s) == TablesDone(s, {}) /\ LinksDone("declared", s, {}) /\ LinksDone("inferred", s, {})

\* Files have one pair each; what runs has made progress, and nothing else has
\* touched what the last discovery to end has written: a discovery of anything
\* else unsettles the bundle at its start, and a stage of links replaces no file
\* of another stage, since no pair is both declared and inferred.
IdemInv ==
  /\ \A f, g \in rels : f.pair = g.pair => f = g
  /\ \A p, q \in patterns : Id(p) = Id(q) => p = q
  /\ Running => settled \in {disc.schema, NoFile} /\ Progress(disc.schema, disc.at, disc.left)
  /\ settled # NoFile => AllDone(settled)

\* A declared pair is not inferred too.
LEMMA StagesApart ==
  ASSUME NEW s \in Schemas
  PROVE  \A p \in Work("inferred", s) : p \notin Work("declared", s)
BY InferredFacts DEF Work, DeclaredFrom

\* The file of a link is kept under its pair, in either stage.
LEMMA FileFacts ==
  ASSUME NEW s \in Schemas, NEW at \in {"declared", "inferred"}, NEW p \in Work(at, s)
  PROVE  FileOf(at, s, p).pair = p
BY LinkFacts, FilesTyped DEF FileOf

\* Writing a table of a schema that is done changes nothing of its table ...
LEMMA TableAgain ==
  ASSUME TypeOK, disc.schema \in Schemas, disc.at = "schema", disc.left \subseteq Work("schema", disc.schema),
         AllDone(disc.schema), NEW t \in disc.left, NEW cs \in SUBSET OwnColumns(t), PutTable(t, cs)
  PROVE  tables' = tables /\ columns' = columns
<1>1. TableDone(disc.schema, t)
  BY DEF AllDone, TablesDone
<1>2. tables' = [tables EXCEPT ![t] = tables[t]]
  BY <1>1 DEF TableDone, PutTable, KeyNames
<1>3. columns' = columns
  BY <1>1 DEF TableDone, PutTable, OwnColumns
<1> QED
  BY <1>2, <1>3 DEF TypeOK

\* ... and so of its links.
LEMMA LinkAgain ==
  ASSUME TypeOK, IdemInv, NEW p \in disc.left, WriteRel(p), disc.schema \in Schemas,
         disc.left \subseteq Work(disc.at, disc.schema), AllDone(disc.schema)
  PROVE  rels' = rels
<1>1. disc.at \in {"declared", "inferred"} /\ p \in Work(disc.at, disc.schema)
  BY DEF WriteRel
<1> DEFINE file == FileOf(disc.at, disc.schema, p)
<1>2. file.pair = p
  BY <1>1, FileFacts
<1>3. file \in rels
  BY <1>1 DEF AllDone, LinksDone
<1>4. rels' = {f \in rels : f.pair # p} \cup {file}
  BY <1>1 DEF WriteRel, FileOf
<1> HIDE DEF file
<1>5. \A f \in rels : f.pair = p => f = file
  BY <1>2, <1>3 DEF IdemInv
<1> QED
  BY <1>2, <1>3, <1>4, <1>5

\* Running a settled schema's discovery changes no file.
LEMMA NothingNew ==
  ASSUME TypeOK, IdemInv, [Next]_vars, Running, disc.schema = settled
  PROVE  UNCHANGED <<tables, columns, rels>>
<1>1. disc.schema \in Schemas /\ disc.left \subseteq Work(disc.at, disc.schema)
  BY IdleFacts DEF TypeOK, Running
<1>2. AllDone(disc.schema)
  BY <1>1, NoFileAssumption DEF IdemInv
<1>3. ASSUME NEW t \in disc.left, WriteTable(t) PROVE UNCHANGED <<tables, columns, rels>>
  BY <1>1, <1>2, <1>3, TableAgain DEF WriteTable
<1>4. ASSUME NEW p \in disc.left, WriteRel(p) PROVE UNCHANGED <<tables, columns, rels>>
  BY <1>1, <1>2, <1>4, LinkAgain DEF WriteRel
<1>5. ASSUME DieDiscover PROVE UNCHANGED <<tables, columns, rels>>
  <2>1. \/ UNCHANGED <<tables, columns>>
        \/ /\ disc.at = "schema"
           /\ \E t \in disc.left : \E cs \in SUBSET OwnColumns(t) : PutTable(t, cs)
    BY <1>5 DEF DieDiscover
  <2>2. UNCHANGED <<tables, columns>>
    BY <1>1, <1>2, <2>1, TableAgain
  <2> QED
    BY <1>5, <2>2 DEF DieDiscover
<1>6. CASE (\E s \in Schemas : StartDiscover(s)) \/ EndStage \/ Detect \/ DieDetect \/ UNCHANGED vars
  BY <1>6 DEF StartDiscover, EndStage, Detect, StartDetect, WritePattern, DieDetect, vars
<1> QED
  BY <1>3, <1>4, <1>5, <1>6 DEF Next, Discover

\* What was done stays done while the files are left alone.
LEMMA DoneStays ==
  ASSUME UNCHANGED <<tables, columns, rels>>
  PROVE  /\ \A s, at, left : Progress(s, at, left) => Progress(s, at, left)'
         /\ \A s : AllDone(s) => AllDone(s)'
<1>1. \A s, t : TableDone(s, t)' <=> TableDone(s, t)
  BY DEF TableDone, KeyNames
<1>2. \A s, left : TablesDone(s, left)' <=> TablesDone(s, left)
  BY <1>1 DEF TablesDone, Work
<1>3. \A at, s, left : LinksDone(at, s, left)' <=> LinksDone(at, s, left)
  BY DEF LinksDone
<1> QED
  BY <1>2, <1>3 DEF Progress, AllDone

\* A settled schema's files stay done, also while they are written again.
LEMMA SettledStays ==
  ASSUME TypeOK, IdemInv, [Next]_vars, Running, settled # NoFile, settled' = settled
  PROVE  AllDone(settled)'
<1>1. disc.schema = settled
  BY DEF IdemInv
<1>2. UNCHANGED <<tables, columns, rels>>
  BY <1>1, NothingNew
<1>3. AllDone(settled)
  BY DEF IdemInv
<1> QED
  BY <1>2, <1>3 DEF AllDone, TablesDone, LinksDone, TableDone, KeyNames, Work, FileOf

\* Every step of both commands keeps what idempotence rests on.
LEMMA IdemStep == TypeOK /\ IdemInv /\ [Next]_vars => IdemInv'
<1> SUFFICES ASSUME TypeOK, IdemInv, [Next]_vars PROVE IdemInv'
  OBVIOUS
<1> DEFINE s == disc.schema
<1>0. Running => s \in Schemas /\ disc.at \in Stages /\ disc.left \subseteq Work(disc.at, s)
  BY IdleFacts DEF TypeOK, Running
<1>1. patterns' = patterns => \A p, q \in patterns' : Id(p)' = Id(q)' => p = q
  BY DEF IdemInv, Id
<1>2. rels' = rels => \A f, g \in rels' : f.pair = g.pair => f = g
  BY DEF IdemInv
<1>3. ASSUME NEW z \in Schemas, StartDiscover(z) PROVE IdemInv'
  <2>1. disc' = Writing("schema", z, Work("schema", z)) /\ UNCHANGED <<tables, columns, rels, patterns>>
    BY <1>3 DEF StartDiscover, NextStage
  <2>2. disc'.at = "schema" /\ disc'.schema = z /\ disc'.left = Work("schema", z)
    BY <2>1, WritingFacts
  <2>3. Progress(disc.schema, disc.at, disc.left)'
    BY <2>2 DEF Progress, TablesDone, Work
  <2>4. settled' \in {z, NoFile} /\ (settled' # NoFile => settled' = settled)
    BY <1>3 DEF StartDiscover
  <2>5. settled' # NoFile => AllDone(settled)'
    BY <2>1, <2>4 DEF IdemInv, AllDone, TablesDone, LinksDone, TableDone, KeyNames, Work, FileOf
  <2> QED
    BY <1>1, <1>2, <2>1, <2>2, <2>3, <2>4, <2>5 DEF IdemInv
<1>4. ASSUME NEW t \in disc.left, WriteTable(t) PROVE IdemInv'
  <2>1. Running /\ disc.at = "schema" /\ t \in Work("schema", s)
    BY <1>0, <1>4 DEF WriteTable, Running
  <2>2. disc'.at = "schema" /\ disc'.schema = s /\ disc'.left = disc.left \ {t}
    BY <1>4, <2>1, LessLeft DEF WriteTable, TypeOK, DiscTyped
  <2>3. t \in Tables
    BY <1>0, <2>1, SchemaFacts DEF Work
  <2>4. tables' = [tables EXCEPT ![t] = KeyNames(s, t)] /\ columns' = columns \cup OwnColumns(t)
    BY <1>4 DEF WriteTable, PutTable, KeyNames
  <2>5. tables'[t] = KeyNames(s, t) /\ \A u : u # t => tables'[u] = tables[u]
    BY <2>3, <2>4 DEF TypeOK
  <2>6. \A u \in Work("schema", s) \ (disc.left \ {t}) :
          tables'[u] = KeyNames(s, u) /\ \A c \in s.cols : c[1] = u => c \in columns'
    BY <2>1, <2>4, <2>5 DEF IdemInv, Progress, TablesDone, TableDone, OwnColumns
  <2>7. Progress(disc.schema, disc.at, disc.left)'
    BY <2>2, <2>6 DEF Progress, TablesDone, TableDone, KeyNames, Work
  <2>8. UNCHANGED <<rels, patterns, settled>>
    BY <1>4 DEF WriteTable
  <2> QED
    BY <1>1, <1>2, <2>1, <2>2, <2>7, <2>8, SettledStays DEF IdemInv
<1>5. ASSUME NEW p \in disc.left, WriteRel(p) PROVE IdemInv'
  <2>1. Running /\ disc.at \in {"declared", "inferred"} /\ s \in Schemas /\ p \in Work(disc.at, s)
    BY <1>0, <1>5 DEF WriteRel, Running
  <2>2. disc'.at = disc.at /\ disc'.schema = s /\ disc'.left = disc.left \ {p}
    BY <1>5, <2>1, LessLeft DEF WriteRel, TypeOK, DiscTyped
  <2> DEFINE file == FileOf(disc.at, s, p)
  <2>3. file.pair = p
    BY <2>1, FileFacts
  <2>4. rels' = {f \in rels : f.pair # p} \cup {file} /\ UNCHANGED <<tables, columns, patterns, settled>>
    BY <1>5, <2>1 DEF WriteRel, FileOf
  <2> HIDE DEF file
  <2>5. \A f, g \in rels' : f.pair = g.pair => f = g
    BY <2>3, <2>4 DEF IdemInv
  <2>6. \A at \in {"declared", "inferred"} : \A q \in Work(at, s) :
          q # p /\ FileOf(at, s, q) \in rels => FileOf(at, s, q) \in rels'
    BY <2>1, <2>4, FileFacts
  <2>7. TablesDone(s, {})
    BY <2>1 DEF IdemInv, Progress
  <2>8. \A u \in Work("schema", s) :
          tables'[u] = KeyNames(s, u) /\ \A c \in s.cols : c[1] = u => c \in columns'
    BY <2>4, <2>7 DEF TablesDone, TableDone
  <2>9. \A q \in Work(disc.at, s) \ (disc.left \ {p}) : FileOf(disc.at, s, q) \in rels'
    BY <2>1, <2>4, <2>6 DEF IdemInv, Progress, LinksDone, file
  <2>10. disc.at = "inferred" => \A q \in Work("declared", s) : FileOf("declared", s, q) \in rels'
    BY <2>1, <2>6, StagesApart DEF IdemInv, Progress, LinksDone
  <2>11. Progress(disc.schema, disc.at, disc.left)'
    BY <2>1, <2>2, <2>8, <2>9, <2>10 DEF Progress, TablesDone, LinksDone, TableDone, KeyNames, Work, FileOf
  <2> QED
    BY <1>1, <2>1, <2>2, <2>4, <2>5, <2>11, SettledStays DEF IdemInv
<1>6. ASSUME EndStage PROVE IdemInv'
  <2>1. Running /\ disc.left = {} /\ UNCHANGED <<tables, columns, rels, patterns>>
    BY <1>6 DEF EndStage
  <2>2. s \in Schemas /\ disc.at \in Stages /\ Progress(s, disc.at, {})
    BY <1>0, <2>1 DEF IdemInv
  <2>3. CASE disc.at = "inferred"
    <3>1. disc' = Idle /\ settled' = s
      BY <1>6, <2>3 DEF EndStage, NextStage
    <3>2. AllDone(s)
      BY <2>2, <2>3 DEF Progress, AllDone
    <3>3. AllDone(settled)'
      BY <2>1, <3>1, <3>2 DEF AllDone, TablesDone, LinksDone, TableDone, KeyNames, Work, FileOf
    <3> QED
      BY <1>1, <1>2, <2>1, <3>1, <3>3, IdleFacts DEF IdemInv, Running
  <2>4. CASE disc.at \in {"schema", "declared"}
    <3> DEFINE next == NextStage[disc.at]
    <3>1. next = IF disc.at = "schema" THEN "declared" ELSE "inferred"
      BY <2>4 DEF NextStage
    <3>2. disc' = Writing(next, s, Work(next, s)) /\ settled' = settled
      BY <1>6, <3>1 DEF EndStage
    <3> HIDE DEF next
    <3>3. disc'.at = next /\ disc'.schema = s /\ disc'.left = Work(next, s)
      BY <3>2, WritingFacts
    <3>4. TablesDone(s, {}) /\ (disc.at = "declared" => LinksDone("declared", s, {}))
      BY <2>2, <2>4 DEF Progress
    <3>5. Progress(disc.schema, disc.at, disc.left)'
      BY <2>1, <2>4, <3>1, <3>3, <3>4
         DEF Progress, TablesDone, LinksDone, TableDone, KeyNames, Work, FileOf
    <3> QED
      BY <1>1, <1>2, <2>1, <3>2, <3>3, <3>5, SettledStays DEF IdemInv
  <2> QED
    BY <2>2, <2>3, <2>4 DEF Stages
<1>7. ASSUME DieDiscover PROVE IdemInv'
  <2>1. Running /\ disc' = Idle /\ UNCHANGED <<rels, patterns, settled>>
    BY <1>7 DEF DieDiscover
  <2> QED
    BY <1>1, <1>2, <2>1, SettledStays, IdleFacts DEF IdemInv, Running
<1>8. ASSUME UNCHANGED <<tables, columns, rels, disc, settled>>,
             \A p, q \in patterns' : Id(p) = Id(q) => p = q
      PROVE  IdemInv'
  <2>1. Running' => settled' \in {disc'.schema, NoFile} /\ Progress(disc.schema, disc.at, disc.left)'
    BY <1>8 DEF IdemInv, Running, Progress, TablesDone, LinksDone, TableDone, KeyNames, Work, FileOf
  <2>2. settled' # NoFile => AllDone(settled)'
    BY <1>8 DEF IdemInv, AllDone, TablesDone, LinksDone, TableDone, KeyNames, Work, FileOf
  <2> QED
    BY <1>2, <1>8, <2>1, <2>2 DEF IdemInv, Id
<1>9. ASSUME NEW p \in det.left, WritePattern(p) PROVE IdemInv'
  <2>1. \A x, y \in patterns' : Id(x) = Id(y) => x = y
    BY <1>9 DEF WritePattern, IdemInv
  <2> QED
    BY <1>8, <1>9, <2>1 DEF WritePattern
<1>10. CASE StartDetect \/ DieDetect \/ UNCHANGED vars
  <2>1. UNCHANGED <<tables, columns, rels, disc, settled, patterns>>
    BY <1>10 DEF StartDetect, DieDetect, vars
  <2> QED
    BY <1>8, <2>1 DEF IdemInv
<1> QED
  BY <1>3, <1>4, <1>5, <1>6, <1>7, <1>9, <1>10 DEF Next, Discover, Detect

\* FR-016: discovering a schema again, when its discovery last ran to the end,
\* changes no file; nor does detecting again the patterns that are on disk.
THEOREM DiscoveryIsIdempotent == Spec => RerunIsIdempotent
<1>1. Init => IdemInv
  BY IdleFacts DEF Init, IdemInv, Running
<1>2. TypeOK /\ IdemInv /\ [Next]_vars
        => [/\ Running /\ disc.schema = settled => UNCHANGED <<tables, columns, rels>>
            /\ det.found \subseteq patterns => UNCHANGED patterns]_vars
  <2> SUFFICES ASSUME TypeOK, IdemInv, [Next]_vars
               PROVE  /\ Running /\ disc.schema = settled => UNCHANGED <<tables, columns, rels>>
                      /\ det.found \subseteq patterns => UNCHANGED patterns
    OBVIOUS
  <2>1. ASSUME det.found \subseteq patterns, NEW p \in det.left, WritePattern(p) PROVE patterns' = patterns
    <3>1. p \in patterns
      BY <2>1 DEF TypeOK
    <3>2. \A q \in patterns : Id(q) = Id(p) => q = p
      BY <3>1 DEF IdemInv
    <3> QED
      BY <2>1, <3>1, <3>2 DEF WritePattern
  <2>2. (\E p \in det.left : WritePattern(p)) \/ patterns' = patterns
    BY DEF Next, Discover, Detect, StartDiscover, WriteTable, WriteRel, EndStage, StartDetect,
           DieDiscover, DieDetect, vars
  <2> QED
    BY <2>1, <2>2, NothingNew
<1> QED
  BY <1>1, <1>2, IdemStep, TypeCorrect, PTL DEF Spec, RerunIsIdempotent

-----------------------------------------------------------------------------
(* The evidence for a relationship *)

\* A pair that is tried and of one type is Strong unless the values contradict it, and Weak
\* otherwise: the ratio that corroborates and its guards never decide.
LEMMA EvidenceDecides ==
  ASSUME NEW s, NEW p
  PROVE  Tag(Compatible(s, p), Evidence(s, p)) =
           IF Compatible(s, p) /\ ~Contradicted(s, p) THEN "Strong" ELSE "Weak"
<1> DEFINE fk == Sample(s, p[1], FkBudget)
           pk == Sample(s, p[2], PkBudget)
<1>1. Overlap(fk, pk) = "failed" <=> Contradicted(s, p)
  <2> HIDE DEF fk, pk
  <2> QED
    BY DEF Overlap, Contradicted, fk, pk
<1>2. CASE Compatible(s, p)
  BY <1>1, <1>2 DEF Tag, Evidence
<1>3. CASE ~Compatible(s, p)
  BY <1>3 DEF Tag, Evidence
<1> QED
  BY <1>2, <1>3

\* What the two link stages write is what the source says.
LEMMA WrittenIsSaid ==
  ASSUME NEW s \in Schemas
  PROVE  /\ \A p \in DOMAIN s.fk :
              LET f == DeclaredFile(s, p) IN <<f.pair, f.conf>> \in Said
         /\ \A p \in Inferred(s) :
              LET f == InferredFile(s, p) IN <<f.pair, f.conf>> \in Said
<1>1. Sayings(s) \subseteq Said
  BY DEF Said
<1>2. ASSUME NEW p \in DOMAIN s.fk PROVE <<p, "Explicit">> \in Sayings(s)
  BY <1>2 DEF Sayings
<1>3. ASSUME NEW p \in Inferred(s)
      PROVE  <<p, Tag(Compatible(s, p), Evidence(s, p))>> \in Sayings(s)
  <2>1. CASE Compatible(s, p) /\ ~Contradicted(s, p)
    BY <1>3, <2>1, EvidenceDecides DEF Sayings
  <2>2. CASE ~(Compatible(s, p) /\ ~Contradicted(s, p))
    BY <1>3, <2>2, EvidenceDecides DEF Sayings
  <2> QED
    BY <2>1, <2>2
<1> QED
  BY <1>1, <1>2, <1>3 DEF DeclaredFile, InferredFile

\* Whatever the source becomes and wherever a discovery is killed, a relationship on disk has the
\* confidence that some source's declarations, types and values give it.
THEOREM LinksAreBorneOut == Spec => []LinksBorneOut
<1>1. Init => LinksBorneOut
  BY DEF Init, LinksBorneOut
<1>2. TypeOK /\ LinksBorneOut /\ [Next]_vars => LinksBorneOut'
  <2> SUFFICES ASSUME TypeOK, LinksBorneOut, [Next]_vars, rels' # rels PROVE LinksBorneOut'
    BY DEF LinksBorneOut
  <2>1. PICK p \in disc.left : WriteRel(p)
    BY DEF Next, vars, Discover, Detect, StartDiscover, WriteTable, EndStage, StartDetect,
           WritePattern, DieDiscover, DieDetect
  <2>2. disc.schema \in Schemas /\ p \in Work(disc.at, disc.schema)
    BY <2>1, IdleFacts DEF TypeOK, WriteRel
  <2>3. PICK f : /\ rels' = {g \in rels : g.pair # p} \cup {f} /\ <<f.pair, f.conf>> \in Said
    <3>1. CASE disc.at = "declared"
      BY <2>1, <2>2, <3>1, WrittenIsSaid DEF WriteRel, Work
    <3>2. CASE disc.at = "inferred"
      BY <2>1, <2>2, <3>2, WrittenIsSaid DEF WriteRel, Work
    <3> QED
      BY <2>1, <3>1, <3>2 DEF WriteRel
  <2> QED
    BY <2>3 DEF LinksBorneOut
<1> QED
  BY <1>1, <1>2, TypeCorrect, PTL DEF Spec

\* A sample is finite, and a longer one has the values of a shorter.
LEMMA LongerSample ==
  ASSUME NEW s \in Schemas, NEW c \in s.cols, NEW m \in Nat, NEW n \in Nat, m <= n
  PROVE  Sample(s, c, m) \subseteq Sample(s, c, n) /\ IsFiniteSet(Sample(s, c, n))
<1>1. s.rows[c] \in Seq(Int)
  BY SchemasAssumption DEF IsSchema
<1> DEFINE at == {j \in DOMAIN s.rows[c] : j <= n}
<1>2. IsFiniteSet(at)
  <2>1. IsFiniteSet(1 .. n)
    <3>1. 1 \in Int /\ n \in Int
      OBVIOUS
    <3> QED
      BY <3>1, FS_Interval
  <2>2. at \subseteq 1 .. n
    BY <1>1
  <2> QED
    BY <2>1, <2>2, FS_Subset
<1>3. IsFiniteSet({s.rows[c][i] : i \in at})
  <2> DEFINE values == {s.rows[c][i] : i \in at}
             read == [i \in at |-> s.rows[c][i]]
  <2> HIDE DEF at
  <2>1. read \in Surjection(at, values)
    BY DEF Surjection
  <2> HIDE DEF values, read
  <2>2. IsFiniteSet(values)
    BY <1>2, <2>1, FS_Surjection DEF ExistsSurjection
  <2> QED
    BY <2>2 DEF values
<1>4. Sample(s, c, m) \subseteq Sample(s, c, n)
  BY <1>1 DEF Sample
<1> QED
  BY <1>3, <1>4 DEF Sample

\* Reading more rows of the parent never makes a Strong relationship Weak, so the budget of 200
\* rows errs to one side: a Weak link of one type may only be short of parent rows.
THEOREM ParentRowsOnlyPromote ==
  ASSUME NEW s \in Schemas, NEW c \in s.cols, NEW d \in s.cols,
         NEW m \in Nat, NEW n \in Nat, m <= n, Sample(s, d, m) # {},
         Tag(TRUE, Overlap(Sample(s, c, FkBudget), Sample(s, d, m))) = "Strong"
  PROVE  Tag(TRUE, Overlap(Sample(s, c, FkBudget), Sample(s, d, n))) = "Strong"
<1> DEFINE fk == Sample(s, c, FkBudget)
           few == Sample(s, d, m)
           more == Sample(s, d, n)
<1>1. FkBudget \in Nat /\ FailedMax \in Nat
  BY BoundsAssumption
<1>2. few \subseteq more /\ few # {} /\ IsFiniteSet(more) /\ IsFiniteSet(fk)
  BY <1>1, LongerSample
<1> HIDE DEF fk, few, more
<1> DEFINE both == Cardinality(fk \cap few)
           all == Cardinality(fk)
           now == Cardinality(fk \cap more)
<1>3. IsFiniteSet(fk \cap more) /\ fk \cap few \subseteq fk \cap more
  BY <1>2, FS_Subset
<1>4. both \in Nat /\ now \in Nat /\ all \in Nat /\ both <= now
  BY <1>2, <1>3, FS_Subset, FS_CardinalityType
<1>5. CASE fk = {}
  BY <1>5 DEF Tag, Overlap, fk, more
<1>6. CASE fk # {}
  <2>1. ~(100 * both <= FailedMax * all)
    BY <1>2, <1>6 DEF Tag, Overlap, fk, few
  <2>2. ~(100 * now <= FailedMax * all)
    <3> DEFINE most == FailedMax * all
    <3>1. most \in Int
      BY <1>1, <1>4
    <3> HIDE DEF most, both, now
    <3>2. ~(100 * both <= most)
      BY <2>1 DEF most
    <3> QED
      BY <1>4, <3>1, <3>2 DEF most
  <2>3. Overlap(fk, more) # "failed"
    BY <2>2 DEF Overlap
  <2> QED
    BY <2>3 DEF Tag, fk, more
<1> QED
  BY <1>5, <1>6
=============================================================================
