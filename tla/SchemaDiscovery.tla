--------------------------- MODULE SchemaDiscovery ---------------------------
(***************************************************************************)
(* From the source's schema to the schema part of the bundle and the       *)
(* pattern catalog: `dla discover` (discovery/engine.py, relationships.py, *)
(* tagger.py) and `dla patterns detect` (patterns/).  The source changes   *)
(* between runs and a run can be killed between two files.  Neither        *)
(* command ever removes a file, so what it reads back has accumulated.     *)
(***************************************************************************)
EXTENDS Naturals, Integers, Sequences, FiniteSets

CONSTANTS
  Tables,       \* tables, those of unconfigured schemas included
  Scope,        \* tables of the configured schemas: what is introspected
  Names,        \* column names
  Order,        \* the sorted order of tables and columns
  Naming,       \* <<column name, table>>: the name looks like a key of the table
  Audit,        \* the audit-column names
  Schemas,      \* what the source can be from one run to the next
  NoFile,       \* "the file does not exist"
  Unnamed,      \* a constraint without a name
  FkBudget, PkBudget,               \* rows sampled on either side (50, 200)
  FailedMax, MinRatio,              \* thresholds of the overlap, in percent
  MinDistinct, DenseMax,            \* what makes an overlap selective
  MaxDeaths     \* bound: how often a command is killed

Columns == Tables \X Names
Pairs == Columns \X Columns      \* <<from column, to column>>

(* A schema: the columns, those in primary keys, the declared foreign keys
   with their constraint's name, the columns' normalized types, and the
   non-null values of each column in sampling order. *)
IsSchema(s) ==
  /\ s.cols \subseteq Scope \X Names
  /\ s.pk \subseteq s.cols
  /\ DOMAIN s.fk \subseteq Pairs
  /\ \A p \in DOMAIN s.fk : p[1] \in s.cols /\ (p[2][1] \in Scope => p[2] \in s.cols)
  /\ \A c \in s.cols : s.rows[c] \in Seq(Int)

ASSUME ScopeAssumption == Scope \subseteq Tables
ASSUME SchemasAssumption == \A s \in Schemas : IsSchema(s)
ASSUME AuditAssumption == Audit \cap Tables = {}
ASSUME BoundsAssumption ==
  {FkBudget, PkBudget, FailedMax, MinRatio, MinDistinct, DenseMax, MaxDeaths} \subseteq Nat
ASSUME NoFileAssumption == (\A ns \in SUBSET Names : ns # NoFile) /\ NoFile \notin Schemas

VARIABLES
  tables,    \* [Tables -> SUBSET Names \cup {NoFile}]  table files: the pk_columns
  columns,   \* column files
  rels,      \* relationship files, each under the pair of columns that is its id
  patterns,  \* pattern files
  disc,      \* the discovery that is running
  det,       \* the pattern detection: what it found, and what is left to write
  settled,   \* history: the schema whose discovery last ran to its end, or NoFile
  deaths     \* how often a command has been killed

vars == <<tables, columns, rels, patterns, disc, det, settled, deaths>>

-----------------------------------------------------------------------------
(* Relationship inference *)

\* _name_match: `customer_id` looks like a key of `customers`.
LooksLike(n, t) == <<n, t>> \in Naming

DeclaredFrom(s) == {p[1] : p \in DOMAIN s.fk}

\* pk_index: the primary keys of one column.
SinglePks(s) == {c \in s.pk : \A d \in s.pk : d[1] = c[1] => d = c}

\* A bug: a column that declares a foreign key is tried again.
InferredAnyway(s) ==
  {p \in (s.cols \ s.pk) \X SinglePks(s) :
     p[1][1] # p[2][1] /\ LooksLike(p[1][2], p[2][1])}

\* The pairs tried: no key column, no column that declares a foreign key.
Inferred(s) ==
  {p \in (s.cols \ (s.pk \cup DeclaredFrom(s))) \X SinglePks(s) :
     p[1][1] # p[2][1] /\ LooksLike(p[1][2], p[2][1])}

Compatible(s, p) ==
  s.type[p[1]] = s.type[p[2]] /\ s.type[p[1]] \in {"integer", "string", "decimal"}

\* sample_column: the first rows, in the order of the primary key.
Sample(s, c, n) == {s.rows[c][i] : i \in {j \in DOMAIN s.rows[c] : j <= n}}

\* _is_dense_int_range: (nearly) all of 0 .. DenseMax between its ends.
Dense(vs) ==
  /\ vs # {}
  /\ \A v \in vs : v \in 0 .. DenseMax
  /\ \E lo, hi \in vs : /\ \A v \in vs : lo <= v /\ v <= hi
                        /\ 100 * Cardinality(vs) >= 90 * (hi - lo + 1)

\* _evaluate_overlap on the two sides' sampled values.
Overlap(fk, pk) ==
  LET both == Cardinality(fk \cap pk)
      all == Cardinality(fk)
  IN  IF fk = {} \/ pk = {} THEN "unknown"
      ELSE IF 100 * both <= FailedMax * all THEN "failed"
      ELSE IF 100 * both < MinRatio * all THEN "unknown"
      ELSE IF all < MinDistinct \/ Dense(fk \cap pk) THEN "low_selectivity"
      ELSE "supported"

Evidence(s, p) ==
  IF Compatible(s, p) THEN Overlap(Sample(s, p[1], FkBudget), Sample(s, p[2], PkBudget))
  ELSE "unknown"

\* A bug: a failed overlap is neutral.
Undemoted(typed, overlap) == IF typed \/ overlap = "supported" THEN "Strong" ELSE "Weak"

\* tag_inferred with a name that matches: a failed overlap demotes, and two
\* positive signals or a supported overlap promote.
Tag(typed, overlap) ==
  IF overlap # "failed" /\ (typed \/ overlap = "supported") THEN "Strong" ELSE "Weak"

\* _composite_groups: the columns of one named constraint with several.
Grouped(s, p) ==
  /\ s.fk[p] # Unnamed
  /\ \E q \in DOMAIN s.fk \ {p} :
       q[1][1] = p[1][1] /\ q[2][1] = p[2][1] /\ s.fk[q] = s.fk[p]

DeclaredFile(s, p) == [pair |-> p, conf |-> "Explicit", grouped |-> Grouped(s, p)]
InferredFile(s, p) ==
  [pair |-> p, conf |-> Tag(Compatible(s, p), Evidence(s, p)), grouped |-> FALSE]
RelFiles == [pair : Pairs, conf : {"Explicit", "Strong", "Weak"}, grouped : BOOLEAN]

-----------------------------------------------------------------------------
(* Pattern detection on the graph of the bundle (patterns/base.py) *)

Linked == {p \in {f.pair : f \in rels} : p[1][1] # p[2][1]}   \* no self-reference
Targets(t) == {p[2][1] : p \in {q \in Linked : q[1][1] = t}}
Sources(t) == {p[1][1] : p \in {q \in Linked : q[2][1] = t}}      \* referenced_by
FkNames(t) == {p[1][2] : p \in {q \in Linked : q[1][1] = t}}      \* fk_source_cols
ColNames(t) == {c[2] : c \in {d \in columns : d[1] = t}}
Discovered == {t \in Tables : tables[t] # NoFile}

\* non_key_column_count, which never goes below zero.
NonKeys(t) ==
  LET keys == Cardinality(FkNames(t) \cup tables[t])
      all == Cardinality(ColNames(t))
  IN  IF all > keys THEN all - keys ELSE 0

\* Referenced by three tables or more and mostly attributes of its own.
MasterData(t) ==
  /\ Cardinality(Sources(t)) >= 3
  /\ 2 * Cardinality(FkNames(t)) < Cardinality(ColNames(t)) \/ ColNames(t) = {}

Linking == {t \in Discovered : Cardinality(Targets(t)) >= 2}
Facts == {t \in Linking : NonKeys(t) >= 2 /\ ~MasterData(t)}

Pattern(type, t, d, refs) == [type |-> type, table |-> t, dim |-> d, refs |-> refs]
Patterns == [type : {"star", "snowflake", "junction", "audit"}, table : Tables, dim : Tables,
             refs : (SUBSET Tables) \cup (SUBSET Audit)]
Stars == {Pattern("star", t, t, Targets(t)) : t \in Facts}
Normalized(t) == {d \in Targets(t) : Targets(d) \ {t} # {}}
Snowflakes ==
  UNION {{Pattern("snowflake", t, d, Targets(d) \ {t}) : d \in Normalized(t)} : t \in Facts}
Junctions == {Pattern("junction", t, t, Targets(t)) : t \in {u \in Linking : NonKeys(u) <= 1}}
Audited == {Pattern("audit", t, t, ColNames(t) \cap Audit) :
              t \in {u \in Discovered : Cardinality(ColNames(u) \cap Audit) >= 2}}
Found == Stars \cup Snowflakes \cup Junctions \cup Audited

\* A bug: the table left out of the id.
Headless(p) == <<p.type, p.refs>>

\* _artifact_id: the type and a hash of the sorted participants.
Id(p) == <<p.type, {p.table, p.dim} \cup p.refs>>

\* No table reaches itself: edges go down some ranking of the tables.
Acyclic(edges) ==
  \E rank \in [Tables -> 0 .. Cardinality(Tables)] : \A e \in edges : rank[e[2]] < rank[e[1]]
Edges == {<<p[1][1], p[2][1]>> : p \in Linked}

-----------------------------------------------------------------------------
(* `dla discover` *)

Idle == [at |-> "idle", schema |-> NoFile, left |-> {}]
Stages == {"schema", "declared", "inferred"}
Writing(at, s, left) == [at |-> at, schema |-> s, left |-> left]
Running == disc.at # "idle"

\* The stage after each one; a bug: the relationships first.
LinksFirst == [idle |-> "declared", declared |-> "inferred", inferred |-> "schema", schema |-> "idle"]
NextStage == [idle |-> "schema", schema |-> "declared", declared |-> "inferred", inferred |-> "idle"]

\* What each stage writes.
Work(at, s) ==
  CASE at = "schema"   -> {c[1] : c \in s.cols}
    [] at = "declared" -> DOMAIN s.fk
    [] at = "inferred" -> Inferred(s)

Init ==
  /\ tables = [t \in Tables |-> NoFile]
  /\ columns = {}
  /\ rels = {}
  /\ patterns = {}
  /\ disc = Idle
  /\ det = [left |-> {}, found |-> {}, acyclic |-> TRUE]
  /\ settled = NoFile
  /\ deaths = 0

\* Connect, introspect, sample and infer, from what the source has become by
\* now: nothing is written until all has been read, so that a failure up to here
\* (or --dry-run) leaves the bundle alone.
StartDiscover(s) ==
  /\ ~Running /\ det.left = {}
  /\ disc' = Writing(NextStage["idle"], s, Work(NextStage["idle"], s))
  /\ settled' = IF settled = s THEN s ELSE NoFile
  /\ UNCHANGED <<tables, columns, rels, patterns, det, deaths>>

First(x) == \A y \in disc.left : Order[x] <= Order[y]
FirstPair(p) ==
  \A q \in disc.left : \/ Order[p[1]] < Order[q[1]]
                       \/ p[1] = q[1] /\ Order[p[2]] <= Order[q[2]]

\* A bug: columns that are gone are removed.
PutAfresh(t, cs) ==
  /\ tables' = [tables EXCEPT ![t] = {c[2] : c \in {d \in disc.schema.pk : d[1] = t}}]
  /\ columns' = {c \in columns : c[1] # t} \cup cs

\* The table's file and those of the columns cs.
PutTable(t, cs) ==
  /\ tables' = [tables EXCEPT ![t] = {c[2] : c \in {d \in disc.schema.pk : d[1] = t}}]
  /\ columns' = columns \cup cs
OwnColumns(t) == {c \in disc.schema.cols : c[1] = t}

\* A table and, one after the other, its columns: nobody reads in between.
WriteTable(t) ==
  /\ disc.at = "schema" /\ t \in disc.left /\ First(t)
  /\ PutTable(t, OwnColumns(t))
  /\ disc' = [disc EXCEPT !.left = @ \ {t}]
  /\ UNCHANGED <<rels, patterns, det, settled, deaths>>

WriteRel(p) ==
  /\ disc.at \in {"declared", "inferred"} /\ p \in disc.left /\ FirstPair(p)
  /\ rels' = {f \in rels : f.pair # p}
               \cup {IF disc.at = "declared" THEN DeclaredFile(disc.schema, p)
                     ELSE InferredFile(disc.schema, p)}
  /\ disc' = [disc EXCEPT !.left = @ \ {p}]
  /\ UNCHANGED <<tables, columns, patterns, det, settled, deaths>>

\* A stage is written: the next one, or the end of the command.
EndStage ==
  /\ Running /\ disc.left = {}
  /\ LET next == NextStage[disc.at]
     IN  IF next = "idle"
         THEN disc' = Idle /\ settled' = disc.schema
         ELSE disc' = Writing(next, disc.schema, Work(next, disc.schema)) /\ UNCHANGED settled
  /\ UNCHANGED <<tables, columns, rels, patterns, det, deaths>>

Discover == \/ \E s \in Schemas : StartDiscover(s)
            \/ \E x \in disc.left : WriteTable(x) \/ WriteRel(x)
            \/ EndStage

(* `dla patterns detect` *)

\* build_graph and the detectors.  A discovery that is killed leaves them any
\* part of a bundle; a running one would show them no more.
StartDetect ==
  /\ ~Running /\ det.left = {}
  /\ det' = [left |-> Found, found |-> Found, acyclic |-> Acyclic(Edges)]
  /\ UNCHANGED <<tables, columns, rels, patterns, disc, settled, deaths>>

\* The patterns in the order of the detectors and, within one, of the tables; each
\* replaces the file that has its id.
Detectors == [star |-> 1, snowflake |-> 2, junction |-> 3, audit |-> 4]
Before(p, q) ==
  \/ Detectors[p.type] < Detectors[q.type]
  \/ p.type = q.type /\ Order[p.table] < Order[q.table]
  \/ p.type = q.type /\ p.table = q.table /\ Order[p.dim] < Order[q.dim]

WritePattern(p) ==
  /\ p \in det.left /\ \A q \in det.left \ {p} : Before(p, q)
  /\ patterns' = {q \in patterns : Id(q) # Id(p)} \cup {p}
  /\ det' = [det EXCEPT !.left = @ \ {p}]
  /\ UNCHANGED <<tables, columns, rels, disc, settled, deaths>>

Detect == StartDetect \/ \E p \in det.left : WritePattern(p)

\* A command is killed, or an exception ends it: what is written stays, of the
\* table that was being written the columns up to one of them.
DieDiscover ==
  /\ Running /\ deaths < MaxDeaths
  /\ \/ UNCHANGED <<tables, columns>>
     \/ /\ disc.at = "schema"
        /\ \E t \in disc.left : /\ First(t)
                                /\ \E last \in OwnColumns(t) \cup {t} :
                                     PutTable(t, {c \in OwnColumns(t) : Order[c] <= Order[last]})
  /\ disc' = Idle
  /\ deaths' = deaths + 1
  /\ UNCHANGED <<rels, patterns, det, settled>>

DieDetect ==
  /\ det.left # {} /\ deaths < MaxDeaths
  /\ det' = [left |-> {}, found |-> {}, acyclic |-> TRUE]
  /\ deaths' = deaths + 1
  /\ UNCHANGED <<tables, columns, rels, patterns, disc, settled>>

Next == Discover \/ Detect \/ DieDiscover \/ DieDetect

Spec == Init /\ [][Next]_vars
-----------------------------------------------------------------------------
(* Properties *)

\* Every variable has its type.
TypeOK ==
  /\ tables \in [Tables -> {NoFile} \cup SUBSET Names]
  /\ columns \subseteq Columns
  /\ rels \subseteq RelFiles
  /\ patterns \subseteq Patterns
  /\ \/ disc = Idle
     \/ /\ disc.at \in Stages /\ disc.schema \in Schemas
        /\ disc = Writing(disc.at, disc.schema, disc.left)
        /\ disc.left \subseteq Work(disc.at, disc.schema)
  /\ det.left \subseteq det.found /\ det.found \subseteq Patterns /\ det.acyclic \in BOOLEAN
  /\ settled \in Schemas \cup {NoFile}
  /\ deaths \in 0 .. MaxDeaths

\* Wherever a discovery was killed and whatever the source has become, the ends
\* of every relationship in the bundle are columns in the bundle, of tables in
\* the bundle (the end outside the configured schemas apart): the order in which
\* discover writes, and build_graph indexing tables by a relationship's ends.
RefsResolve ==
  \A f \in rels : \A c \in {f.pair[1], f.pair[2]} :
    c[1] \in Scope => c \in columns /\ tables[c[1]] # NoFile

\* FR-016: discovering a schema again, when its discovery last ran to the end,
\* changes no file; nor does detecting again the patterns that are on disk.
RerunIsIdempotent ==
  [][/\ Running /\ disc.schema = settled => UNCHANGED <<tables, columns, rels>>
     /\ det.found \subseteq patterns => UNCHANGED patterns]_vars

\* The files of one detection do not replace one another: each pattern written
\* is on disk under its id, while the foreign keys of the bundle form no cycle.
PatternsKeepTheirFiles == det.acyclic => det.found \ det.left \subseteq patterns

\* What a pattern says of tables, columns and links is there.
Grounded(q) ==
  CASE q.type \in {"star", "junction"} -> q.refs \subseteq Targets(q.table)
    [] q.type = "snowflake" -> q.dim \in Targets(q.table) /\ q.refs \subseteq Targets(q.dim)
    [] q.type = "audit" -> q.refs \subseteq ColNames(q.table)
\* What the catalog says of tables, columns and links is there in the bundle,
\* old patterns included, whatever was discovered since.
CatalogGrounded == \A q \in patterns : Grounded(q)

\* Values were read on both sides and (nearly) none is on both.
Contradicted(s, p) ==
  LET fk == Sample(s, p[1], FkBudget)
      pk == Sample(s, p[2], PkBudget)
  IN  fk # {} /\ pk # {} /\ 100 * Cardinality(fk \cap pk) <= FailedMax * Cardinality(fk)

\* What one state of the source says of its links.
Sayings(s) ==
  LET believed == {p \in Inferred(s) : Compatible(s, p) /\ ~Contradicted(s, p)}
  IN  ((DOMAIN s.fk) \X {"Explicit"}) \cup (believed \X {"Strong"})
        \cup ((Inferred(s) \ believed) \X {"Weak"})
Said == UNION {Sayings(s) : s \in Schemas}

\* The confidence of every relationship in the bundle is what one state of the
\* source said of it, whatever was written before or killed since: Explicit what
\* was declared; Strong just the inferred links of one type that the values do
\* not contradict, whatever the thresholds of ratio and selectivity.
LinksBorneOut == \A f \in rels : <<f.pair, f.conf>> \in Said
=============================================================================
