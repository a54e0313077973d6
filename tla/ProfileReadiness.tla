-------------------------- MODULE ProfileReadiness --------------------------
(***************************************************************************)
(* From the rows of the source to the reviewer's queue: `dla profile`      *)
(* (profiling/) samples every column and writes one profile after the      *)
(* other, `dla readiness` (readiness/) turns profiles and foreign keys     *)
(* into numbered issues and a summary, and the review page (web/views.py)  *)
(* sorts the columns by what is wrong with them.  The source changes at    *)
(* any time, the two commands may overlap, and either can be killed.       *)
(***************************************************************************)
EXTENDS Integers, FiniteSets

CONSTANTS
  Tables, Columns,          \* columns are pairs <<table, name>>
  Type,                     \* normalized_type of each column
  Keys,                     \* relationships: pairs <<child column, parent column>>
  Order,                    \* the sorted order of ids: columns, tables, relationships
  Sources,                  \* what the source can be from one moment to the next
  Null,                     \* a null
  Others,                   \* types that are neither int nor text, and scales of theirs
  NoFile,                   \* "the file does not exist", "nothing known"
  Budget, HardCap,          \* rows sampled, rows of a full scan
  MaxDistinct,              \* distinct values counted at most
  NullHigh, NullCritical,   \* thresholds of the null rate, in percent
  ConstantInfo,             \* constant_column_severity_info
  MaxDeaths,                \* bounds: commands killed,
  MaxCommands, MaxChanges   \* commands started, changes of the source or the schema

\* A value is an int; a text, written as str(n) would ("7"), otherwise ("007") or in
\* digits that int() does not take (a superscript); or of another type, say a float or
\* a Decimal, which repr writes in a way of its own (7.0, Decimal('7')).
TextForms == {"text", "odd text", "unparsable text"}
Values == [as : {"int"} \cup TextForms \cup Others, n : Int]

(* A source: which tables answer, the columns that may not be read, those whose
   values cannot be ordered, the rows of each column in the order of the key, and
   the rows that the random blocks hit. *)
IsSource(s) ==
  /\ s.state \in [Tables -> {"open", "denied", "gone"}]
  /\ s.count \in [Tables -> Nat]
  /\ s.closed \subseteq Columns /\ s.unordered \subseteq Columns
  /\ \A c \in Columns :
       /\ DOMAIN s.rows[c] = 1 .. s.count[c[1]]
       /\ \A i \in DOMAIN s.rows[c] : s.rows[c][i] = Null \/ s.rows[c][i] \in Values
  /\ \A t \in Tables : s.blocks[t] \subseteq Nat

ASSUME NoFileAssumption == NoFile \notin Int /\ NoFile \notin {"critical", "warning", "info"}
ASSUME FiniteAssumption == IsFiniteSet(Tables) /\ IsFiniteSet(Columns)
ASSUME BoundsAssumption ==
  {Budget, HardCap, MaxDistinct, NullHigh, NullCritical, MaxDeaths, MaxCommands, MaxChanges} \subseteq Nat
ASSUME ColumnsAssumption == Columns \subseteq Tables \X {c[2] : c \in Columns}
ASSUME KeysAssumption == Keys \subseteq Columns \X Columns
ASSUME OthersAssumption == Others \cap ({"int"} \cup TextForms) = {}
ASSUME SourcesAssumption == \A s \in Sources : IsSource(s)
ASSUME OrderAssumption ==
  \A x, y \in Tables \cup Columns \cup Keys : Order[x] \in Int /\ (Order[x] = Order[y] => x = y)

VARIABLES
  source,    \* what a query would find
  known,     \* columns that have been discovered
  profiles,  \* [Columns -> profile or NoFile]
  issues,    \* issue files, each under its id <<type, number>>
  summary,   \* readiness.md: the issues it lists, or NoFile
  prof,      \* the `dla profile` that is running
  run,       \* the `dla readiness` that is running
  settled,   \* history: what the issues on disk were derived from, or NoFile
  parted,    \* history: tables whose last pass was cut short
  deaths, commands, changes

vars == <<source, known, profiles, issues, summary, prof, run, settled, parted, deaths, commands, changes>>

-----------------------------------------------------------------------------
(* Sampling and statistics *)

\* The first n of some rows.
FirstOf(rows, n) == {i \in rows : Cardinality({j \in rows : j < i}) < n}

Readable(s, c) == s.state[c[1]] = "open" /\ c \notin s.closed

\* row_count: -1 when the table cannot be counted.
RowCount(s, t) == IF s.state[t] = "open" THEN s.count[t] ELSE -1

HeadRows(s, c, n) == IF Readable(s, c) THEN FirstOf(DOMAIN s.rows[c], n) ELSE {}

\* The rows inspected: random blocks if the table is larger than the budget and
\* they can be read, however few they hit, else the head.
Sample(s, c, mode, count) ==
  IF mode = "full_scan" THEN HeadRows(s, c, HardCap)
  ELSE IF count > Budget /\ Readable(s, c)
       THEN FirstOf(s.blocks[c[1]] \cap DOMAIN s.rows[c], Budget)
       ELSE HeadRows(s, c, Budget)

NoCount == -1    \* distinct_count is None

\* A bug: the nulls of all rows, not of the sample.
StatsOfAll(s, c, rows) ==
  [size |-> Cardinality(rows),
   nulls |-> Cardinality({i \in DOMAIN s.rows[c] : s.rows[c][i] = Null}), distinct |-> NoCount]

\* compute_stats
Stats(s, c, rows) ==
  LET nonNull == {i \in rows : s.rows[c][i] # Null}
      distinct == Cardinality({s.rows[c][i] : i \in nonNull})
  IN  [size |-> Cardinality(rows), nulls |-> Cardinality(rows \ nonNull),
       distinct |-> IF distinct <= MaxDistinct THEN distinct ELSE NoCount]

NoStats(rows) == [size |-> Cardinality(rows), nulls |-> 0, distinct |-> NoCount]

Fails(s, c, rows) == c \in s.unordered /\ Cardinality({s.rows[c][i] : i \in rows} \ {Null}) > 1

Profile(s, c, mode, count) ==
  LET rows == Sample(s, c, mode, count)
  IN  [status |-> IF count < 0 THEN "unprofiled" ELSE IF Fails(s, c, rows) THEN "error" ELSE "profiled",
       stats |-> IF Fails(s, c, rows) THEN NoStats(rows) ELSE Stats(s, c, rows)]

\* The figures of one sample: the distinct values are among the non-nulls.
Figures == {st \in [size : Nat, nulls : Nat, distinct : Int] :
              /\ st.nulls <= st.size
              /\ st.distinct = NoCount \/ st.distinct \in 0 .. (st.size - st.nulls)}
Profiles == [status : {"profiled", "unprofiled", "error"}, stats : Figures]

-----------------------------------------------------------------------------
(* Readiness checks *)

Severities == {"critical", "warning", "info"}
Weight == [critical |-> 3, warning |-> 2, info |-> 1]
TypeOrder == [all_null_column |-> 1, broken_fk |-> 2, constant_column |-> 3, empty_table |-> 4,
              high_null_rate |-> 5, type_mismatch |-> 6, unprofiled |-> 7]
Issue(type, severity, on) == [type |-> type, severity |-> severity, on |-> on]
Issues == [type : DOMAIN TypeOrder, severity : Severities, on : Tables \cup Columns \cup Keys]

When(condition, x) == IF condition THEN {x} ELSE {}

AllNull(p) == p.stats.size > 0 /\ p.stats.nulls >= p.stats.size
Above(p) == 100 * p.stats.nulls > NullHigh * p.stats.size   \* a bug: the boundary left out
ManyNulls(p) == 100 * p.stats.nulls >= NullHigh * p.stats.size /\ (p.stats.size > 0 \/ NullHigh <= 0)
NullSeverity(p) == IF 100 * p.stats.nulls >= NullCritical * p.stats.size THEN "critical" ELSE "warning"
Constant(p) == p.stats.distinct = 1 /\ p.stats.size > 0 /\ p.stats.nulls < p.stats.size

\* check_column_from_profile
ColumnIssues(c, p) ==
  IF p.status # "profiled" THEN {Issue("unprofiled", "info", c)}
  ELSE When(AllNull(p), Issue("all_null_column", "critical", c))
       \cup When(ManyNulls(p) /\ ~AllNull(p), Issue("high_null_rate", NullSeverity(p), c))
       \cup When(Constant(p), Issue("constant_column", IF ConstantInfo THEN "info" ELSE "warning", c))

\* check_empty_table: no row was read for any column that has a profile.
Empty(t, read) ==
  LET own == {c \in read.known : c[1] = t /\ read.profiles[c] # NoFile}
  IN  own # {} /\ \A c \in own : read.profiles[c].stats.size = 0

\* check_type_mismatch
Mismatched(k) == Type[k[1]] # Type[k[2]] /\ "unknown" \notin {Type[k[1]], Type[k[2]]}

\* sample_column: non-null values only; it raises where sample_with_nulls gives none.
NonNullRows(s, c) == {i \in DOMAIN s.rows[c] : s.rows[c][i] # Null}
Sampled(s, c) ==
  IF s.state[c[1]] = "gone" THEN {} ELSE {s.rows[c][i] : i \in FirstOf(NonNullRows(s, c), Budget)}
Raises(s, c) == s.state[c[1]] # "gone" /\ ~Readable(s, c)

AllInts(vs) == \A v \in vs : v.as = "int"
AllTexts(vs) == \A v \in vs : v.as \in TextForms
Repr(v) == v                                          \* a bug: no coercion
\* _exact_int: a text is a number only in its canonical form; int() raises on digits
\* that it does not take, and the run ends there.
ExactInt(v) == IF v.as = "text" THEN [as |-> "int", n |-> v.n] ELSE v
Unparsable(v) == v.as = "unparsable text"

\* _comparison_keys: the text side is coerced when the other side is all integers;
\* all else is compared by repr, in which a type and another never agree.
Coerced(vs, others) == AllTexts(vs) /\ AllInts(others)
ComparisonKeys(vs, others) == IF Coerced(vs, others) THEN {ExactInt(v) : v \in vs} ELSE vs

\* check_broken_fk
Broken(s, k) ==
  LET child == Sampled(s, k[1])
      parent == Sampled(s, k[2])
  IN  /\ child # {} /\ parent # {}
      /\ ~ComparisonKeys(child, parent) \subseteq ComparisonKeys(parent, child)

\* A foreign key that cannot be checked: a side cannot be read, or a text not be parsed.
Unchecked(s, k) ==
  LET child == Sampled(s, k[1])
      parent == Sampled(s, k[2])
  IN  \/ Raises(s, k[1]) \/ Raises(s, k[2])
      \/ /\ child # {} /\ parent # {}
         /\ \/ Coerced(child, parent) /\ \E v \in child : Unparsable(v)
            \/ Coerced(parent, child) /\ \E v \in parent : Unparsable(v)

\* What a run reads: profiles, columns, and unless it is offline the source.
Reads(at) == [profiles |-> profiles, known |-> known, source |-> at]
Readings == [profiles : [Columns -> {NoFile} \cup Profiles], known : SUBSET Columns,
             source : {NoFile} \cup Sources]
KnownKeys(read) == {k \in Keys : k[1] \in read.known /\ k[2] \in read.known}
WithProfile(read) == {c \in read.known : read.profiles[c] # NoFile}

Detected(read) ==
  (UNION {ColumnIssues(c, read.profiles[c]) : c \in WithProfile(read)})
    \cup {Issue("empty_table", "critical", t) : t \in {u \in Tables : Empty(u, read)}}
    \cup {Issue("type_mismatch", "warning", k) : k \in {l \in KnownKeys(read) : Mismatched(l)}}
    \cup {Issue("broken_fk", "critical", k) :
            k \in {l \in KnownKeys(read) : read.source # NoFile /\ Broken(read.source, l)}}

Filtered(found, min) == {i \in found : Weight[i.severity] >= Weight[min]}

\* A bug: types before severities.
ByType(i, j) ==
  \/ TypeOrder[i.type] < TypeOrder[j.type]
  \/ i.type = j.type /\ Weight[i.severity] > Weight[j.severity]
  \/ i.type = j.type /\ i.severity = j.severity /\ Order[i.on] < Order[j.on]

\* The sort: the gravest first, then by type and by what is affected.
Before(i, j) ==
  \/ Weight[i.severity] > Weight[j.severity]
  \/ i.severity = j.severity /\ TypeOrder[i.type] < TypeOrder[j.type]
  \/ i.severity = j.severity /\ i.type = j.type /\ Order[i.on] < Order[j.on]

Unnumbered(i, all) == 1                               \* a bug: the type alone
\* The number of an issue in its run, which with its type is its id.
Number(i, all) == Cardinality({j \in all : Before(j, i)}) + 1
File(i, all) == [id |-> <<i.type, Number(i, all)>>, issue |-> i]
Files == [id : (DOMAIN TypeOrder) \X Int, issue : Issues]

-----------------------------------------------------------------------------
(* The review queue *)

Descriptions == {"none", "declined", "weak", "strong", "reviewed"}

\* _queue_item: what calls for attention, and where the column is sorted.
Attention(c, desc) ==
  {f.issue.type : f \in {g \in issues : \/ g.issue.on = c
                                        \/ g.issue.on \in Keys /\ c \in {g.issue.on[1], g.issue.on[2]}}}
    \cup When(profiles[c] # NoFile /\ profiles[c].status # "profiled", "unprofiled")
    \cup ({desc} \cap {"none", "declined", "weak"})
Priority(c, desc) == IF desc = "reviewed" THEN 4 ELSE IF Attention(c, desc) # {} THEN 0 ELSE 2

-----------------------------------------------------------------------------
(* `dla profile` *)

NoProf == [left |-> {}, mode |-> NoFile, counts |-> [t \in Tables |-> NoFile]]
NoRun == [left |-> {}, all |-> {}, read |-> NoFile, min |-> NoFile]
Assembling == run.min # NoFile

Init ==
  /\ source \in Sources
  /\ known = {}
  /\ profiles = [c \in Columns |-> NoFile]
  /\ issues = {}
  /\ summary = NoFile
  /\ prof = NoProf
  /\ run = NoRun
  /\ settled = NoFile
  /\ parted = {}
  /\ deaths = 0
  /\ commands = 0
  /\ changes = 0

\* The source moves on, and a discovery finds columns (their files and those of
\* the relationships between them stay).
Evolve ==
  /\ changes < MaxChanges
  /\ changes' = changes + 1
  /\ \/ /\ source' \in Sources
        /\ UNCHANGED known
     \/ /\ \E cs \in SUBSET (Columns \ known) : known' = known \cup cs
        /\ UNCHANGED source
  /\ UNCHANGED <<profiles, issues, summary, prof, run, settled, parted, deaths, commands>>

\* All columns, or those of the table that --table names.
StartProfile(mode, ts) ==
  /\ prof.left = {} /\ commands < MaxCommands
  /\ commands' = commands + 1
  /\ prof' = [NoProf EXCEPT !.mode = mode, !.left = {c \in known : c[1] \in ts}]
  /\ UNCHANGED <<source, known, profiles, issues, summary, run, settled, parted, deaths, changes>>

\* A bug: the rows are counted for every column again.
Recounted(t) == RowCount(source, t)
\* The rows of a table are counted once in a run.
Counted(t) == IF prof.counts[t] # NoFile THEN prof.counts[t] ELSE RowCount(source, t)

ProfileColumn(c) ==
  /\ c \in prof.left /\ \A d \in prof.left : Order[c] <= Order[d]
  /\ profiles' = [profiles EXCEPT ![c] = Profile(source, c, prof.mode, Counted(c[1]))]
  /\ prof' = [prof EXCEPT !.left = @ \ {c}, !.counts[c[1]] = Counted(c[1])]
  /\ parted' = IF \E d \in prof.left \ {c} : d[1] = c[1] THEN parted \cup {c[1]} ELSE parted \ {c[1]}
  /\ UNCHANGED <<source, known, issues, summary, run, settled, deaths, commands, changes>>

DieProfile ==
  /\ prof.left # {} /\ deaths < MaxDeaths
  /\ prof' = NoProf
  /\ deaths' = deaths + 1
  /\ UNCHANGED <<source, known, profiles, issues, summary, run, settled, parted, commands, changes>>

(* `dla readiness` *)

\* Everything is read and every check made before the first file is written; a
\* foreign key that cannot be checked raises, which ends the run here.
StartReadiness(at, min) ==
  /\ ~Assembling /\ commands < MaxCommands
  /\ at # NoFile => ~\E k \in KnownKeys(Reads(at)) : Unchecked(at, k)
  /\ LET all == Filtered(Detected(Reads(at)), min)
     IN  run' = [left |-> all, all |-> all, read |-> Reads(at), min |-> min]
  /\ settled' = IF settled = Reads(at) THEN settled ELSE NoFile
  /\ commands' = commands + 1
  /\ UNCHANGED <<source, known, profiles, issues, summary, prof, parted, deaths, changes>>

WriteIssue(i) ==
  /\ i \in run.left /\ \A j \in run.left \ {i} : Before(i, j)
  /\ LET file == File(i, run.all)
     IN  issues' = {f \in issues : f.id # file.id} \cup {file}
  /\ run' = [run EXCEPT !.left = @ \ {i}]
  /\ UNCHANGED <<source, known, profiles, summary, prof, settled, parted, deaths, commands, changes>>

\* The summary is of this run's issues; files of former ones stay.
WriteSummary ==
  /\ Assembling /\ run.left = {}
  /\ summary' = {File(i, run.all) : i \in run.all}
  /\ settled' = IF run.min = "info" THEN run.read ELSE settled
  /\ run' = NoRun
  /\ UNCHANGED <<source, known, profiles, issues, prof, parted, deaths, commands, changes>>

DieReadiness ==
  /\ Assembling /\ deaths < MaxDeaths
  /\ run' = NoRun
  /\ deaths' = deaths + 1
  /\ UNCHANGED <<source, known, profiles, issues, summary, prof, settled, parted, commands, changes>>

Next ==
  \/ Evolve
  \/ \E mode \in {"sampling", "full_scan"}, ts \in {Tables} \cup {{t} : t \in Tables} : StartProfile(mode, ts)
  \/ \E c \in Columns : ProfileColumn(c)
  \/ \E at \in {source, NoFile}, min \in Severities : StartReadiness(at, min)
  \/ \E i \in run.left : WriteIssue(i)
  \/ WriteSummary \/ DieProfile \/ DieReadiness

Spec == Init /\ [][Next]_vars
-----------------------------------------------------------------------------
(* Properties *)

\* Every variable has its type; a profile's figures are figures of one sample.
TypeOK ==
  /\ source \in Sources /\ known \subseteq Columns
  /\ profiles \in [Columns -> {NoFile} \cup Profiles]
  /\ issues \subseteq Files
  /\ summary = NoFile \/ \A f \in summary : f \in Files
  /\ prof \in [left : SUBSET known, mode : {NoFile, "sampling", "full_scan"},
                counts : [Tables -> {NoFile} \cup Int]]
  /\ run \in [left : SUBSET run.all, all : SUBSET Issues, read : {NoFile} \cup Readings,
               min : {NoFile} \cup Severities]
  /\ settled \in {NoFile} \cup Readings
  /\ parted \subseteq Tables
  /\ deaths \in 0 .. MaxDeaths /\ commands \in 0 .. MaxCommands /\ changes \in 0 .. MaxChanges

\* What is wrong with a column: what the profile says, whoever reports it.
Problem(p) ==
  \/ p.status # "profiled"
  \/ p.stats.size > 0 /\ 100 * p.stats.nulls >= NullHigh * p.stats.size
  \/ p.stats.distinct = 1

\* After a readiness run that was not filtered and came to its end, every
\* column with a problem, and both ends of every foreign key with an orphan,
\* are at the top of the review queue until they are reviewed: also while the
\* run is repeated, with a filter too, or the repetition is killed.
ProblemsAreQueued ==
  settled # NoFile =>
    \A desc \in Descriptions \ {"reviewed"} :
      /\ \A c \in settled.known :
           settled.profiles[c] # NoFile /\ Problem(settled.profiles[c]) => Priority(c, desc) = 0
      /\ settled.source # NoFile =>
           \A k \in KnownKeys(settled) : Broken(settled.source, k) =>
             Priority(k[1], desc) = 0 /\ Priority(k[2], desc) = 0

\* While the inputs are those of a full run, the summary lists exactly the
\* issues from some severity upwards, and each has its file under the id listed.
SummaryBacked ==
  settled # NoFile =>
    /\ summary \subseteq issues
    /\ \E min \in Severities : {f.issue : f \in summary} = Filtered(Detected(settled), min)

\* FR-016: assembling the same inputs again rewrites no issue file, whatever the
\* severity it is filtered by: a filter does not renumber what it keeps.
RerunIsIdempotent ==
  [][settled # NoFile /\ Assembling /\ run.read = settled => UNCHANGED issues]_vars

\* The columns of a table that was profiled to its last column are unprofiled
\* together or not at all, though the permission may have changed on the way.
TableProfiledAsOne ==
  \A t \in Tables \ parted :
    \A c, d \in {e \in Columns : e[1] = t /\ profiles[e] # NoFile} :
      profiles[c].status = "unprofiled" <=> profiles[d].status = "unprofiled"

\* Two values that a join would match.
SameValue(v, w) ==
  v = w \/ (v.n = w.n /\ {v.as, w.as} \cap {"odd text", "unparsable text"} = {})

\* The values that _comparison_keys compares by value: each side all integers or all
\* texts, or both of one type and scale.
Comparable(vs, ws) ==
  \/ (AllInts(vs) \/ AllTexts(vs)) /\ (AllInts(ws) \/ AllTexts(ws))
  \/ \E as \in Others : \A v \in vs \cup ws : v.as = as

\* D5: a foreign key between columns of such values is called broken only for a
\* child value that no parent row equals, numbers written as text included, if all
\* parent rows are sampled.  (An int against a float or a Decimal is an orphan always.)
OrphansAreReal ==
  \A i \in {j \in run.all : j.type = "broken_fk"} :
    LET s == run.read.source
        child == i.on[1]
        parent == i.on[2]
    IN  /\ Cardinality(NonNullRows(s, parent)) <= Budget
        /\ Comparable(Sampled(s, child), Sampled(s, parent))
        => \E r \in NonNullRows(s, child) :
             \A q \in NonNullRows(s, parent) : ~SameValue(s.rows[child][r], s.rows[parent][q])
=============================================================================
