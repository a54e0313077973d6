------------------------ MODULE ProfileReadinessProofs ------------------------
(***************************************************************************)
(* Proofs about ProfileReadiness for any tables, columns, foreign keys,    *)
(* sources, sample sizes and thresholds, and any number of commands.       *)
(***************************************************************************)
EXTENDS ProfileReadiness, FiniteSetTheorems, TLAPS

-----------------------------------------------------------------------------
(* Samples and their figures *)

\* The rows of a column are finitely many, in the order of the key.
LEMMA RowsFinite ==
  ASSUME NEW s \in Sources, NEW c \in Columns
  PROVE  /\ c[1] \in Tables /\ s.count[c[1]] \in Nat
         /\ DOMAIN s.rows[c] = 1 .. s.count[c[1]] /\ IsFiniteSet(DOMAIN s.rows[c])
         /\ DOMAIN s.rows[c] \subseteq Int
<1>1. IsSource(s)
  BY SourcesAssumption
<1>2. c[1] \in Tables
  BY ColumnsAssumption
<1>3. s.count[c[1]] \in Nat /\ DOMAIN s.rows[c] = 1 .. s.count[c[1]]
  BY <1>1, <1>2 DEF IsSource
<1>4. IsFiniteSet(1 .. s.count[c[1]])
  BY <1>3, FS_Interval
<1> QED
  BY <1>2, <1>3, <1>4

\* A sample is of the column's rows.
LEMMA SampleOfRows ==
  ASSUME NEW s, NEW c, NEW mode, NEW count
  PROVE  Sample(s, c, mode, count) \subseteq DOMAIN s.rows[c]
BY DEF Sample, HeadRows, FirstOf

\* compute_stats: the nulls and the distinct values are those of the sample.
LEMMA StatsTyped ==
  ASSUME NEW s \in Sources, NEW c \in Columns, NEW rows \in SUBSET DOMAIN s.rows[c]
  PROVE  Stats(s, c, rows) \in Figures /\ NoStats(rows) \in Figures
<1> DEFINE nonNull == {i \in rows : s.rows[c][i] # Null}
           values == {s.rows[c][i] : i \in nonNull}
<1>1. IsFiniteSet(rows) /\ Cardinality(rows) \in Nat
  BY RowsFinite, FS_Subset, FS_CardinalityType
<1>2. IsFiniteSet(nonNull) /\ Cardinality(nonNull) \in Nat /\ Cardinality(nonNull) <= Cardinality(rows)
  BY <1>1, FS_Subset, FS_CardinalityType
<1>3. Cardinality(rows \ nonNull) = Cardinality(rows) - Cardinality(nonNull)
  <2>1. rows \cap nonNull = nonNull
    OBVIOUS
  <2> QED
    BY <1>1, <1>2, <2>1, FS_Difference
<1>4. IsFiniteSet(values) /\ Cardinality(values) \in Nat /\ Cardinality(values) <= Cardinality(nonNull)
  <2> DEFINE f == [i \in nonNull |-> s.rows[c][i]]
  <2>1. f \in Surjection(nonNull, values)
    BY DEF Surjection
  <2> HIDE DEF f, values, nonNull
  <2> QED
    BY <1>2, <2>1, FS_Surjection, FS_CardinalityType
<1> DEFINE size == Cardinality(rows)
           nulls == Cardinality(rows \ nonNull)
           distinct == IF Cardinality(values) <= MaxDistinct THEN Cardinality(values) ELSE NoCount
<1>5. Stats(s, c, rows) = [size |-> size, nulls |-> nulls, distinct |-> distinct]
  BY DEF Stats
<1>6. NoStats(rows) = [size |-> size, nulls |-> 0, distinct |-> NoCount]
  BY DEF NoStats
<1> HIDE DEF nonNull, values
<1>7. size \in Nat /\ nulls \in Nat /\ nulls <= size
  BY <1>1, <1>2, <1>3
<1>8. distinct \in Int /\ (distinct = NoCount \/ distinct \in 0 .. (size - nulls))
  BY <1>1, <1>2, <1>3, <1>4 DEF NoCount
<1> HIDE DEF size, nulls, distinct
<1>9. [size |-> size, nulls |-> nulls, distinct |-> distinct] \in Figures
  BY <1>7, <1>8 DEF Figures
<1>10. [size |-> size, nulls |-> 0, distinct |-> NoCount] \in Figures
  BY <1>7 DEF Figures, NoCount
<1> QED
  BY <1>5, <1>6, <1>9, <1>10

\* A profile is a profile, and unprofiled just where the table cannot be counted.
LEMMA ProfileTyped ==
  ASSUME NEW s \in Sources, NEW c \in Columns, NEW mode, NEW count \in Int
  PROVE  /\ Profile(s, c, mode, count) \in Profiles
         /\ Profile(s, c, mode, count).status = "unprofiled" <=> count < 0
<1> DEFINE rows == Sample(s, c, mode, count)
<1>1. rows \in SUBSET DOMAIN s.rows[c]
  BY SampleOfRows
<1> HIDE DEF rows
<1> DEFINE status == IF count < 0 THEN "unprofiled" ELSE IF Fails(s, c, rows) THEN "error" ELSE "profiled"
           stats == IF Fails(s, c, rows) THEN NoStats(rows) ELSE Stats(s, c, rows)
<1>2. Profile(s, c, mode, count) = [status |-> status, stats |-> stats]
  BY DEF Profile, rows
<1>3. stats \in Figures
  BY <1>1, StatsTyped
<1>4. status \in {"profiled", "unprofiled", "error"} /\ (status = "unprofiled" <=> count < 0)
  OBVIOUS
<1> HIDE DEF status, stats
<1> QED
  BY <1>2, <1>3, <1>4 DEF Profiles

-----------------------------------------------------------------------------
(* The sort of issues, and their ids *)

\* Weights and the alphabet rank severities and types.
LEMMA Ranks ==
  /\ \A s \in Severities : Weight[s] \in 1 .. 3
  /\ \A s, t \in Severities : Weight[s] = Weight[t] => s = t
  /\ \A x \in DOMAIN TypeOrder : TypeOrder[x] \in 1 .. 7
  /\ \A x, y \in DOMAIN TypeOrder : TypeOrder[x] = TypeOrder[y] => x = y
<1>1. /\ \A s \in Severities : Weight[s] \in 1 .. 3
      /\ \A s, t \in Severities : Weight[s] = Weight[t] => s = t
  BY DEF Severities, Weight
<1>2. /\ \A x \in DOMAIN TypeOrder : TypeOrder[x] \in 1 .. 7
      /\ \A x, y \in DOMAIN TypeOrder : TypeOrder[x] = TypeOrder[y] => x = y
  BY DEF TypeOrder
<1> QED
  BY <1>1, <1>2

\* The sort is a strict total order: no two issues of one run tie.
LEMMA SortTotal ==
  /\ \A i \in Issues : ~Before(i, i)
  /\ \A i, j, k \in Issues : Before(i, j) /\ Before(j, k) => Before(i, k)
  /\ \A i, j \in Issues : i = j \/ Before(i, j) \/ Before(j, i)
<1>1. \A i \in Issues :
        /\ i.type \in DOMAIN TypeOrder /\ i.severity \in Severities
        /\ i.on \in Tables \cup Columns \cup Keys
        /\ i = [type |-> i.type, severity |-> i.severity, on |-> i.on]
        /\ Weight[i.severity] \in Int /\ TypeOrder[i.type] \in Int /\ Order[i.on] \in Int
  BY Ranks, OrderAssumption DEF Issues
<1>2. \A i \in Issues : ~Before(i, i)
  BY <1>1 DEF Before
<1>3. \A i, j, k \in Issues : Before(i, j) /\ Before(j, k) => Before(i, k)
  BY <1>1 DEF Before
<1>4. \A i, j \in Issues : i = j \/ Before(i, j) \/ Before(j, i)
  <2> TAKE i, j \in Issues
  <2>1. CASE i.severity # j.severity
    BY <1>1, <2>1, Ranks DEF Before
  <2>2. CASE i.severity = j.severity /\ i.type # j.type
    BY <1>1, <2>2, Ranks DEF Before
  <2>3. CASE i.severity = j.severity /\ i.type = j.type /\ i.on # j.on
    BY <1>1, <2>3, OrderAssumption DEF Before
  <2>4. CASE i.severity = j.severity /\ i.type = j.type /\ i.on = j.on
    BY <1>1, <2>4
  <2> QED
    BY <2>1, <2>2, <2>3, <2>4
<1> QED
  BY <1>2, <1>3, <1>4

\* There are finitely many issues.
LEMMA IssuesFinite == IsFiniteSet(Issues)
<1>1. IsFiniteSet(Severities)
  <2>1. Severities = {"critical"} \cup {"warning"} \cup {"info"}
    BY DEF Severities
  <2> QED
    BY <2>1, FS_Singleton, FS_Union
<1>2. IsFiniteSet(DOMAIN TypeOrder)
  <2> DEFINE A == {"all_null_column"} \cup {"broken_fk"} \cup {"constant_column"}
             B == {"empty_table"} \cup {"high_null_rate"} \cup {"type_mismatch"}
  <2>1. IsFiniteSet(A) /\ IsFiniteSet(B)
    BY FS_Singleton, FS_Union
  <2>2. DOMAIN TypeOrder = A \cup B \cup {"unprofiled"}
    BY DEF TypeOrder
  <2> HIDE DEF A, B
  <2>3. IsFiniteSet(A \cup B) /\ IsFiniteSet({"unprofiled"})
    BY <2>1, FS_Singleton, FS_Union
  <2>4. IsFiniteSet((A \cup B) \cup {"unprofiled"})
    BY <2>3, FS_Union
  <2> QED
    BY <2>2, <2>4
<1>3. IsFiniteSet(Tables \cup Columns \cup Keys)
  <2>1. IsFiniteSet(Columns \X Columns)
    BY FiniteAssumption, FS_Product
  <2>2. IsFiniteSet(Keys)
    BY <2>1, KeysAssumption, FS_Subset
  <2> QED
    BY <2>2, FiniteAssumption, FS_Union
<1> DEFINE Triples == ((DOMAIN TypeOrder) \X Severities) \X (Tables \cup Columns \cup Keys)
           g == [i \in Issues |-> <<<<i.type, i.severity>>, i.on>>]
<1>4. IsFiniteSet(Triples)
  BY <1>1, <1>2, <1>3, FS_Product
<1>5. g \in Injection(Issues, Triples)
  BY DEF Injection, IsInjective, Issues
<1> HIDE DEF g, Triples
<1> QED
  BY <1>4, <1>5, FS_Injection

\* The number of an issue in its run.
LEMMA NumbersDiffer ==
  ASSUME NEW all \in SUBSET Issues, NEW i \in all, NEW j \in all, Before(i, j)
  PROVE  Number(i, all) < Number(j, all) /\ Number(i, all) \in Int /\ Number(j, all) \in Int
<1> DEFINE P == {k \in all : Before(k, i)}
           Q == {k \in all : Before(k, j)}
<1>1. P \subseteq Q /\ i \in Q /\ i \notin P
  BY SortTotal
<1>2. Q \in SUBSET Issues
  OBVIOUS
<1> HIDE DEF P, Q
<1>3. IsFiniteSet(Q)
  BY <1>2, IssuesFinite, FS_Subset
<1>4. IsFiniteSet(P) /\ Cardinality(P) <= Cardinality(Q) /\ Cardinality(P) # Cardinality(Q)
  BY <1>1, <1>3, FS_Subset
<1>5. Cardinality(P) \in Nat /\ Cardinality(Q) \in Nat
  BY <1>3, <1>4, FS_CardinalityType
<1>6. Number(i, all) = Cardinality(P) + 1 /\ Number(j, all) = Cardinality(Q) + 1
  BY DEF Number, P, Q
<1> QED
  BY <1>4, <1>5, <1>6

\* An issue file has its type, and tells its issue.
LEMMA FileTyped ==
  ASSUME NEW all \in SUBSET Issues, NEW i \in all
  PROVE  File(i, all) \in Files /\ File(i, all).issue = i
<1> DEFINE P == {j \in all : Before(j, i)}
<1>1. P \in SUBSET Issues
  OBVIOUS
<1>2. Number(i, all) = Cardinality(P) + 1
  BY DEF Number
<1> HIDE DEF P
<1>3. Cardinality(P) \in Nat
  BY <1>1, IssuesFinite, FS_Subset, FS_CardinalityType
<1>4. Number(i, all) \in Int
  BY <1>2, <1>3
<1> QED
  BY <1>4 DEF File, Files, Issues

\* No two issues of one run have the same id.
LEMMA IdsDiffer ==
  ASSUME NEW all \in SUBSET Issues, NEW i \in all, NEW j \in all, i # j
  PROVE  File(i, all).id # File(j, all).id
<1>1. Number(i, all) # Number(j, all)
  BY SortTotal, NumbersDiffer
<1> QED
  BY <1>1 DEF File

\* A filter by severity does not renumber what it keeps, since the sort puts
\* the gravest first.
LEMMA FilterKeepsNumbers ==
  ASSUME NEW found \in SUBSET Issues, NEW min \in Severities, NEW i \in Filtered(found, min)
  PROVE  File(i, Filtered(found, min)) = File(i, found)
<1>1. \A j \in found : Before(j, i) => j \in Filtered(found, min)
  <2>1. \A j \in found : Weight[j.severity] \in Int /\ Weight[min] \in Int
    BY Ranks DEF Issues
  <2>2. \A j \in found : Before(j, i) => Weight[j.severity] >= Weight[i.severity]
    BY <2>1 DEF Before, Filtered
  <2> QED
    BY <2>1, <2>2 DEF Filtered
<1>2. {j \in Filtered(found, min) : Before(j, i)} = {j \in found : Before(j, i)}
  BY <1>1 DEF Filtered
<1> QED
  BY <1>2 DEF File, Number

\* The lowest severity filters nothing.
LEMMA FilterOfAll ==
  ASSUME NEW found \in SUBSET Issues
  PROVE  Filtered(found, "info") = found
<1>1. \A i \in found : Weight[i.severity] >= Weight["info"]
  BY DEF Issues, Severities, Weight
<1> QED
  BY <1>1 DEF Filtered

-----------------------------------------------------------------------------
(* Type correctness *)

\* What a check reports is an issue on a table, a column or a foreign key.
LEMMA DetectedTyped ==
  ASSUME NEW read \in Readings
  PROVE  Detected(read) \in SUBSET Issues
<1> DEFINE types == DOMAIN TypeOrder
           on == Tables \cup Columns \cup Keys
<1>1. types = {"all_null_column", "broken_fk", "constant_column", "empty_table", "high_null_rate",
               "type_mismatch", "unprofiled"}
  BY DEF TypeOrder
<1>2. ASSUME NEW type \in types, NEW sev \in Severities, NEW x \in on PROVE Issue(type, sev, x) \in Issues
  BY DEF Issue, Issues
<1>3. WithProfile(read) \subseteq Columns /\ KnownKeys(read) \subseteq Keys
  BY DEF WithProfile, KnownKeys, Readings
<1>4. \A c \in Columns : \A p : ColumnIssues(c, p) \subseteq Issues
  <2> SUFFICES ASSUME NEW c \in Columns, NEW p PROVE ColumnIssues(c, p) \subseteq Issues
    OBVIOUS
  <2>1. /\ Issue("unprofiled", "info", c) \in Issues
        /\ Issue("all_null_column", "critical", c) \in Issues
        /\ Issue("high_null_rate", NullSeverity(p), c) \in Issues
        /\ Issue("constant_column", IF ConstantInfo THEN "info" ELSE "warning", c) \in Issues
    BY <1>1, <1>2 DEF NullSeverity, Severities
  <2> QED
    BY <2>1 DEF ColumnIssues, When
<1>5. \A t \in Tables : Issue("empty_table", "critical", t) \in Issues
  BY <1>1, <1>2 DEF Severities
<1>6. \A k \in Keys : Issue("type_mismatch", "warning", k) \in Issues /\ Issue("broken_fk", "critical", k) \in Issues
  BY <1>1, <1>2 DEF Severities
<1> DEFINE A == UNION {ColumnIssues(c, read.profiles[c]) : c \in WithProfile(read)}
           B == {Issue("empty_table", "critical", t) : t \in {u \in Tables : Empty(u, read)}}
           C == {Issue("type_mismatch", "warning", k) : k \in {l \in KnownKeys(read) : Mismatched(l)}}
           D == {Issue("broken_fk", "critical", k) :
                   k \in {l \in KnownKeys(read) : read.source # NoFile /\ Broken(read.source, l)}}
<1>7. A \subseteq Issues
  BY <1>3, <1>4
<1>8. B \subseteq Issues
  BY <1>5
<1>9. C \subseteq Issues
  BY <1>3, <1>6
<1>10. D \subseteq Issues
  BY <1>3, <1>6
<1>11. Detected(read) = A \cup B \cup C \cup D
  BY DEF Detected
<1> HIDE DEF A, B, C, D
<1>12. A \cup B \cup C \cup D \subseteq Issues
  BY <1>7, <1>8, <1>9, <1>10
<1> QED
  BY <1>11, <1>12

\* Profiles, issues and both commands are well typed, and the figures of every
\* profile are figures of one sample.
THEOREM TypeCorrect == Spec => []TypeOK
<1>1. Init => TypeOK
  <2> SUFFICES ASSUME Init PROVE TypeOK
    OBVIOUS
  <2>1. MaxDeaths \in Nat /\ MaxCommands \in Nat /\ MaxChanges \in Nat
    BY BoundsAssumption
  <2>2. profiles \in [Columns -> {NoFile} \cup Profiles]
    BY DEF Init
  <2>3. prof \in [left : SUBSET known, mode : {NoFile, "sampling", "full_scan"},
                  counts : [Tables -> {NoFile} \cup Int]]
    BY DEF Init, NoProf
  <2>4. run \in [left : SUBSET run.all, all : SUBSET Issues, read : {NoFile} \cup Readings,
                 min : {NoFile} \cup Severities]
    BY DEF Init, NoRun
  <2>5. deaths \in 0 .. MaxDeaths /\ commands \in 0 .. MaxCommands /\ changes \in 0 .. MaxChanges
    BY <2>1 DEF Init
  <2>6. /\ source \in Sources /\ known \subseteq Columns
        /\ issues \subseteq Files
        /\ summary = NoFile \/ \A f \in summary : f \in Files
        /\ settled \in {NoFile} \cup Readings
        /\ parted \subseteq Tables
    BY DEF Init
  <2> QED
    BY <2>2, <2>3, <2>4, <2>5, <2>6 DEF TypeOK
<1>2. TypeOK /\ [Next]_vars => TypeOK'
  <2> SUFFICES ASSUME TypeOK, [Next]_vars PROVE TypeOK'
    OBVIOUS
  <2>0. MaxDeaths \in Nat /\ MaxCommands \in Nat /\ MaxChanges \in Nat
    BY BoundsAssumption
  <2>00. commands < MaxCommands => commands + 1 \in 0 .. MaxCommands
    BY <2>0 DEF TypeOK
  <2>1. CASE Evolve
    <3>1. known \subseteq known' /\ known' \subseteq Columns /\ source' \in Sources
      BY <2>1 DEF Evolve, TypeOK
    <3>2. prof' \in [left : SUBSET known', mode : {NoFile, "sampling", "full_scan"},
                     counts : [Tables -> {NoFile} \cup Int]]
      BY <2>1, <3>1 DEF Evolve, TypeOK
    <3> QED
      BY <2>0, <2>1, <3>1, <3>2 DEF Evolve, TypeOK
  <2>2. ASSUME NEW mode \in {"sampling", "full_scan"}, NEW ts, StartProfile(mode, ts) PROVE TypeOK'
    <3>1. prof' = [left |-> {c \in known : c[1] \in ts}, mode |-> mode, counts |-> [t \in Tables |-> NoFile]]
      BY <2>2 DEF StartProfile, NoProf
    <3>2. prof' \in [left : SUBSET known, mode : {NoFile, "sampling", "full_scan"},
                     counts : [Tables -> {NoFile} \cup Int]]
      BY <3>1
    <3> QED
      BY <2>00, <2>2, <3>2 DEF StartProfile, TypeOK
  <2>3. ASSUME NEW c \in Columns, ProfileColumn(c) PROVE TypeOK'
    <3>1. c[1] \in Tables /\ source.count[c[1]] \in Nat
      BY RowsFinite DEF TypeOK
    <3>2. Counted(c[1]) \in Int
      BY <3>1 DEF Counted, RowCount, TypeOK
    <3>3. Profile(source, c, prof.mode, Counted(c[1])) \in Profiles
      BY <3>2, ProfileTyped DEF TypeOK
    <3>4. profiles' \in [Columns -> {NoFile} \cup Profiles]
      BY <2>3, <3>3 DEF ProfileColumn, TypeOK
    <3>5. prof' = [left |-> prof.left \ {c}, mode |-> prof.mode,
                   counts |-> [prof.counts EXCEPT ![c[1]] = Counted(c[1])]]
      BY <2>3 DEF ProfileColumn, TypeOK
    <3>6. prof' \in [left : SUBSET known, mode : {NoFile, "sampling", "full_scan"},
                     counts : [Tables -> {NoFile} \cup Int]]
      BY <3>2, <3>5 DEF TypeOK
    <3>7. parted' \subseteq Tables
      BY <2>3, <3>1 DEF ProfileColumn, TypeOK
    <3> QED
      BY <2>3, <3>4, <3>6, <3>7 DEF ProfileColumn, TypeOK
  <2>4. CASE DieProfile
    BY <2>0, <2>4 DEF DieProfile, NoProf, TypeOK
  <2>5. ASSUME NEW at \in {source, NoFile}, NEW min \in Severities, StartReadiness(at, min) PROVE TypeOK'
    <3> DEFINE read == Reads(at)
               all == Filtered(Detected(read), min)
    <3>1. read \in Readings
      BY DEF Reads, Readings, TypeOK
    <3>2. all \in SUBSET Issues
      BY <3>1, DetectedTyped DEF Filtered
    <3>3. run' = [left |-> all, all |-> all, read |-> read, min |-> min]
      BY <2>5 DEF StartReadiness
    <3>4. settled' = settled \/ settled' = NoFile
      BY <2>5 DEF StartReadiness
    <3> HIDE DEF read, all
    <3>5. run' \in [left : SUBSET run'.all, all : SUBSET Issues, read : {NoFile} \cup Readings,
                    min : {NoFile} \cup Severities]
      BY <3>1, <3>2, <3>3
    <3> QED
      BY <2>00, <2>5, <3>4, <3>5 DEF StartReadiness, TypeOK
  <2>6. ASSUME NEW i \in run.left, WriteIssue(i) PROVE TypeOK'
    <3>1. i \in run.all /\ run.all \subseteq Issues
      BY DEF TypeOK
    <3>2. File(i, run.all) \in Files
      BY <3>1, FileTyped
    <3>3. issues' \subseteq Files
      BY <2>6, <3>2 DEF WriteIssue, TypeOK
    <3>4. run' \in [left : SUBSET run'.all, all : SUBSET Issues, read : {NoFile} \cup Readings,
                    min : {NoFile} \cup Severities]
      BY <2>6 DEF WriteIssue, TypeOK
    <3> QED
      BY <2>0, <2>6, <3>3, <3>4 DEF WriteIssue, TypeOK
  <2>7. CASE WriteSummary
    <3>1. \A f \in summary' : f \in Files
      BY <2>7, FileTyped DEF WriteSummary, TypeOK
    <3>2. run' = NoRun /\ settled' \in {settled, run.read}
      BY <2>7 DEF WriteSummary
    <3>3. run' \in [left : SUBSET run'.all, all : SUBSET Issues, read : {NoFile} \cup Readings,
                    min : {NoFile} \cup Severities]
      BY <3>2 DEF NoRun
    <3> QED
      BY <2>7, <3>1, <3>2, <3>3 DEF WriteSummary, TypeOK
  <2>8. CASE DieReadiness
    <3>1. run' \in [left : SUBSET run'.all, all : SUBSET Issues, read : {NoFile} \cup Readings,
                    min : {NoFile} \cup Severities]
      BY <2>8 DEF DieReadiness, NoRun
    <3> QED
      BY <2>0, <2>8, <3>1 DEF DieReadiness, TypeOK
  <2>9. CASE UNCHANGED vars
    BY <2>9 DEF vars, TypeOK
  <2> QED
    BY <2>1, <2>2, <2>3, <2>4, <2>5, <2>6, <2>7, <2>8, <2>9 DEF Next
<1> QED
  BY <1>1, <1>2, PTL DEF Spec

-----------------------------------------------------------------------------
(* One row count for a table *)

Own(t) == {c \in Columns : c[1] = t /\ profiles[c] # NoFile}

\* The inductive invariant behind TableProfiledAsOne: what is left of a table
\* that was not counted yet is the whole table, and what was profiled after the
\* count agrees with it.
TableInv ==
  /\ \A c \in Columns : profiles[c] # NoFile => c \in known
  /\ \A t \in Tables : prof.counts[t] # NoFile =>
       \A c \in Own(t) \ prof.left : profiles[c].status = "unprofiled" <=> prof.counts[t] < 0
  /\ \A t \in Tables : prof.counts[t] = NoFile /\ (\E d \in prof.left : d[1] = t) => Own(t) \subseteq prof.left

\* The step that profiles a column.
LEMMA ColumnKeepsTable ==
  ASSUME TypeOK, TableInv, TableProfiledAsOne, NEW c \in Columns, ProfileColumn(c)
  PROVE  TableInv' /\ TableProfiledAsOne'
<1> DEFINE t == c[1]
           n == Counted(t)
<1>1. t \in Tables /\ n \in Int
  BY RowsFinite DEF Counted, RowCount, TypeOK
<1>2. /\ profiles' = [profiles EXCEPT ![c] = Profile(source, c, prof.mode, n)]
      /\ prof'.left = prof.left \ {c}
      /\ prof'.counts = [prof.counts EXCEPT ![t] = n]
      /\ c \in prof.left /\ c \in known /\ known' = known
      /\ prof.counts[t] = NoFile \/ prof.counts[t] = n
  BY DEF ProfileColumn, Counted, TypeOK
<1>3. Profile(source, c, prof.mode, n) \in Profiles
      /\ (Profile(source, c, prof.mode, n).status = "unprofiled" <=> n < 0)
  BY <1>1, ProfileTyped DEF TypeOK
<1>4. parted' = IF \E d \in prof.left \ {c} : d[1] = t THEN parted \cup {t} ELSE parted \ {t}
  BY DEF ProfileColumn
<1> DEFINE new == Profile(source, c, prof.mode, n)
<1> HIDE DEF n, new
<1>5. profiles'[c] = new /\ (\A d \in Columns : d # c => profiles'[d] = profiles[d])
  BY <1>2 DEF new, TypeOK
<1>6. prof'.counts[t] = n /\ (\A u \in Tables : u # t => prof'.counts[u] = prof.counts[u])
  BY <1>1, <1>2 DEF TypeOK
<1>7. new.status = "unprofiled" <=> n < 0
  BY <1>3 DEF new
<1>8. n # NoFile
  BY <1>1, NoFileAssumption
<1>9. \A d \in Own(t)' \ prof'.left : profiles'[d].status = "unprofiled" <=> n < 0
  <2> TAKE d \in Own(t)' \ prof'.left
  <2>1. CASE d = c
    BY <1>5, <1>7, <2>1
  <2>2. CASE d # c
    <3>1. d \in Own(t) \ prof.left
      BY <1>2, <1>5, <2>2 DEF Own
    <3>2. prof.counts[t] # NoFile
      BY <1>1, <1>2, <3>1 DEF TableInv
    <3>3. prof.counts[t] = n
      BY <1>2, <3>2
    <3>4. profiles[d].status = "unprofiled" <=> n < 0
      BY <1>1, <3>1, <3>2, <3>3 DEF TableInv
    <3>5. profiles'[d] = profiles[d]
      BY <1>5, <2>2 DEF Own
    <3> QED
      BY <3>4, <3>5
  <2> QED
    BY <2>1, <2>2
<1>10. \A u \in Tables : u # t => Own(u)' = Own(u) /\ \A d \in Own(u) : profiles'[d] = profiles[d]
  BY <1>5 DEF Own
<1>11. TableInv'
  <2>1. \A d \in Columns : profiles'[d] # NoFile => d \in known'
    BY <1>2, <1>5 DEF TableInv
  <2>2. ASSUME NEW u \in Tables, prof'.counts[u] # NoFile, NEW d \in Own(u)' \ prof'.left
        PROVE  profiles'[d].status = "unprofiled" <=> prof'.counts[u] < 0
    <3>1. CASE u = t
      BY <1>6, <1>9, <2>2, <3>1
    <3>2. CASE u # t
      <4>1. d \in Own(u) /\ profiles'[d] = profiles[d] /\ d # c /\ prof'.counts[u] = prof.counts[u]
        BY <1>6, <1>10, <2>2, <3>2 DEF Own
      <4>2. d \in Own(u) \ prof.left
        BY <1>2, <2>2, <4>1
      <4> QED
        BY <2>2, <4>1, <4>2 DEF TableInv
    <3> QED
      BY <3>1, <3>2
  <2>3. ASSUME NEW u \in Tables, prof'.counts[u] = NoFile, NEW d \in prof'.left, d[1] = u
        PROVE  Own(u)' \subseteq prof'.left
    <3>1. u # t /\ prof.counts[u] = NoFile
      BY <1>6, <1>8, <2>3
    <3>2. d \in prof.left
      BY <1>2, <2>3
    <3>3. Own(u) \subseteq prof.left /\ c \notin Own(u)
      BY <2>3, <3>1, <3>2 DEF TableInv, Own
    <3> QED
      BY <1>2, <1>10, <3>1, <3>3
  <2> QED
    BY <2>1, <2>2, <2>3 DEF TableInv
<1>12. TableProfiledAsOne'
  <2> SUFFICES ASSUME NEW u \in Tables \ parted', NEW d \in Own(u)', NEW e \in Own(u)'
               PROVE  profiles'[d].status = "unprofiled" <=> profiles'[e].status = "unprofiled"
    BY DEF TableProfiledAsOne, Own
  <2>1. CASE u = t
    <3>1. ~\E f \in prof'.left : f[1] = t
      BY <1>2, <1>4, <2>1
    <3>2. d \notin prof'.left /\ e \notin prof'.left
      BY <2>1, <3>1 DEF Own
    <3> QED
      BY <1>9, <2>1, <3>2
  <2>2. CASE u # t
    <3>1. u \in Tables \ parted
      BY <1>4, <2>2
    <3>2. d \in Own(u) /\ e \in Own(u) /\ profiles'[d] = profiles[d] /\ profiles'[e] = profiles[e]
      BY <1>10, <2>2
    <3> QED
      BY <3>1, <3>2 DEF TableProfiledAsOne, Own
  <2> QED
    BY <2>1, <2>2
<1> QED
  BY <1>11, <1>12

\* The columns of a table whose last pass was complete are unprofiled together
\* or not at all: the rows are counted once, though the source changes.
THEOREM TablesAreProfiledAsOne == Spec => []TableProfiledAsOne
<1>1. Init => TableInv /\ TableProfiledAsOne
  BY DEF Init, TableInv, TableProfiledAsOne, NoProf, Own
<1>2. TypeOK /\ TableInv /\ TableProfiledAsOne /\ [Next]_vars => TableInv' /\ TableProfiledAsOne'
  <2> SUFFICES ASSUME TypeOK, TableInv, TableProfiledAsOne, [Next]_vars
               PROVE  TableInv' /\ TableProfiledAsOne'
    OBVIOUS
  <2>1. ASSUME profiles' = profiles, prof' = prof, parted' = parted, known \subseteq known'
        PROVE  TableInv' /\ TableProfiledAsOne'
    BY <2>1 DEF TableInv, TableProfiledAsOne, Own
  <2>2. CASE Evolve
    BY <2>1, <2>2 DEF Evolve
  <2>3. ASSUME NEW mode \in {"sampling", "full_scan"}, NEW ts, StartProfile(mode, ts)
        PROVE  TableInv' /\ TableProfiledAsOne'
    <3>1. /\ prof' = [left |-> {c \in known : c[1] \in ts}, mode |-> mode, counts |-> [t \in Tables |-> NoFile]]
          /\ profiles' = profiles /\ known' = known /\ parted' = parted
      BY <2>3 DEF StartProfile, NoProf
    <3>2. \A t \in Tables : Own(t)' = Own(t) /\ Own(t) \subseteq {c \in known : c[1] = t}
      BY <3>1 DEF Own, TableInv
    <3>3. \A t \in Tables : prof'.counts[t] = NoFile
      BY <3>1
    <3>4. prof'.left = {c \in known : c[1] \in ts}
      BY <3>1
    <3>5. \A t \in Tables : (\E d \in prof'.left : d[1] = t) => Own(t)' \subseteq prof'.left
      BY <3>2, <3>4
    <3>6. TableProfiledAsOne'
      BY <3>1 DEF TableProfiledAsOne
    <3> QED
      BY <3>1, <3>3, <3>5, <3>6 DEF TableInv
  <2>4. ASSUME NEW c \in Columns, ProfileColumn(c) PROVE TableInv' /\ TableProfiledAsOne'
    BY <2>4, ColumnKeepsTable
  <2>5. CASE DieProfile
    BY <2>5 DEF DieProfile, NoProf, TableInv, TableProfiledAsOne, Own
  <2>6. ASSUME NEW at, NEW min, StartReadiness(at, min) PROVE TableInv' /\ TableProfiledAsOne'
    BY <2>1, <2>6 DEF StartReadiness
  <2>7. ASSUME NEW i, WriteIssue(i) PROVE TableInv' /\ TableProfiledAsOne'
    BY <2>1, <2>7 DEF WriteIssue
  <2>8. CASE WriteSummary
    BY <2>1, <2>8 DEF WriteSummary
  <2>9. CASE DieReadiness
    BY <2>1, <2>9 DEF DieReadiness
  <2>10. CASE UNCHANGED vars
    BY <2>1, <2>10 DEF vars
  <2> QED
    BY <2>2, <2>3, <2>4, <2>5, <2>6, <2>7, <2>8, <2>9, <2>10 DEF Next
<1> QED
  BY <1>1, <1>2, TypeCorrect, PTL DEF Spec

-----------------------------------------------------------------------------
(* One readiness run after the other *)

\* What a full run, and those that read the same, leave behind: the files of
\* all its issues, and a summary of those from some severity upwards.
Settled ==
  /\ \A i \in Detected(settled) : File(i, Detected(settled)) \in issues
  /\ \E min \in Severities :
       summary = {File(i, Detected(settled)) : i \in Filtered(Detected(settled), min)}

\* The inductive invariant of the readiness runs.
RunInv ==
  /\ Assembling => /\ run.read \in Readings
                   /\ run.all = Filtered(Detected(run.read), run.min)
                   /\ settled \in {run.read, NoFile}
  /\ ~Assembling => run = NoRun
  /\ \A i \in run.all \ run.left : File(i, run.all) \in issues
  /\ \A f, g \in issues : f.id = g.id => f = g
  /\ settled # NoFile => Settled

\* A run over what a full run has read finds each of its files in place.
LEMMA NothingNew ==
  ASSUME TypeOK, RunInv, NEW i \in run.left, WriteIssue(i), settled # NoFile
  PROVE  issues' = issues
<1>1. i \in run.all /\ run.all \subseteq Issues
  BY DEF TypeOK
<1>2. Assembling /\ run.min \in Severities
  BY <1>1 DEF RunInv, NoRun, Assembling, TypeOK
<1>3. settled = run.read /\ run.read \in Readings /\ run.all = Filtered(Detected(settled), run.min)
  BY <1>2 DEF RunInv
<1>4. File(i, run.all) = File(i, Detected(settled)) /\ i \in Detected(settled)
  BY <1>1, <1>2, <1>3, DetectedTyped, FilterKeepsNumbers DEF Filtered
<1>5. File(i, run.all) \in issues
  BY <1>4 DEF RunInv, Settled
<1>6. \A f \in issues : f.id = File(i, run.all).id => f = File(i, run.all)
  BY <1>5 DEF RunInv
<1> QED
  BY <1>5, <1>6 DEF WriteIssue

\* The step that writes an issue.
LEMMA IssueKeepsRun ==
  ASSUME TypeOK, RunInv, NEW i \in run.left, WriteIssue(i)
  PROVE  RunInv'
<1> DEFINE file == File(i, run.all)
<1>1. i \in run.all /\ run.all \subseteq Issues
  BY DEF TypeOK
<1>2. /\ run' = [left |-> run.left \ {i}, all |-> run.all, read |-> run.read, min |-> run.min]
      /\ issues' = {f \in issues : f.id # file.id} \cup {file}
      /\ settled' = settled /\ summary' = summary
  BY DEF WriteIssue, TypeOK
<1>3. Assembling /\ Assembling'
  BY <1>1, <1>2 DEF RunInv, NoRun, Assembling
<1>4. \A j \in run'.all \ run'.left : File(j, run'.all) \in issues'
  <2> SUFFICES ASSUME NEW j \in run.all \ (run.left \ {i}) PROVE File(j, run.all) \in issues'
    BY <1>2
  <2>1. CASE j = i
    BY <1>2, <2>1
  <2>2. CASE j # i
    BY <1>1, <1>2, <2>2, IdsDiffer DEF RunInv
  <2> QED
    BY <2>1, <2>2
<1>5. \A f, g \in issues' : f.id = g.id => f = g
  BY <1>2 DEF RunInv
<1>6. settled' # NoFile => Settled'
  BY <1>2, NothingNew DEF RunInv, Settled
<1> HIDE DEF file
<1> QED
  BY <1>2, <1>3, <1>4, <1>5, <1>6 DEF RunInv

\* The step that writes the summary.
LEMMA SummaryKeepsRun ==
  ASSUME TypeOK, RunInv, WriteSummary
  PROVE  RunInv'
<1>1. /\ Assembling /\ run.left = {} /\ run' = NoRun /\ issues' = issues
      /\ summary' = {File(i, run.all) : i \in run.all}
      /\ settled' = IF run.min = "info" THEN run.read ELSE settled
  BY DEF WriteSummary
<1> DEFINE found == Detected(run.read)
<1>2. /\ run.read \in Readings /\ run.all = Filtered(found, run.min)
      /\ settled \in {run.read, NoFile} /\ run.min \in Severities
  BY <1>1 DEF RunInv, Assembling, TypeOK
<1>3. found \in SUBSET Issues
  BY <1>2, DetectedTyped
<1> HIDE DEF found
<1>4. \A i \in run.all : File(i, run.all) = File(i, found)
  BY <1>2, <1>3, FilterKeepsNumbers
<1>5. summary' = {File(i, found) : i \in Filtered(found, run.min)}
  BY <1>1, <1>2, <1>4
<1>6. settled' # NoFile => settled' = run.read
  BY <1>1, <1>2
<1>7. settled' # NoFile => \A i \in found : File(i, found) \in issues
  <2>1. CASE run.min = "info"
    <3>1. run.all = found
      BY <1>2, <1>3, <2>1, FilterOfAll
    <3> QED
      BY <1>1, <3>1 DEF RunInv
  <2>2. CASE run.min # "info"
    BY <1>1, <1>2, <2>2 DEF RunInv, Settled, found
  <2> QED
    BY <2>1, <2>2
<1>8. settled' # NoFile => Settled'
  <2> SUFFICES ASSUME settled' # NoFile PROVE Settled'
    OBVIOUS
  <2>1. settled' = run.read
    BY <1>6
  <2>2. Detected(settled') = found
    BY <2>1 DEF found
  <2>3. \A i \in Detected(settled') : File(i, Detected(settled')) \in issues'
    BY <1>1, <1>7, <2>2
  <2>4. summary' = {File(i, Detected(settled')) : i \in Filtered(Detected(settled'), run.min)}
    BY <1>5, <2>2
  <2> QED
    BY <1>2, <2>3, <2>4 DEF Settled
<1>9. ~Assembling' /\ run'.all = {}
  BY <1>1 DEF NoRun, Assembling
<1> QED
  BY <1>1, <1>8, <1>9 DEF RunInv

\* RunInv is an invariant.
LEMMA RunsAreInOrder == Spec => []RunInv
<1>1. Init => RunInv
  BY DEF Init, RunInv, NoRun, Assembling
<1>2. TypeOK /\ RunInv /\ [Next]_vars => RunInv'
  <2> SUFFICES ASSUME TypeOK, RunInv, [Next]_vars PROVE RunInv'
    OBVIOUS
  <2>1. ASSUME run' = run, issues' = issues, summary' = summary, settled' = settled PROVE RunInv'
    BY <2>1 DEF RunInv, Settled, Assembling
  <2>2. CASE Evolve
    BY <2>1, <2>2 DEF Evolve
  <2>3. ASSUME NEW mode, NEW ts, StartProfile(mode, ts) PROVE RunInv'
    BY <2>1, <2>3 DEF StartProfile
  <2>4. ASSUME NEW c, ProfileColumn(c) PROVE RunInv'
    BY <2>1, <2>4 DEF ProfileColumn
  <2>5. CASE DieProfile
    BY <2>1, <2>5 DEF DieProfile
  <2>6. ASSUME NEW at \in {source, NoFile}, NEW min \in Severities, StartReadiness(at, min) PROVE RunInv'
    <3> DEFINE read == Reads(at)
               all == Filtered(Detected(read), min)
    <3>1. /\ run' = [left |-> all, all |-> all, read |-> read, min |-> min]
          /\ settled' = IF settled = read THEN settled ELSE NoFile
          /\ issues' = issues /\ summary' = summary
      BY <2>6 DEF StartReadiness
    <3>2. read \in Readings
      BY DEF Reads, Readings, TypeOK
    <3>3. /\ run'.left = all /\ run'.all = Filtered(Detected(read), min)
          /\ run'.read = read /\ run'.min = min
      BY <3>1
    <3> HIDE DEF read
    <3>4. settled' \in {run'.read, NoFile}
      BY <3>1, <3>3
    <3>5. settled' # NoFile => Settled'
      BY <3>1 DEF RunInv, Settled
    <3>6. Assembling'
      BY <3>3, NoFileAssumption DEF Assembling, Severities
    <3> HIDE DEF all
    <3>7. \A i \in run'.all \ run'.left : File(i, run'.all) \in issues'
      BY <3>3 DEF all
    <3>8. \A f, g \in issues' : f.id = g.id => f = g
      BY <3>1 DEF RunInv
    <3> QED
      BY <3>2, <3>3, <3>4, <3>5, <3>6, <3>7, <3>8 DEF RunInv
  <2>7. ASSUME NEW i \in run.left, WriteIssue(i) PROVE RunInv'
    BY <2>7, IssueKeepsRun
  <2>8. CASE WriteSummary
    BY <2>8, SummaryKeepsRun
  <2>9. CASE DieReadiness
    <3>1. run' = NoRun /\ issues' = issues /\ summary' = summary /\ settled' = settled
      BY <2>9 DEF DieReadiness
    <3>2. ~Assembling' /\ run'.all = {}
      BY <3>1 DEF NoRun, Assembling
    <3>3. settled' # NoFile => Settled'
      BY <3>1 DEF RunInv, Settled
    <3> QED
      BY <3>1, <3>2, <3>3 DEF RunInv
  <2>10. CASE UNCHANGED vars
    BY <2>1, <2>10 DEF vars
  <2> QED
    BY <2>2, <2>3, <2>4, <2>5, <2>6, <2>7, <2>8, <2>9, <2>10 DEF Next
<1> QED
  BY <1>1, <1>2, TypeCorrect, PTL DEF Spec

\* While the inputs are those of a full run, the summary lists the issues from
\* some severity upwards, each with its file.
THEOREM SummaryIsBacked == Spec => []SummaryBacked
<1>1. TypeOK /\ RunInv => SummaryBacked
  <2> SUFFICES ASSUME TypeOK, RunInv, settled # NoFile
               PROVE  /\ summary \subseteq issues
                      /\ \E min \in Severities : {f.issue : f \in summary} = Filtered(Detected(settled), min)
    BY DEF SummaryBacked
  <2>1. PICK min \in Severities :
          summary = {File(i, Detected(settled)) : i \in Filtered(Detected(settled), min)}
    BY DEF RunInv, Settled
  <2> DEFINE found == Detected(settled)
  <2>2. found \in SUBSET Issues
    BY DetectedTyped DEF TypeOK
  <2>3. \A i \in found : File(i, found) \in issues /\ File(i, found).issue = i
    BY <2>2, FileTyped DEF RunInv, Settled
  <2> HIDE DEF found
  <2>4. Filtered(found, min) \subseteq found
    BY DEF Filtered
  <2>5. summary = {File(i, found) : i \in Filtered(found, min)}
    BY <2>1 DEF found
  <2>6. summary \subseteq issues
    BY <2>3, <2>4, <2>5
  <2>7. {f.issue : f \in summary} = Filtered(found, min)
    <3>1. \A f \in summary : f.issue \in Filtered(found, min)
      BY <2>3, <2>4, <2>5
    <3>2. \A i \in Filtered(found, min) : \E f \in summary : f.issue = i
      BY <2>3, <2>4, <2>5
    <3> QED
      BY <3>1, <3>2
  <2> QED
    BY <2>6, <2>7 DEF found
<1> QED
  BY <1>1, TypeCorrect, RunsAreInOrder, PTL

\* Assembling the same inputs again rewrites no issue file, with any filter.
THEOREM ReadinessIsIdempotent == Spec => RerunIsIdempotent
<1>1. TypeOK /\ RunInv /\ [Next]_vars
        => [settled # NoFile /\ Assembling /\ run.read = settled => UNCHANGED issues]_vars
  <2> SUFFICES ASSUME TypeOK, RunInv, Next, settled # NoFile PROVE issues' = issues
    OBVIOUS
  <2>1. ASSUME NEW i \in run.left, WriteIssue(i) PROVE issues' = issues
    BY <2>1, NothingNew
  <2>2. ASSUME NEW mode, NEW ts, StartProfile(mode, ts) PROVE issues' = issues
    BY <2>2 DEF StartProfile
  <2>3. ASSUME NEW c, ProfileColumn(c) PROVE issues' = issues
    BY <2>3 DEF ProfileColumn
  <2>4. ASSUME NEW at, NEW min, StartReadiness(at, min) PROVE issues' = issues
    BY <2>4 DEF StartReadiness
  <2>5. ASSUME Evolve \/ WriteSummary \/ DieProfile \/ DieReadiness PROVE issues' = issues
    BY <2>5 DEF Evolve, WriteSummary, DieProfile, DieReadiness
  <2> QED
    BY <2>1, <2>2, <2>3, <2>4, <2>5 DEF Next
<1> QED
  BY <1>1, TypeCorrect, RunsAreInOrder, PTL DEF Spec, RerunIsIdempotent

-----------------------------------------------------------------------------
(* What the runs say *)

\* The parts of a run's findings, one by one.
LEMMA DetectedParts ==
  ASSUME NEW read
  PROVE  /\ \A c \in WithProfile(read) : ColumnIssues(c, read.profiles[c]) \subseteq Detected(read)
         /\ \A k \in KnownKeys(read) : read.source # NoFile /\ Broken(read.source, k)
              => Issue("broken_fk", "critical", k) \in Detected(read)
BY DEF Detected

\* A profile with a problem gives an issue about the column.
LEMMA ProblemGivesIssue ==
  ASSUME NEW c, NEW p \in Profiles, Problem(p)
  PROVE  \E i \in ColumnIssues(c, p) : i.on = c
<1> DEFINE total == p.stats.size
           nulls == p.stats.nulls
           bar == NullHigh * p.stats.size
<1>1. total \in Nat /\ nulls \in Nat /\ nulls <= total
      /\ (p.stats.distinct = NoCount \/ p.stats.distinct \in 0 .. (total - nulls))
  BY DEF Profiles, Figures
<1>2. CASE p.status # "profiled"
  BY <1>2 DEF ColumnIssues, Issue
<1>3. CASE p.status = "profiled" /\ AllNull(p)
  <2>1. Issue("all_null_column", "critical", c) \in ColumnIssues(c, p)
    BY <1>3 DEF ColumnIssues, When
  <2> QED
    BY <2>1 DEF Issue
<1>4. CASE p.status = "profiled" /\ ~AllNull(p) /\ total > 0 /\ 100 * nulls >= bar
  <2>1. ManyNulls(p)
    BY <1>4 DEF ManyNulls
  <2>2. Issue("high_null_rate", NullSeverity(p), c) \in ColumnIssues(c, p)
    BY <1>4, <2>1 DEF ColumnIssues, When
  <2> QED
    BY <2>2 DEF Issue
<1>5. CASE p.status = "profiled" /\ p.stats.distinct = 1
  <2>1. Constant(p)
    BY <1>1, <1>5 DEF Constant, NoCount
  <2>2. Issue("constant_column", IF ConstantInfo THEN "info" ELSE "warning", c) \in ColumnIssues(c, p)
    BY <1>5, <2>1 DEF ColumnIssues, When
  <2> QED
    BY <2>2 DEF Issue
<1>6. p.status # "profiled" \/ (total > 0 /\ 100 * nulls >= bar) \/ p.stats.distinct = 1
  BY DEF Problem
<1> QED
  BY <1>2, <1>3, <1>4, <1>5, <1>6

\* The file of an issue puts the columns it is about on top of the queue.
LEMMA FileGivesAttention ==
  ASSUME NEW f \in issues, NEW c, NEW desc,
         f.issue.on = c \/ (f.issue.on \in Keys /\ c \in {f.issue.on[1], f.issue.on[2]}), desc # "reviewed"
  PROVE  Priority(c, desc) = 0
<1>1. f.issue.type \in Attention(c, desc)
  BY DEF Attention
<1> QED
  BY <1>1 DEF Priority

\* After a full run every column with a problem and both ends of every broken
\* key are at the top of the review queue, and stay there while it is repeated.
THEOREM ProblemsReachTheQueue == Spec => []ProblemsAreQueued
<1>1. TypeOK /\ RunInv => ProblemsAreQueued
  <2> SUFFICES ASSUME TypeOK, RunInv, settled # NoFile, NEW desc \in Descriptions \ {"reviewed"}
               PROVE  /\ \A c \in settled.known :
                           settled.profiles[c] # NoFile /\ Problem(settled.profiles[c]) => Priority(c, desc) = 0
                      /\ settled.source # NoFile =>
                           \A k \in KnownKeys(settled) : Broken(settled.source, k) =>
                             Priority(k[1], desc) = 0 /\ Priority(k[2], desc) = 0
    BY DEF ProblemsAreQueued
  <2>1. settled \in Readings
    BY DEF TypeOK
  <2>2. Detected(settled) \in SUBSET Issues
    BY <2>1, DetectedTyped
  <2>3. \A i \in Detected(settled) : \E f \in issues : f.issue = i
    BY <2>2, FileTyped DEF RunInv, Settled
  <2>4. ASSUME NEW c \in settled.known, settled.profiles[c] # NoFile, Problem(settled.profiles[c])
        PROVE  Priority(c, desc) = 0
    <3>1. settled.profiles[c] \in Profiles /\ c \in WithProfile(settled)
      BY <2>1, <2>4 DEF Readings, WithProfile
    <3>2. PICK i \in ColumnIssues(c, settled.profiles[c]) : i.on = c
      BY <2>4, <3>1, ProblemGivesIssue
    <3>3. i \in Detected(settled)
      BY <3>1, DetectedParts
    <3>4. PICK f \in issues : f.issue = i
      BY <2>3, <3>3
    <3> QED
      BY <3>2, <3>4, FileGivesAttention
  <2>5. ASSUME settled.source # NoFile, NEW k \in KnownKeys(settled), Broken(settled.source, k)
        PROVE  Priority(k[1], desc) = 0 /\ Priority(k[2], desc) = 0
    <3>1. Issue("broken_fk", "critical", k) \in Detected(settled)
      BY <2>5, DetectedParts
    <3>2. PICK f \in issues : f.issue = Issue("broken_fk", "critical", k)
      BY <2>3, <3>1
    <3>3. f.issue.on = k /\ k \in Keys
      BY <3>2 DEF Issue, KnownKeys
    <3> QED
      BY <3>3, FileGivesAttention
  <2> QED
    BY <2>4, <2>5
<1> QED
  BY <1>1, TypeCorrect, RunsAreInOrder, PTL

\* If the rows fit the budget, all of them are sampled.
LEMMA AllFit ==
  ASSUME NEW rows, IsFiniteSet(rows), rows \subseteq Int, Cardinality(rows) <= Budget
  PROVE  FirstOf(rows, Budget) = rows
<1>1. ASSUME NEW i \in rows PROVE Cardinality({j \in rows : j < i}) < Budget
  <2> DEFINE P == {j \in rows : j < i}
  <2>1. P \subseteq rows /\ i \notin P
    BY <1>1
  <2> HIDE DEF P
  <2>2. Cardinality(P) <= Cardinality(rows) /\ Cardinality(P) # Cardinality(rows) /\ IsFiniteSet(P)
    BY <1>1, <2>1, FS_Subset
  <2>3. Cardinality(P) \in Nat /\ Cardinality(rows) \in Nat
    BY <2>2, FS_CardinalityType
  <2>4. Budget \in Nat
    BY BoundsAssumption
  <2>5. Cardinality(P) < Budget
    BY <2>2, <2>3, <2>4
  <2> QED
    BY <2>5 DEF P
<1> QED
  BY <1>1 DEF FirstOf

\* The values sampled of a column are values of its rows.
LEMMA SampleOfValues ==
  ASSUME NEW s \in Sources, NEW c \in Columns
  PROVE  /\ Sampled(s, c) \subseteq Values
         /\ \A v \in Sampled(s, c) : \E r \in NonNullRows(s, c) : v = s.rows[c][r]
<1>1. \A i \in DOMAIN s.rows[c] : s.rows[c][i] = Null \/ s.rows[c][i] \in Values
  BY SourcesAssumption DEF IsSource
<1>2. \A i \in NonNullRows(s, c) : i \in DOMAIN s.rows[c] /\ s.rows[c][i] # Null
  BY DEF NonNullRows
<1>3. \A v \in Sampled(s, c) : \E r \in NonNullRows(s, c) : v = s.rows[c][r]
  BY DEF Sampled, FirstOf
<1>4. Sampled(s, c) \subseteq Values
  BY <1>1, <1>2, <1>3
<1> QED
  BY <1>3, <1>4

\* The coercion of one side tells apart just the values that differ.
LEMMA ForeignValueDiffers ==
  ASSUME NEW vs \in SUBSET Values, NEW ws \in SUBSET Values, vs # {}, ws # {},
         Comparable(vs, ws), ~ComparisonKeys(vs, ws) \subseteq ComparisonKeys(ws, vs)
  PROVE  \E v \in vs : \A w \in ws : ~SameValue(v, w)
<1>1. \A v \in Values : v = [as |-> v.as, n |-> v.n]
  <2> TAKE v \in Values
  <2>1. v \in [as : {"int"} \cup TextForms \cup Others, n : Int]
    BY DEF Values
  <2>2. v = [as |-> v.as, n |-> v.n]
    BY <2>1, Zenon
  <2> QED
    BY <2>2
<1>2. CASE AllTexts(vs) /\ AllInts(ws)
  <2>1. ~AllTexts(ws)
    BY <1>2 DEF AllTexts, AllInts, TextForms
  <2>2. ComparisonKeys(vs, ws) = {ExactInt(v) : v \in vs} /\ ComparisonKeys(ws, vs) = ws
    BY <1>2, <2>1 DEF ComparisonKeys, Coerced
  <2>3. PICK v \in vs : ExactInt(v) \notin ws
    BY <2>2
  <2>4. ASSUME NEW w \in ws, SameValue(v, w) PROVE FALSE
    <3>1. v.as \in TextForms /\ w.as = "int" /\ v # w
      BY <1>2 DEF AllTexts, AllInts, TextForms
    <3>2. v.n = w.n /\ v.as = "text"
      BY <2>4, <3>1 DEF SameValue, TextForms
    <3>3. ExactInt(v) = w
      BY <1>1, <3>1, <3>2 DEF ExactInt
    <3> QED
      BY <2>3, <3>3
  <2> QED
    BY <2>4
<1>3. CASE AllTexts(ws) /\ AllInts(vs)
  <2>1. ~AllTexts(vs)
    BY <1>3 DEF AllTexts, AllInts, TextForms
  <2>2. ComparisonKeys(vs, ws) = vs /\ ComparisonKeys(ws, vs) = {ExactInt(w) : w \in ws}
    BY <1>3, <2>1 DEF ComparisonKeys, Coerced
  <2>3. PICK v \in vs : \A w \in ws : ExactInt(w) # v
    BY <2>2
  <2>4. ASSUME NEW w \in ws, SameValue(v, w) PROVE FALSE
    <3>1. w.as \in TextForms /\ v.as = "int" /\ v # w
      BY <1>3 DEF AllTexts, AllInts, TextForms
    <3>2. v.n = w.n /\ w.as = "text"
      BY <2>4, <3>1 DEF SameValue, TextForms
    <3>3. ExactInt(w) = v
      BY <1>1, <3>1, <3>2 DEF ExactInt
    <3> QED
      BY <2>3, <3>3
  <2> QED
    BY <2>4
<1>4. CASE (AllTexts(vs) /\ AllTexts(ws)) \/ (AllInts(vs) /\ AllInts(ws))
  <2>1. ~Coerced(vs, ws) /\ ~Coerced(ws, vs)
    BY <1>4 DEF Coerced, AllTexts, AllInts, TextForms
  <2>2. ComparisonKeys(vs, ws) = vs /\ ComparisonKeys(ws, vs) = ws
    BY <2>1 DEF ComparisonKeys
  <2>3. PICK v \in vs : v \notin ws
    BY <2>2
  <2>4. ASSUME NEW w \in ws, SameValue(v, w) PROVE FALSE
    <3>1. v # w
      BY <2>3
    <3>2. v.n = w.n /\ {v.as, w.as} \cap {"odd text", "unparsable text"} = {}
      BY <2>4, <3>1 DEF SameValue
    <3>3. v.as = w.as
      BY <1>4, <3>2 DEF AllTexts, AllInts, TextForms
    <3> QED
      BY <1>1, <3>1, <3>2, <3>3
  <2> QED
    BY <2>4
<1>5. ASSUME NEW as \in Others, \A v \in vs \cup ws : v.as = as
      PROVE  \E v \in vs : \A w \in ws : ~SameValue(v, w)
  <2>1. as # "int" /\ as \notin TextForms
    BY OthersAssumption
  <2>2. ~AllTexts(vs) /\ ~AllTexts(ws)
    BY <1>5, <2>1 DEF AllTexts
  <2>3. ComparisonKeys(vs, ws) = vs /\ ComparisonKeys(ws, vs) = ws
    BY <2>2 DEF ComparisonKeys, Coerced
  <2>4. PICK v \in vs : v \notin ws
    BY <2>3
  <2>5. ASSUME NEW w \in ws, SameValue(v, w) PROVE FALSE
    <3>1. v # w /\ v.n = w.n
      BY <2>4, <2>5 DEF SameValue
    <3>2. v.as = w.as
      BY <1>5
    <3> QED
      BY <1>1, <3>1, <3>2
  <2> QED
    BY <2>5
<1> QED
  BY <1>2, <1>3, <1>4, <1>5 DEF Comparable

\* D5: if every parent row is sampled, a broken key between columns of integers and
\* texts, or of one type, has a child value that no parent row equals, numbers written
\* as text included.
THEOREM OrphansAreFound == Spec => []OrphansAreReal
<1>1. TypeOK /\ RunInv => OrphansAreReal
  <2> SUFFICES ASSUME TypeOK, RunInv, NEW i \in run.all, i.type = "broken_fk",
                      Cardinality(NonNullRows(run.read.source, i.on[2])) <= Budget,
                      Comparable(Sampled(run.read.source, i.on[1]), Sampled(run.read.source, i.on[2]))
               PROVE  \E r \in NonNullRows(run.read.source, i.on[1]) :
                        \A q \in NonNullRows(run.read.source, i.on[2]) :
                          ~SameValue(run.read.source.rows[i.on[1]][r], run.read.source.rows[i.on[2]][q])
    BY DEF OrphansAreReal
  <2>1. run.read \in Readings /\ i \in Detected(run.read)
    BY DEF RunInv, NoRun, Filtered
  <2>2. /\ i.on \in KnownKeys(run.read) /\ run.read.source # NoFile
        /\ Broken(run.read.source, i.on)
    <3>1. \A c \in WithProfile(run.read) : i \notin ColumnIssues(c, run.read.profiles[c])
      BY DEF ColumnIssues, When, Issue
    <3>2. \A t : i # Issue("empty_table", "critical", t)
      BY DEF Issue
    <3>3. \A k : i # Issue("type_mismatch", "warning", k)
      BY DEF Issue
    <3>4. i \in {Issue("broken_fk", "critical", k) :
                   k \in {l \in KnownKeys(run.read) :
                            run.read.source # NoFile /\ Broken(run.read.source, l)}}
      BY <2>1, <3>1, <3>2, <3>3 DEF Detected
    <3> QED
      BY <3>4 DEF Issue
  <2> DEFINE s == run.read.source
             child == i.on[1]
             parent == i.on[2]
  <2>3. s \in Sources /\ child \in Columns /\ parent \in Columns
    BY <2>1, <2>2, KeysAssumption DEF Readings, KnownKeys
  <2>4. /\ Sampled(s, child) # {} /\ Sampled(s, parent) # {}
        /\ ~ComparisonKeys(Sampled(s, child), Sampled(s, parent))
              \subseteq ComparisonKeys(Sampled(s, parent), Sampled(s, child))
    BY <2>2 DEF Broken
  <2>5. /\ Cardinality(NonNullRows(s, parent)) <= Budget
        /\ Comparable(Sampled(s, child), Sampled(s, parent))
    OBVIOUS
  <2> HIDE DEF s, child, parent
  <2>6. PICK v \in Sampled(s, child) : \A w \in Sampled(s, parent) : ~SameValue(v, w)
    BY <2>3, <2>4, <2>5, SampleOfValues, ForeignValueDiffers
  <2>7. PICK r \in NonNullRows(s, child) : v = s.rows[child][r]
    BY <2>3, SampleOfValues
  <2>8. ASSUME NEW q \in NonNullRows(s, parent) PROVE s.rows[parent][q] \in Sampled(s, parent)
    <3>1. NonNullRows(s, parent) \subseteq DOMAIN s.rows[parent]
      BY DEF NonNullRows
    <3>2. IsFiniteSet(NonNullRows(s, parent)) /\ NonNullRows(s, parent) \subseteq Int
      BY <2>3, <3>1, RowsFinite, FS_Subset
    <3>3. FirstOf(NonNullRows(s, parent), Budget) = NonNullRows(s, parent)
      BY <2>5, <3>2, AllFit
    <3>4. s.state[parent[1]] # "gone"
      BY <2>4 DEF Sampled
    <3> QED
      BY <2>8, <3>3, <3>4 DEF Sampled
  <2> QED
    BY <2>6, <2>7, <2>8 DEF s, child, parent
<1> QED
  BY <1>1, TypeCorrect, RunsAreInOrder, PTL
=============================================================================
