------------------------------ MODULE Manifest ------------------------------
(***************************************************************************)
(* What is put into a bundle by hand, and what the bundle says of itself:  *)
(* KPIs (kpi/), hierarchies (hierarchy/) and term-mapping rules            *)
(* (reconciliation/term_mapping.py) that refer to what was discovered, the *)
(* counts of bundle.json, which every command refreshes at its end         *)
(* (bundle/writer.py, bundle/layout.py), and `dla bundle validate`         *)
(* (bundle/validate.py).  Requests of the UI and commands interleave; the  *)
(* write of an artifact is one step here (see BundleWriter), one that      *)
(* fails takes the artifact with it, and any process can be killed.        *)
(***************************************************************************)
EXTENDS Naturals, FiniteSets, Sequences

CONSTANTS
  Tables, Columns,              \* columns are pairs <<table, name>>
  Described,                    \* tables and columns that get a description
  Kpis, Hierarchies, Rules,     \* their ids: a name's slug, a hash of pattern and term
  KpiForms, HierarchyForms,     \* what a reviewer may ask for: [tables, dims], sets of levels
  Procs,                        \* requests of the UI and commands
  NoFile,                       \* "there is no bundle.json"
  MaxCommands, MaxMishaps       \* bounds: commands; failing writes and deaths

ASSUME ColumnsAssumption == \A c \in Columns : c[1] \in Tables
ASSUME DescribedAssumption == Described \subseteq Tables \cup Columns
ASSUME DistinctAssumption == Tables \cap Columns = {}
ASSUME FormsAssumption ==
  /\ \A f \in KpiForms : f.tables \subseteq Tables /\ f.dims \subseteq Columns \cup {c[2] : c \in Columns}
  /\ \A levels \in HierarchyForms : levels \subseteq Columns
ASSUME FiniteAssumption ==
  \A S \in {Tables, Columns, Described, Kpis, Hierarchies, Rules} : IsFiniteSet(S)
ASSUME NoFileAssumption == NoFile \notin Seq(Nat)
ASSUME BoundsAssumption == MaxCommands \in Nat /\ MaxMishaps \in Nat

VARIABLES
  disk,      \* the artifacts that have a .json
  pages,     \* the rules that have a .md
  refs,      \* what each KPI and hierarchy refers to
  manifest,  \* artifact_counts of bundle.json, or NoFile
  work,      \* what each process is doing
  behind,    \* history: the last refresh was cut short, overlapped, or is missing
  lost,      \* history: tables and columns that went with a failed write
  torn,      \* history: rules whose two files a death, a failure or a race parted
  commands, mishaps

vars == <<disk, pages, refs, manifest, work, behind, lost, torn, commands, mishaps>>

-----------------------------------------------------------------------------
(* Artifacts and their counts *)

\* ArtifactType, those types that are modelled, in its order.
Types == <<"table", "column", "description", "kpi", "hierarchy", "term_mapping_rule">>

Schema(x) == [type |-> IF x \in Tables THEN "table" ELSE "column", id |-> x]
Schemas == {Schema(x) : x \in Tables \cup Columns}
Curated == [type : {"kpi"}, id : Kpis] \cup [type : {"hierarchy"}, id : Hierarchies]
RuleFiles == [type : {"term_mapping_rule"}, id : Rules]
Description(x) == [type |-> "description", id |-> x]
Artifacts == Schemas \cup Curated \cup RuleFiles \cup {Description(x) : x \in Described}

\* count_artifacts_on_disk, one type.
CountOn(d, type) == Cardinality({a \in d : a.type = type})

-----------------------------------------------------------------------------
(* What a KPI or a hierarchy may refer to *)

Present == {x \in Tables \cup Columns : Schema(x) \in disk}

\* A bug: a full reference is taken at its word.
Trusting(label, tables) ==
  IF label \in Columns THEN {label} ELSE {c \in Columns \cap Present : c[2] = label /\ c[1] \in tables}

\* resolve_dimensions: a full or dotted reference, or the bare name of a column
\* of the KPI's own tables.
Candidates(label, tables) ==
  IF label \in Columns THEN {label} \cap Present
  ELSE {c \in Columns \cap Present : c[2] = label /\ c[1] \in tables}

\* A dimension has to resolve to one column.
Resolves(dims, tables) == \A l \in dims : Cardinality(Candidates(l, tables)) = 1
AsGiven(dims, tables) == dims                              \* a bug: labels instead of references
DimensionRefs(dims, tables) == UNION {Candidates(l, tables) : l \in dims}

-----------------------------------------------------------------------------
(* `dla bundle validate` *)

Missing(a) == {x \in refs[a] : Schema(x) \notin disk}
Dangling(a, x) ==
  [code |-> IF a.type = "hierarchy" THEN "hierarchy_missing_column"
            ELSE IF x \in Tables THEN "kpi_missing_table" ELSE "kpi_missing_dimension_column",
   on |-> x]
Phantoms == UNION {{Dangling(a, x) : x \in Missing(a)} : a \in Curated \cap disk}

Mismatches ==
  IF manifest = NoFile THEN {}
  ELSE {[code |-> "manifest_count_mismatch", on |-> Types[i]] :
          i \in {j \in DOMAIN Types : manifest[j] # CountOn(disk, Types[j])}}

Unlisted == IF manifest = NoFile THEN {[code |-> "missing_manifest", on |-> NoFile]} ELSE {}

Undescribed == {[code |-> "undescribed_table", on |-> t] :
                  t \in {u \in Tables : Schema(u) \in disk /\ Description(u) \notin disk}}

\* validate_bundle: what it finds; the first three are about references and
\* counts, and only the undescribed tables and the counts are mere warnings.
Findings == Phantoms \cup Unlisted \cup Mismatches \cup Undescribed

-----------------------------------------------------------------------------
(* Processes *)

Idle == [at |-> "idle"]
Building == [at |-> "build"]
Putting(a, rs) == [at |-> "put", art |-> a, refs |-> rs]
Deleting(at, r, removed, alone) == [at |-> at, art |-> r, removed |-> removed, alone |-> alone]
Counting == [at |-> "count", counts |-> <<>>, alone |-> TRUE]

\* Another process has changed something under a count or a deletion.
Overlapped(w) ==
  IF \/ w.at = "count" /\ (disk' # disk \/ manifest' # manifest)
     \/ w.at = "rule" /\ pages' # pages
  THEN [w EXCEPT !.alone = FALSE] ELSE w
\* p goes on with w.
Becomes(p, w) == work' = [q \in Procs |-> IF q = p THEN w ELSE Overlapped(work[q])]

\* A bug: a caller that gives no source refreshes nothing.
SeedsOnly(seeds) == IF seeds THEN Counting ELSE Idle
\* refresh_manifest_counts: a caller that gives no source does not seed a manifest.
Refresh(seeds) == IF manifest = NoFile /\ ~seeds THEN Idle ELSE Counting

Init ==
  /\ disk = {} /\ pages = {}
  /\ refs = [a \in Curated |-> {}]
  /\ manifest = NoFile
  /\ work = [p \in Procs |-> Idle]
  /\ behind = FALSE /\ lost = {} /\ torn = {}
  /\ commands = 0 /\ mishaps = 0

Starts(p, w) ==
  /\ work[p] = Idle /\ commands < MaxCommands
  /\ commands' = commands + 1
  /\ work' = [work EXCEPT ![p] = w]
  /\ UNCHANGED <<disk, pages, refs, manifest, behind, lost, torn, mishaps>>

\* `dla discover`, `dla describe` and the others that write what they find.
StartBuild(p) == Starts(p, Building)

\* save_kpi: all references are checked first; one that is missing or ambiguous
\* ends the command with nothing written.  --skip-dimension-validation records
\* no reference for the dimensions.
StartKpi(p, k) ==
  \E f \in KpiForms, skip \in BOOLEAN :
    /\ f.tables \subseteq Present
    /\ skip \/ Resolves(f.dims, f.tables)
    /\ Starts(p, Putting([type |-> "kpi", id |-> k],
                         f.tables \cup IF skip THEN {} ELSE DimensionRefs(f.dims, f.tables)))

\* save_hierarchy: at least two levels (the command line sees to it), each of
\* which is a column.
StartHierarchy(p, h) ==
  \E levels \in HierarchyForms :
    /\ levels \subseteq Present
    /\ Starts(p, Putting([type |-> "hierarchy", id |-> h], levels))

StartRule(p, r) == Starts(p, Putting([type |-> "term_mapping_rule", id |-> r], {}))
StartDelete(p, r) == Starts(p, Deleting("page", r, FALSE, TRUE))

\* What a command that writes many artifacts can write next: a table comes
\* before its columns, and a description is of something that is there.
Buildable ==
  {Schema(t) : t \in Tables} \cup {Schema(c) : c \in {d \in Columns : d[1] \in Present}}
    \cup {Description(x) : x \in Described \cap Present}

Build(p, a) ==
  /\ work[p] = Building /\ a \in Buildable
  /\ disk' = disk \cup {a}
  /\ lost' = lost \ {a}
  /\ UNCHANGED <<pages, refs, manifest, behind, torn, commands, mishaps>>
  /\ Becomes(p, Building)

\* ... and its end.
EndBuild(p) ==
  /\ work[p] = Building
  /\ UNCHANGED <<disk, pages, refs, manifest, behind, lost, torn, commands, mishaps>>
  /\ Becomes(p, Refresh(TRUE))

\* The write of a KPI, a hierarchy or a rule, by force.  What it says apart from
\* its references (a definition, a precedence, a name) may be what the .json says
\* already, times aside: then neither file is touched, also where the page is gone.
Keep(p) ==
  LET a == work[p].art IN
  /\ work[p].at = "put" /\ a \in disk
  /\ a \in Curated => refs[a] = work[p].refs
  /\ UNCHANGED <<disk, pages, refs, manifest, behind, lost, torn, commands, mishaps>>
  /\ Becomes(p, Refresh(TRUE))

\* Otherwise both files are written.
Put(p) ==
  LET a == work[p].art IN
  /\ work[p].at = "put"
  /\ disk' = disk \cup {a}
  /\ IF a \in Curated
     THEN refs' = [refs EXCEPT ![a] = work[p].refs] /\ UNCHANGED <<pages, torn>>
     ELSE pages' = pages \cup {a.id} /\ torn' = torn \ {a.id} /\ UNCHANGED refs
  /\ UNCHANGED <<manifest, behind, lost, commands, mishaps>>
  /\ Becomes(p, Refresh(TRUE))

\* A write that fails: the rollback takes the .json, an older one too.  The
\* command ends there, except `dla describe`, which counts it and goes on.
FailWrite(p, a) ==
  /\ mishaps < MaxMishaps
  /\ \/ work[p] = Building /\ a \in Buildable
     \/ work[p].at = "put" /\ a = work[p].art
  /\ mishaps' = mishaps + 1
  /\ disk' = disk \ {a}
  /\ lost' = lost \cup ({a} \cap Schemas \cap disk)
  /\ torn' = torn \cup {r \in Rules : a = [type |-> "term_mapping_rule", id |-> r]}
  /\ behind' = (behind \/ a.type # "description")
  /\ UNCHANGED <<pages, refs, manifest, commands>>
  /\ Becomes(p, IF a.type = "description" THEN Building ELSE Idle)

\* delete_rule: the page goes first ...
UnlinkPage(p) ==
  LET r == work[p].art IN
  /\ work[p].at = "page"
  /\ pages' = pages \ {r}
  /\ UNCHANGED <<disk, refs, manifest, behind, lost, torn, commands, mishaps>>
  /\ Becomes(p, Deleting("rule", r, r \in pages, TRUE))

\* A bug: no page, no rule.
WithPage(p, file) == IF work[p].removed THEN disk \ {file} ELSE disk
\* Each file is tried, also after a deletion that got only half way.
Without(p, file) == disk \ {file}

\* ... then the rule; if neither was there, the manifest is left alone.
UnlinkRule(p) ==
  LET r == work[p].art
      file == [type |-> "term_mapping_rule", id |-> r]
      removed == work[p].removed \/ file \in disk
  IN
  /\ work[p].at = "rule"
  /\ disk' = Without(p, file)
  /\ torn' = IF work[p].alone THEN torn \ {r} ELSE torn \cup {r}
  /\ behind' = (behind \/ (removed /\ manifest = NoFile))
  /\ UNCHANGED <<pages, refs, manifest, lost, commands, mishaps>>
  /\ Becomes(p, IF removed THEN Refresh(FALSE) ELSE Idle)

\* The directories are counted one after the other ...
Count(p) ==
  LET counts == work[p].counts IN
  /\ work[p].at = "count" /\ Len(counts) < Len(Types)
  /\ work' = [work EXCEPT ![p].counts = Append(counts, CountOn(disk, Types[Len(counts) + 1]))]
  /\ UNCHANGED <<disk, pages, refs, manifest, behind, lost, torn, commands, mishaps>>

\* ... and bundle.json is replaced, unless it says so already.
Save(p) ==
  /\ work[p].at = "count" /\ Len(work[p].counts) = Len(Types)
  /\ manifest' = work[p].counts
  /\ behind' = ~work[p].alone
  /\ UNCHANGED <<disk, pages, refs, lost, torn, commands, mishaps>>
  /\ Becomes(p, Idle)

\* The review UI writes a description and refreshes nothing.
SaveDescription(p, x) ==
  /\ work[p] = Idle /\ commands < MaxCommands
  /\ x \in Described \cap Present
  /\ commands' = commands + 1
  /\ disk' = disk \cup {Description(x)}
  /\ behind' = (behind \/ Description(x) \notin disk)
  /\ UNCHANGED <<pages, refs, manifest, lost, torn, mishaps>>
  /\ Becomes(p, Idle)

Die(p) ==
  /\ work[p] # Idle /\ mishaps < MaxMishaps
  /\ mishaps' = mishaps + 1
  /\ behind' = TRUE
  /\ torn' = torn \cup {r \in Rules : work[p].at = "rule" /\ work[p].art = r}
  /\ work' = [work EXCEPT ![p] = Idle]
  /\ UNCHANGED <<disk, pages, refs, manifest, lost, commands>>

Step(p) ==
  \/ StartBuild(p) \/ EndBuild(p) \/ Keep(p) \/ Put(p) \/ UnlinkPage(p) \/ UnlinkRule(p)
  \/ Count(p) \/ Save(p) \/ Die(p)
  \/ \E a \in Artifacts : Build(p, a) \/ FailWrite(p, a)
  \/ \E k \in Kpis : StartKpi(p, k)
  \/ \E h \in Hierarchies : StartHierarchy(p, h)
  \/ \E r \in Rules : StartRule(p, r) \/ StartDelete(p, r)
  \/ \E x \in Described : SaveDescription(p, x)

Next == \E p \in Procs : Step(p)

Spec == Init /\ [][Next]_vars

-----------------------------------------------------------------------------
(* Properties *)

Works ==
  {Idle, Building}
    \cup [at : {"put"}, art : Curated \cup RuleFiles, refs : SUBSET (Tables \cup Columns)]
    \cup [at : {"page", "rule"}, art : Rules, removed : BOOLEAN, alone : BOOLEAN]
    \cup [at : {"count"}, counts : Seq(Nat), alone : BOOLEAN]

\* Every variable has its type, and no count goes past the last directory.
TypeOK ==
  /\ disk \subseteq Artifacts /\ pages \subseteq Rules
  /\ refs \in [Curated -> SUBSET (Tables \cup Columns)]
  /\ manifest \in {NoFile} \cup [DOMAIN Types -> Nat]
  /\ work \in [Procs -> Works]
  /\ \A p \in Procs : work[p].at = "count" => Len(work[p].counts) <= Len(Types)
  /\ behind \in BOOLEAN /\ lost \subseteq Schemas /\ torn \subseteq Rules
  /\ commands \in 0 .. MaxCommands /\ mishaps \in 0 .. MaxMishaps

Quiet == \A p \in Procs : work[p] = Idle

\* D1b, D16: when nobody is at work, `dla bundle validate` finds no count that is
\* off, unless the last refresh was cut short or overlapped, or a review wrote a
\* description and refreshed nothing; a refresh that comes through alone heals
\* whatever was off before.
CountsHonest ==
  Quiet /\ ~behind /\ (disk # {} \/ manifest # NoFile)
    => \A f \in Findings : f.code \notin {"missing_manifest", "manifest_count_mismatch"}

\* A KPI or a hierarchy refers to nothing that was not discovered: what dangles
\* was there, and went with a failed write since the reference was checked.
NoPhantoms ==
  \A f \in Findings :
    f.code \in {"kpi_missing_table", "kpi_missing_dimension_column", "hierarchy_missing_column"}
      => Schema(f.on) \in lost

\* A rule has both its files or neither when nobody is at work, unless a death,
\* a failed write, or a save between the two halves of a deletion parted them:
\* and then deleting it again removes what is left, and saving it repairs it only
\* if the save has something new to say (delete_rule, save_rule, write_artifact).
RulesWhole ==
  Quiet => \A r \in Rules \ torn :
             r \in pages <=> [type |-> "term_mapping_rule", id |-> r] \in disk
=============================================================================
