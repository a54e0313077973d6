------------------------------ MODULE Drafting ------------------------------
(***************************************************************************)
(* The loop between the glossary and the descriptions: `dla glossary       *)
(* build` drafts a definition for each word that recurs in the names of    *)
(* tables and columns (glossary/), and `dla describe` drafts a description *)
(* for each table and column from its facts and the confirmed definitions  *)
(* of the words in its name (describe/engine.py).  Each draft is one call  *)
(* of the LLM gateway, and meanwhile discovery, profiling, reviewers and   *)
(* the other command go on.                                                *)
(***************************************************************************)
EXTENDS Descriptions, Naturals, FiniteSets

CONSTANTS
  Tables,
  TableOf,        \* [Columns -> Tables]
  Rank,           \* the sorted order of artifact ids, and of terms
  Terms, Words,   \* Words[a]: the terms that the name of a is made of
  Stops,          \* glossary_stop_tokens
  MinRecurrence,  \* glossary_min_recurrence
  Cap,            \* describe_table_column_cap
  Facts, Score,   \* what is known of a column, and how much it tells
  Definitions,
  MaxChanges,     \* bound: how often the rest of the bundle changes
  MaxRuns         \* bound: how many commands are started

Artifacts == Tables \cup Columns

\* What is shown to the LLM of a column and of a table, and what it drafts.
Contexts ==
  [facts : Facts, glossary : SUBSET (Terms \X Definitions)]
    \cup [shown : SUBSET (Columns \X Facts), omitted : SUBSET Columns]
Entries == [prov : {"ai-drafted", "ai-drafted-edited", "sme-authored"},
            def : Definitions \cup {Insufficient}, usages : SUBSET Artifacts]
Drafts == [prov : {"ai-drafted", "ai-drafted-edited"}, context : Contexts]
UsedTerms == [term : Terms, usages : SUBSET Artifacts]

ASSUME ColumnsAssumption == TableOf \in [Columns -> Tables] /\ Tables \cap Columns = {}
ASSUME WordsAssumption == Words \in [Artifacts -> SUBSET Terms]
ASSUME ScoreAssumption == Score \in [Facts -> Nat]
ASSUME RankAssumption == \A t \in Tables, c \in Columns : Rank[t] < Rank[c]
ASSUME InsufficientAssumption == Insufficient \notin Definitions
ASSUME BoundsAssumption == MaxChanges \in Nat /\ MaxRuns \in Nat
ASSUME NoDocAssumption == NoDoc \notin Entries \cup Drafts

VARIABLES
  known,     \* the table and column files
  facts,     \* [Columns -> Facts]  what the files say of a column, its profile
             \* and relationships included
  entry,     \* [Terms -> glossary entry or NoDoc]
  desc,      \* [Artifacts -> description or NoDoc]: origin and grounding
  describe,  \* the describe command, or how the last one ended
  build,     \* the glossary build, or how the last one ended
  moved,     \* history: whose context changed since the running describe read it
  changes, runs

DraftingVars == <<known, facts, entry, desc, describe, build, moved, changes, runs>>

-----------------------------------------------------------------------------
(* What a draft is grounded on *)

Of(t) == {c \in Columns \cap known : TableOf[c] = t}

\* Bugs the operators that follow could have, each caught by a property below
AnyEntry(t) == entry[t] # NoDoc
Unlooped(c) == [facts |-> facts[c], glossary |-> {}]
SkipAnyDraft(old, usages, force) == old # NoDoc

\* confirmed_glossary_for_name: the definitions a person has confirmed.
Confirmed(t) == entry[t] # NoDoc /\ PreservesSmeWork(entry[t].prov) /\ entry[t].def # Insufficient

Glossary(c) == {<<t, entry[t].def>> : t \in {u \in Words[c] : Confirmed(u)}}

\* build_column_context.  The source, the table's row count and column names and
\* the relationships in it are part of the facts: what changes them for a whole
\* table is, here, as many changes as the table has columns.
ColumnContext(c) == [facts |-> facts[c], glossary |-> Glossary(c)]

\* _cap_columns: the Cap columns that tell most, first come first, are shown.
TellsMore(d, c) ==
  \/ Score[facts[d]] > Score[facts[c]]
  \/ Score[facts[d]] = Score[facts[c]] /\ Rank[d] < Rank[c]
Kept(t) == {c \in Of(t) : Cardinality({d \in Of(t) : TellsMore(d, c)}) < Cap}

\* build_table_context: the other columns are only named.
TableContext(t) ==
  [shown |-> {<<c, facts[c]>> : c \in Kept(t)}, omitted |-> Of(t) \ Kept(t)]

\* The grounding hash stands for the context it is computed from.
Context(a) == IF a \in Tables THEN TableContext(a) ELSE ColumnContext(a)

-----------------------------------------------------------------------------
(* Values *)

Idle(code) == [at |-> "idle", code |-> code]

Idles == [at : {"idle"}, code : {0, 1, 2, 5, 137}]
Commands(targets, contexts) ==
  [at : {"planning", "asking"}, left : SUBSET targets, force : BOOLEAN, batch : BOOLEAN,
   all : SUBSET targets, failed : SUBSET targets, drafted : BOOLEAN,
   target : targets \cup {NoDoc}, context : contexts \cup {NoDoc}]

\* A command: the targets left to it, those it has failed at, and all of them;
\* the target that it asks the LLM about, and what it has read for that one.
Starts(targets, force, batch) ==
  [at |-> "planning", left |-> targets, force |-> force, batch |-> batch, all |-> targets,
   failed |-> {}, drafted |-> FALSE, target |-> NoDoc, context |-> NoDoc]
AsksFor(p, target, context) ==
  [p EXCEPT !.at = "asking", !.left = @ \ {target}, !.target = target, !.context = context]
AfterAnswer(p) == [p EXCEPT !.at = "planning", !.target = NoDoc, !.context = NoDoc]
Drafted(p) == [AfterAnswer(p) EXCEPT !.drafted = TRUE]
Failed(p) == [AfterAnswer(p) EXCEPT !.failed = @ \cup {p.target}]
Skipped(p, target) == [p EXCEPT !.left = @ \ {target}]

Planning(p) == p.at = "planning"
Asking(p) == p.at = "asking"

-----------------------------------------------------------------------------
DraftingInit ==
  /\ known = {}
  /\ facts \in [Columns -> Facts]
  /\ entry = [t \in Terms |-> NoDoc]
  /\ desc = [a \in Artifacts |-> NoDoc]
  /\ describe = Idle(0) /\ build = Idle(0)
  /\ moved = {} /\ changes = 0 /\ runs = 0

(* The rest of the bundle *)

Changes ==
  /\ changes < MaxChanges
  /\ changes' = changes + 1
  /\ moved' = moved \cup {a \in Artifacts : Context(a)' # Context(a)}

\* `dla discover` finds a table and its columns, or a column more.
Discover(found) ==
  /\ \A c \in found \cap Columns : TableOf[c] \in known \cup found
  /\ known' = known \cup found
  /\ UNCHANGED <<facts, entry, desc, describe, build, runs>>
  /\ Changes

\* `dla profile`, or a new relationship or comment.
Reprofile(c) ==
  /\ \E f \in Facts \ {facts[c]} : facts' = [facts EXCEPT ![c] = f]
  /\ UNCHANGED <<known, entry, desc, describe, build, runs>>
  /\ Changes

\* A person confirms or writes an entry in its file; no command does.
Confirm(t) ==
  /\ \E d \in Definitions, prov \in {"ai-drafted-edited", "sme-authored"} :
       entry' = [entry EXCEPT ![t] =
                   [prov |-> prov, def |-> d, usages |-> IF @ = NoDoc THEN {} ELSE @.usages]]
  /\ UNCHANGED <<known, facts, desc, describe, build, runs>>
  /\ Changes

\* A reviewer accepts or edits a draft (see DescriptionReview).
Review(a) ==
  /\ desc[a] # NoDoc /\ ~PreservesSmeWork(desc[a].prov)
  /\ desc' = [desc EXCEPT ![a].prov = "ai-drafted-edited"]
  /\ UNCHANGED <<known, facts, entry, describe, build, runs>>
  /\ Changes

-----------------------------------------------------------------------------
(* dla describe *)

\* _should_skip_for_existing.
SkipDescription(old, context, force) ==
  /\ old # NoDoc
  /\ \/ PreservesSmeWork(old.prov)
     \/ ~force /\ old.prov = "ai-drafted" /\ old.context = context

\* The whole bundle, a table with its columns, or one column.
Selections == {known} \cup {{t} \cup Of(t) : t \in Tables \cap known}
NextTargets == {a \in describe.left : \A b \in describe.left : Rank[a] <= Rank[b]}

StartDescribe ==
  /\ describe.at = "idle" /\ runs < MaxRuns
  /\ runs' = runs + 1
  /\ \E force \in BOOLEAN :
       \/ \E S \in Selections : describe' = Starts(S, force, TRUE)
       \/ \E c \in Columns \cap known : describe' = Starts({c}, force, FALSE)
  /\ UNCHANGED <<known, facts, entry, desc, build, moved, changes>>

\* plan_column and plan_table, and what is there already.
Plan ==
  /\ Planning(describe)
  /\ \E a \in NextTargets :
       /\ describe' = IF SkipDescription(desc[a], Context(a), describe.force)
                      THEN Skipped(describe, a) ELSE AsksFor(describe, a, Context(a))
       /\ moved' = moved \ {a}
  /\ UNCHANGED <<known, facts, entry, desc, build, changes, runs>>

\* Nothing drafted and something failed is no success; one column alone fails
\* with the exit code of what went wrong.
EndOfBatch(p) == Idle(IF p.failed # {} /\ ~p.drafted THEN 1 ELSE 0)
FailAt(p, code) == IF p.batch THEN Failed(p) ELSE Idle(code)

\* The gateway answers and the draft is written: over whatever is there by then.
\* A write that is skipped counts as drafted.
WriteDescription ==
  /\ Asking(describe)
  /\ LET a == describe.target
         outcome == Outcome(desc[a], "ai-drafted", describe.force, FALSE)
     IN  /\ desc' = IF outcome = "write"
                    THEN [desc EXCEPT ![a] = [prov |-> "ai-drafted", context |-> describe.context]]
                    ELSE desc
         /\ describe' = IF outcome = "refused" THEN FailAt(describe, 1)
                        ELSE Drafted(describe)
  /\ UNCHANGED <<known, facts, entry, build, moved, changes, runs>>

\* The gateway raises (2), or its answer cannot be parsed (5).
LoseDescription ==
  /\ Asking(describe)
  /\ \E code \in {2, 5} : describe' = FailAt(describe, code)
  /\ UNCHANGED <<known, facts, entry, desc, build, moved, changes, runs>>

EndDescribe ==
  /\ Planning(describe) /\ describe.left = {}
  /\ describe' = EndOfBatch(describe)
  /\ UNCHANGED <<known, facts, entry, desc, build, moved, changes, runs>>

-----------------------------------------------------------------------------
(* dla glossary build *)

\* extract_terms: the words that recur, the most frequent first.
Usages(t) == {a \in known : t \in Words[a]}
Recurring ==
  {[term |-> t, usages |-> Usages(t)] :
     t \in {u \in Terms \ Stops : Cardinality(Usages(u)) >= MinRecurrence}}
ByFrequency(u, v) ==
  \/ Cardinality(u.usages) > Cardinality(v.usages)
  \/ Cardinality(u.usages) = Cardinality(v.usages) /\ Rank[u.term] < Rank[v.term]
NextTerms == {u \in build.left : ~\E v \in build.left : ByFrequency(v, u)}

SkipEntry(old, usages, force) ==
  /\ old # NoDoc
  /\ PreservesSmeWork(old.prov) \/ (~force /\ old.prov = "ai-drafted" /\ old.usages = usages)

StartBuild ==
  /\ build.at = "idle" /\ runs < MaxRuns
  /\ runs' = runs + 1
  /\ \E force \in BOOLEAN : build' = Starts(Recurring, force, TRUE)
  /\ UNCHANGED <<known, facts, entry, desc, describe, moved, changes>>

ReadEntry ==
  /\ Planning(build)
  /\ \E u \in NextTerms :
       build' = IF SkipEntry(entry[u.term], u.usages, build.force)
                THEN Skipped(build, u) ELSE AsksFor(build, u, NoDoc)
  /\ UNCHANGED <<known, facts, entry, desc, describe, moved, changes, runs>>

\* The definition is written.  An entry confirmed meanwhile is spared, or, under
\* --force, the write is refused and the command is over.
WriteEntry ==
  /\ Asking(build)
  /\ \E d \in Definitions \cup {Insufficient} :
       LET u == build.target
           new == [prov |-> "ai-drafted", def |-> d, usages |-> u.usages]
           outcome == Outcome(entry[u.term], "ai-drafted", build.force, entry[u.term] = new)
       IN  /\ entry' = IF outcome = "write" THEN [entry EXCEPT ![u.term] = new] ELSE entry
           /\ build' = IF outcome = "refused" THEN Idle(1) ELSE Drafted(build)
  /\ UNCHANGED <<known, facts, desc, describe, moved, changes, runs>>

\* The gateway raises, or its answer cannot be parsed.
LoseEntry ==
  /\ Asking(build)
  /\ build' = Failed(build)
  /\ UNCHANGED <<known, facts, entry, desc, describe, moved, changes, runs>>

EndBuild ==
  /\ Planning(build) /\ build.left = {}
  /\ build' = Idle(0)
  /\ UNCHANGED <<known, facts, entry, desc, describe, moved, changes, runs>>

\* A command is killed; what it has written stays.
Kill ==
  /\ \/ describe.at # "idle" /\ describe' = Idle(137) /\ UNCHANGED build
     \/ build.at # "idle" /\ build' = Idle(137) /\ UNCHANGED describe
  /\ UNCHANGED <<known, facts, entry, desc, moved, changes, runs>>

-----------------------------------------------------------------------------
DraftingNext ==
  \/ \E found \in SUBSET Artifacts : found \ known # {} /\ Discover(found)
  \/ \E c \in Columns : Reprofile(c)
  \/ \E t \in Terms : Confirm(t)
  \/ \E a \in Artifacts : Review(a)
  \/ StartDescribe \/ Plan \/ WriteDescription \/ LoseDescription \/ EndDescribe
  \/ StartBuild \/ ReadEntry \/ WriteEntry \/ LoseEntry \/ EndBuild
  \/ Kill

DraftingSpec == DraftingInit /\ [][DraftingNext]_DraftingVars

-----------------------------------------------------------------------------
(* Properties *)

\* Every variable has its type; in particular no prompt carries the word
\* INSUFFICIENT_SIGNAL as if it were a definition (feedback_loop.py:40).
DraftingTypeOK ==
  /\ known \subseteq Artifacts /\ facts \in [Columns -> Facts]
  /\ entry \in [Terms -> Entries \cup {NoDoc}]
  /\ desc \in [Artifacts -> Drafts \cup {NoDoc}]
  /\ describe \in Idles \cup Commands(Artifacts, Contexts)
  /\ Asking(describe) => describe.target \in Artifacts /\ describe.context \in Contexts
  /\ build \in Idles \cup Commands(UsedTerms, {})
  /\ Asking(build) => build.target \in UsedTerms
  /\ moved \subseteq Artifacts /\ changes \in 0 .. MaxChanges /\ runs \in 0 .. MaxRuns

IsReviewed(doc) == doc # NoDoc /\ PreservesSmeWork(doc.prov)

\* What a description should say now, as the docs put it: a column's facts and
\* the definition of every confirmed term in its name; a table's columns, all of
\* them named and the facts of the shown ones current.
Grounded(a) ==
  LET d == desc[a] IN
  \/ IsReviewed(d)
  \/ /\ d # NoDoc /\ a \in Columns
     /\ d.context.facts = facts[a]
     /\ \A t \in Words[a] : IsReviewed(entry[t]) /\ entry[t].def # Insufficient
          => <<t, entry[t].def>> \in d.context.glossary
     /\ \A g \in d.context.glossary : IsReviewed(entry[g[1]]) /\ entry[g[1]].def = g[2]
  \/ /\ d # NoDoc /\ a \in Tables
     /\ d.context.omitted \cup {s[1] : s \in d.context.shown} = Of(a)
     /\ \A s \in d.context.shown : facts[s[1]] = s[2]

Ends(p) == p.at # "idle" /\ p'.at = "idle" /\ p'.code = 0

\* A describe that reports success has brought every description it was to draft
\* up to date (a confirmed term makes the next run draft the columns that use it
\* again), but for those it counts as failed and those whose facts changed after
\* it had read them: whoever reviews, confirms, discovers or profiles meanwhile.
DescribeCatchesUp ==
  [][Ends(describe) =>
       \A a \in describe.all \ (describe.failed \cup moved) : Grounded(a)]_DraftingVars

\* A glossary build that reports success leaves every term that recurs with a
\* reviewed entry or a draft of just the usages it found, but for the failed ones.
BuildCatchesUp ==
  [][Ends(build) => \A u \in build.all \ build.failed :
       \/ IsReviewed(entry[u.term])
       \/ entry[u.term] # NoDoc /\ entry[u.term].usages = u.usages]_DraftingVars
=============================================================================
