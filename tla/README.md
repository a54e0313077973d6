# A TLA+ model of the Data Landscape Agent

This directory holds TLA+ specifications of `apps/dla` (the Data Landscape Agent,
`dla`), the TLC configurations that check them on small instances, and proofs that
TLAPS checks for every value of the constants. The program reads a data source,
drafts documentation of its tables and columns into a *bundle* (a directory of
`.json` / `.md` pairs) and lets subject-matter experts (SMEs) review it, in a
browser, in an editor, or by reconciling it with documents the client supplies.
The bundle is the only shared state: every command is a process of its own, the
review UI is a server with a thread pool, a person may have a file open in an
editor, and nothing locks anything. The promise the program makes throughout is
that re-running a command is safe and that reviewed work is never lost.

Line references are to `src/apps/dla/src/dla/` unless another path is given.

## 1. Inventory

| component | state it keeps | operations | what makes it correct |
|---|---|---|---|
| bundle writer (`bundle/writer.py`) | an artifact's `.json` and `.md`, temp files | `write_artifact`, `write_manifest`, `refresh_manifest_counts` | the two files of an artifact agree; no temp file stays; reviewed work is not overwritten by a re-run; created_at survives |
| provenance rules (`bundle/provenance.py`) | none | `assert_transition_allowed`, `preserves_sme_work` | the only legal changes of origin |
| orchestrator (`orchestrator/`, `cli/run.py`) | `.run_state.json`, the run in progress | plan, run, record, resume, interrupt | the record claims no more than was done; it agrees with what was reported |
| description engine (`describe/engine.py`) | descriptions, their grounding hash | draft, skip, commit edits | drafts are redone only for cause and never over reviewed work |
| review UI (`web/`) | nothing of its own: cards open in browsers | open, save, accept, bulk accept | a save replaces what its form showed; "Saved." means saved |
| reconciliation (`reconciliation/`, `importers/`) | imports, results with a decision | import, reconcile, resolve, auto-confirm | a decision is applied once and stays |
| term mappings (`reconciliation/term_mapping.py`) | one rule per pattern and term, two files each | save, delete, resolve | a rule has both its files or neither; a deletion that is repeated ends it |
| glossary (`glossary/`) | term definitions | extract, define, feed back into grounding | a confirmed term stays, and the columns that use it are drafted again; the loop settles |
| manifest (`bundle/writer.py`, `bundle/layout.py`) | `bundle.json` | rewrite, refresh counts | counts are those of the files, once a refresh comes through alone |
| discovery (`discovery/engine.py`) | table, column and relationship artifacts | discover | wherever it is killed, no relationship dangles; a repeated run changes nothing |
| relationship inference (`discovery/relationships.py`, `tagger.py`) | none | infer, tag | evidence thresholds; declared ones are not inferred again |
| profiling (`profiling/`, `connectors/`) | profiles | count, sample, compute statistics | the figures of a profile are those of one sample; a table is profiled as one |
| readiness (`readiness/`) | issue files, a summary | check, number, assemble | what is wrong is reported once, under an id that a filter does not change, and only if it is so |
| review queue (`web/views.py`) | none | sort the columns | what has a problem comes first |
| patterns (`patterns/`) | detected patterns | star, snowflake, junction, audit columns | patterns do not replace one another, and what they name is there |
| recommender (`recommender/`) | the recommendation, an override | score, recommend, override | the confidence is earned; an override survives |
| KPI workbook, hierarchies (`kpi/`, `hierarchy/`) | KPIs and hierarchies that name tables and columns | check a form, save | a reference that is saved was discovered |
| coverage (`coverage/`) | none | compute | reviewed never exceeds total |
| bundle validation (`bundle/validate.py`) | none | validate | finds counts that are off and references that dangle |
| configuration, prompts, LLM gateway, logging, scripts | none the bundle depends on | I/O | outside of the models, but that an LLM call answers, raises, or answers what cannot be parsed |

How they interact:

* Every command and every UI request reads artifacts through the reader, computes, and
  calls `write_artifact`. The decision whether the call may write is taken from the
  JSON on disk at the *start* of the call.
* `dla run` calls the steps discover, profile, readiness, describe, glossary, patterns,
  recommend and validate in this order and keeps a record between commands.
* The grounding hash of a description depends on the profile, the relationships, the
  table's comments and the confirmed terms: other commands change whether
  `dla describe` drafts again.
* Discovery, pattern detection and readiness read back what former runs have left. Nothing
  of it is ever removed, so what they read has accumulated over all that the source has been.
* A KPI or hierarchy form and a term-mapping rule are checked against the bundle before
  they are written, and refresh the manifest after; another process may be anywhere in between.
* A reviewer's edit, `--commit-edits` and a resolved conflict all write the same
  description, each with its own idea of what it replaces.

What is hard: a call's decision and its effect are minutes apart when an LLM is asked
in between; the two files of an artifact are two renames; failures roll back half of
it; a form stays open in a browser while everything else goes on; a record of what was
done is reused by commands with other options. `PROJECT.json` lists each hazard with its
line and the properties that would notice it.

## 2. Modules

| module | models | how state and actions correspond |
|---|---|---|
| `Provenance` | `bundle/provenance.py` | the six origins, `AllowedNext` is `_ALLOWED_TRANSITIONS` |
| `WriteRules` | the decision of `write_artifact` (155-182) | `Outcome` is skipped, refused, current or write; one definition for all modules |
| `ProvenanceRegister` | abstract specification | what an artifact's JSON promises: a register changed only by writes that the rules admit for the value they replace, or dropped by a rollback; `Lossless` is the same without the rollback |
| `SnapshotRegister` | abstract specification | the same register when writers overlap: a writer reads an artifact, and what it writes later is what the rules admit for the version it has *read* |
| `BundleWriter` | `write_artifact` with its file operations | `json`, `md`, `tmp` are the files; `op[p]` says between which two file operations process p is, and what it has read; `Begin`, `Stage`, `ReplaceJson`, `ReplaceMd`, `Raise`, `Rollback`, `Die`; `crossed` and `torn` are history |
| `Orchestrator` | `orchestrator/`, `cli/run.py` | `file` is `.run_state.json` (which can be torn), `run` the run in progress with its remaining plan and its record in memory; `Begin`, `Skip`, `Complete`, `Stop`, `Save`, `Finish`, `Abort` |
| `DescriptionReview` | one table's descriptions and all who write them | `json`, `md` are the files, `grounding` what a plan would hash, `tab` the browser tabs with their pending request, `job` the draft awaiting the LLM, `bulk` and `commit` the running lists; `ImportPrior` is `dla import --prior-bundle` at this column |
| `Reconciliation` | `importers/normalize.py`, `reconciliation/`, `cli/reconcile.py`, `web/routes/conflicts.py` | `column`, `import`, `result`, `desc` are the artifacts, `command` is the running `dla reconcile` with its results in memory and those it has still to write or to confirm, `work[w]` the resolution that the UI or the command is in, between two of its three writes; `halfway` is history, the results decided by a process that died before the rest |
| `Recommendation` | `recommender/`, `coverage/` and how readiness writes its issues | `schema` is the structure that the signals are extracted from, `review` and `issues` what coverage and the verdict are taken from, `rec` the JSON, `banner` the one line of the page that the JSON does not hold; `work[p]` is what a `dla recommend` or an override has in hand between its reading and its write; `Points`, `Top`, `Margin` and `Confidence` are the rules |
| `SchemaDiscovery` | `discovery/`, `patterns/` | `tables`, `columns`, `rels`, `patterns` are the files; `disc` is the running discovery with the stage it is in and the files left to write, `det` the pattern detection with what it found; `Overlap`, `Tag`, `Inferred`, `Found` are the rules; a discovery reads a schema once and the source is another the next time |
| `ProfileReadiness` | `profiling/`, the sampling of `connectors/postgres.py`, `readiness/`, the queue of `web/views.py` | `source` is what a query finds, `profiles`, `issues`, `summary` the files, `prof` and `run` the two commands with the columns or issues left to them; `Sample`, `Stats`, `ColumnIssues`, `Broken`, `Before`, `Number` are the rules, `Attention` and `Priority` the queue |
| `Manifest` | the counts, `kpi/`, `hierarchy/`, the files of `reconciliation/term_mapping.py`, `bundle/validate.py` | `disk`, `pages`, `refs`, `manifest` are the files and what they refer to, `work[p]` the step a process is at: about to write, between the two files of a rule, or counting directory by directory; `Keep` and `Put` are the outcomes of a forced write, already current and written; `Findings` is what the validator reports |
| `Descriptions` | what `DescriptionReview` and `Drafting` share | the columns, and the text that declines to describe |
| `Drafting` | `dla describe` and `dla glossary build` | `entry`, `desc` are the drafts, `facts` what the prompts are made from, `describe` and `build` the two commands: planning the next of the targets left or asking the LLM for it, with what it has drafted, passed over and failed at; `Context`, `Kept`, `Confirmed`, `Recurring` are the rules |
| `MC...` | instances for TLC | |
| `...Proofs` | theorems about the module they are named after | |

`BundleWriter`, `DescriptionReview`, `Reconciliation`, `Recommendation` and `Drafting` all
EXTEND `WriteRules` (`DescriptionReview` and `Drafting` by way of `Descriptions`). All modules
but `BundleWriter` take a whole `write_artifact` call as one step. `BundleWriter` implements
`SnapshotRegister`, in which a write is legal for the version that its call has read; where no
other call comes between, that is a step of `ProvenanceRegister`. So the one step of the other
modules stands for the calls that are not crossed in the few milliseconds between the read of
the writer (155) and its last rename; the reads that their commands and requests make
themselves, seconds or minutes earlier, are steps of their own in every module. From the other
side, the recommendation, the imports, the results and the descriptions of the other modules are
proved to be such registers, changed only by the provenances and force flags that their call
sites pass; the glossary entries of `Drafting` are none, as a person confirms them by editing
the file. Where the two files of an artifact matter (a rule, a committed edit, the banner of the
recommendation) the module keeps both. `Drafting` and `DescriptionReview` share the descriptions
from two sides: the first has every artifact of the bundle and what grounds its draft, the
second one table's descriptions and every way a person can change them.

## 3. What is checked

### BundleWriter

`MCBundleWriter`: two processes, one artifact, two texts, two stamps, the calls of describe and
of a review, forced and not (`DraftCalls`), and one mishap: a file operation that raises or a
process that dies. Calls overlap freely, as nothing in the code keeps them apart. Two processes
and one artifact suffice because calls on different artifacts share nothing but the type of their
files, and what a call meets of others is the last change of either file. One mishap is enough
for a failure that meets a call under way, and for what a later call makes of it. No symmetry is
used, as the run checks a liveness property.

* `TempFilesOwned`: exceptions leave no temp file.
* `PairWhole`: both files of a quiet artifact are the same document, unless a death, the
  rollback of an *update*, or a call that was *crossed* split them: one that renamed its markdown
  after another had changed the JSON (`torn` says which artifacts).
* `AcknowledgedSmeWorkDurable`: what a call reported as written with reviewed provenance stays,
  whatever unforced calls do, those that overlap it or find it half written included, until a
  forced call takes effect, a failed write rolls back, or a call takes effect that had read the
  artifact before the work was there.
* `ImplementsRegister`: the JSON behaves as `SnapshotRegister`, however calls overlap: what
  replaces it is legal over the version its writer has read, forced where it must be, and takes
  over that version's `created_at`.
* `PairHeals`: a split pair becomes whole again or is torn. Fairness: `WF(Step(p))`, a
  call that is running proceeds; it is straight-line code.

The exceptions are what the code does. Nothing locks an artifact between the read (155) and the
rename (188): an unforced call that had read a draft replaces the review that was saved in
between, and two calls may rename their JSON in one order and their markdown in the other. Nor
does it recover from a death between the renames. The properties say that these are the only ways.

`MCBundleWriterRerun` finds a disagreement: the rollback of a failed *update* unlinks
the JSON, and with it the provenance that protects the artifact, so that an unforced
re-run overwrites the reviewed markdown, which `docs/bundle-contract.md:87` excludes.

### Orchestrator

`MCOrchestrator`: five steps, one of each kind (plain, critical-stop, LLM, last,
validating), with and without `--from-step` and `--skip-step`, with and without
`--llm` and `--resume`, any number of commands, stops and deaths.

* `CompletedSound`: no record, in memory or on disk, claims a step whose body never
  completed.
* `RecordHonest`: what a command reports and what the record says agree: success means that
  every step that had to run is recorded, a stop names the recorded failure, and the record
  does not name as failed a step that has been completed since.
* `ResumeCovers`: as long as the operator always passes `--llm` and never picks steps,
  `--resume` passes over no step that has not completed. The restriction is the point: with
  `--from-step` or without a gateway it does not hold, because `--resume` starts after the
  last completed step of any run.

That a run ends follows from the `for` over a finite plan; it is not checked.

### DescriptionReview

`MCDescriptionReview`: one description, two tabs, two texts (one of them the draft that
declines), three writes; requests of the UI, describe, the editor, commit-edits, resolutions and
the import of a prior bundle all interleave their reads and writes at will. Two tabs are what a
stale form needs; three writes are a draft, a review and what follows it.

* `ReplacesWhatWasShown`: a save or accept replaces the very version that its card showed, or
  nothing. Only if another write comes between its read and its write (`Overtaken`) can it
  replace one the card never showed, and then a card that showed an unreviewed draft still
  replaces no reviewed work: the writer checks again.
* `SavedIsOnDisk`: after "Saved." the description has the text that was saved, or reviewed work
  came between the read and the write of the request and stands. (The flag that forces the write
  is computed from the version read before, `web/edits.py:96`, and a skipped write is reported as
  "Saved." too: the reviewer who loses this race is not told.)
* `SmeWorkChangesHands`: reviewed work stays reviewed and is replaced only by a reviewer's
  save, committed edit or resolution, never by a draft, an accept, a bulk accept or an import.

`MCDescriptionReviewRedraft`: one tab, two grounding hashes. `RedraftOnlyForCause`: a draft of
describe replaces another only if the grounding has changed or `--force` was given; "no tokens
spent" otherwise. Drafts that a prior bundle brings or has brought are excepted, as the import
compares no hashes.

`MCDescriptionReviewUnseen` finds a disagreement: a form rendered when there was no
description carries no version, and its save replaces whatever has been written since,
which `web/edits.py:14` excludes.

### Reconciliation

`MCReconciliation`: one imported document about column `c2`, a column `c1` whose name is
near to it, both discovered at any time or never; the document says either of two types
and is imported again at any time; `dla reconcile` with and without
`--auto-confirm-matches`; the conflicts page; drafts and reviews of the description from
elsewhere; the process of the command or of the page dies anywhere. One document is
enough because results, imports and resolutions of different documents share only the
description of a common target, and the other writers of that description (`Draft`,
`Review`) stand for them; two columns give an exact match, a near match, none, and the
`gap-source-only` result of a column that no document is about. One text is enough: the
properties speak of origins, and whose text wins is the matter of `DescriptionReview`.

* `DecisionTakesEffect`: when nobody is at work on a decided result and no process died
  half way through its resolution, the import is reconciled, and if the document's side
  was chosen, the description of its target is SME-authored. The second worker, a re-run
  that overwrites results, a re-import and a redraft may all come between the three writes.
* `ResolutionNeverRefused`: none of the three writes can be refused for the origin of what
  it finds, so the first, which records the decision, is not left without the others.
* `ReconciledStays`: a re-import never takes an import back; only a resolution rewrites
  one that is reconciled, as reconciled.

### Recommendation

`MCRecommendation`: the thresholds of `ThresholdsConfig`, four schemas that may grow into
each other (dense without junctions; at the threshold of text; two junctions beside a
little text; junction-rich and full of text), two items to review, so that coverage is
none, zero, half or full, one issue file of two severities, one process that recommends and
one that overrides, with two strategies to choose. The boundaries of the rules are crossed
by these; that they hold at every value is proved.

* `OverrideKept`: an override survives every recompute, also one that had read the bundle
  before the override was recorded.
* `ConfidenceEarned`: the confidence on disk is borne out by the points and the coverage
  recorded with it; a bundle with nothing to review never counts as reviewed.

### SchemaDiscovery

`MCSchemaDiscovery`: four tables in the configured schemas and one outside, five sources that
the world may be between runs (nothing declared; two that declare different keys, and chains of
them; a composite key that leaves the schemas; a table that all others refer to, in cycles),
discoveries and pattern detections in any order and number, one of them killed anywhere. The
values of the columns reach every outcome of the overlap (failed, low, dense, high) at budgets
of two rows; the thresholds are parameters. The state is finite without a bound on the runs,
because the files are.

* `RefsResolve`: the ends of every relationship on disk are columns on disk, of tables on disk,
  wherever a discovery was killed and whatever the source has become. `build_graph` looks the
  ends up, so that no detection can raise `KeyError`.
* `CatalogGrounded`: what any pattern file says of tables, columns and links is still there.
* `PatternsKeepTheirFiles`: the patterns of one detection do not replace one another, while
  the foreign keys of the bundle form no cycle (with one, two snowflakes get the same id).
* `LinksBorneOut`: the confidence of every relationship on disk is what some state of the source
  says of it: `Explicit` what was declared, `Strong` just the inferred links between columns of one
  type whose values do not contradict them. The minimum ratio and the guards of selectivity do
  not occur in it: they choose the signal that is recorded, never the confidence.
* `RerunIsIdempotent`: FR-016, a repeated discovery or detection changes no file, also after
  it was killed half way through the repetition.

That the files are well typed is proved and not in the run, as `LinksBorneOut` says more of them.

### ProfileReadiness

`MCProfileReadiness`: two tables, a text column that refers to an integer key, seven sources
(clean; with orphans, one of them `"007"`, nulls and a constant; a table that is denied; blocks
that hit no row together with values that cannot be ordered; an empty table and a column that
may not be read; a child column that comes as floats, as a nullable integer column of a CSV file
does; digits that `int()` does not take), a sampling budget of two rows, so that tables are larger,
as large and smaller; three commands, two changes of source or schema, one death. `dla profile`
and `dla readiness` overlap. A value of any other type than integer and text is told apart from
those by `repr`, and `Others` stands for such types.

* `ProblemsAreQueued`: after a complete readiness run every column with a problem and both ends
  of every broken key are at the top of the review queue, while it is repeated too, with a
  filter, or killed.
* `SummaryBacked`: until the inputs change, the summary lists exactly the issues from some
  severity upwards, and each has its file under the id that the summary gives.
* `RerunIsIdempotent`: assembling the same inputs again rewrites no issue file. That a filter by
  severity renumbers nothing rests on the sort, which puts the gravest first.
* `TableProfiledAsOne`: the columns of a table that was profiled to its last column are
  unprofiled together or not at all, though the permission may be revoked on the way.
* `OrphansAreReal`: a key that is called broken has a child value that no parent row equals,
  numbers written as text included, if all parent rows fit the sample and the two sides can be
  compared: both of one type, or integers and texts. For an integer against a float or a Decimal
  the code reports orphans whatever the values are (see the disagreements below).

### Manifest

`MCManifest`: two tables with a column of the same name each (a bare dimension is ambiguous as
soon as both are discovered), three KPI forms, one hierarchy, one rule, one description, two
processes, three commands, one failing write or death. Two processes are what a race needs, the
third command finds what two have left. What a KPI, hierarchy or rule says besides its
references is not kept: whether a forced write finds it current is a choice (`Keep` or `Put`).
The processes differ in nothing but their names and no liveness is checked, so they are declared
symmetric.

* `CountsHonest`: when nobody is at work the validator finds no count that is off, unless the
  last refresh was cut short or overlapped or never asked for (`behind`); and a refresh that
  comes through alone heals all that was off before.
* `NoPhantoms`: a KPI or hierarchy refers to nothing that was not discovered. What dangles went
  with a failed write, since the rollback removes the file.
* `RulesWhole`: when nobody is at work a rule has both its files or neither, unless a death, a
  failed write or a save between the two halves of a deletion parted them; and then the next
  complete deletion removes what is left, and a save with something new to say writes both.
  A save of what the JSON says already touches neither file, so it repairs nothing; one that
  comes between the halves of a deletion writes nothing, and the deletion ends as if alone.

### Drafting

`MCDrafting`: one table with two columns, of which the prompt shows one (`Cap`), two facts a
column may have, a term that the columns share and one that the table has too, three changes of
the bundle, two commands. One describe and one build may run at the same time. Two commands are
a build and the describe that must notice, or a draft and its repetition; three changes are a
confirmation, a new fact and a review.

* `DescribeCatchesUp`: a describe that reports success leaves every description it was to
  draft up to date with the facts, the other columns and the confirmed terms, except those it
  counts as failed and those whose context changed after it had read it. In particular a
  term confirmed before makes it draft again the columns that use the term.
* `BuildCatchesUp`: a build that reports success leaves every recurring term with a reviewed
  entry or a draft of exactly the usages found, except the failed ones.

Both are action properties, claims about the step with which a command ends. That it ends
needs nothing but a gateway that answers or raises, and is not checked.

### Further disagreements met while modelling

Each follows from reading the lines named; no run is spent on them.

* `bundle/writer.py:191`: a failing markdown write of an update leaves the old `.md`
  without its JSON, the state that the comment at 187 excludes.
* `bundle/writer.py:175`: `already_current` is decided from the JSON alone, so a stale or
  missing `.md` is never repaired.
* `bundle/writer.py:155`: nothing keeps two calls on one artifact apart: an unforced call that has
  read a draft replaces the review written before its rename, which `docs/bundle-contract.md:87`
  excludes, and the files of the two may end up in a pair.
* `cli/run.py:127` says "all steps already completed" whenever the plan is empty, also when
  LLM steps were skipped or steps were dropped by hand.
* `orchestrator/runner.py:274` turns a connection error into `PipelineError`, so its
  exit code is 1, where `docs/operator-guide.md:127` says 2.
* `orchestrator/recovery.py:49`: after a complete run, a second one that is interrupted in an
  earlier step is not resumed there: `--resume` passes over the step, which an earlier run
  completed (`apps/dla/tests/integration/test_run_interrupt.py:97`, "picks up where the run
  stopped").
* `web/edits.py:117`: accept rewrites the markdown from the JSON and drops an uncommitted
  hand edit ("without touching the body", 107).
* `web/edits.py:144`: bulk accept has no version check, so a column redrafted with less
  confidence after it was selected is accepted.
* `web/routes/columns.py:97`: the refusal renders the latest card with status 409, which
  htmx does not swap in.
* `describe/engine.py:1096`: `--commit-edits` always writes `ai-drafted-edited`, which is
  refused from `sme-authored`.
* `web/deps.py:17`: the UI shows the JSON, not the edited markdown.
* `reconciliation/__init__.py:56`: a result is built without `sme_decision`, so a re-run of
  `dla reconcile` drops the decisions taken, and the conflict is listed as open again.
* `cli/reconcile.py:73`: `--auto-confirm-matches` on a re-run puts the document's text back
  over what a reviewer has written since; theirs is kept in `prior_sources` only.
* `recommender/strategies.py:118` says that "a real vector/graph signal always outscores"
  a plain schema; density alone earns two points, a small schema without junctions too, and
  the tie goes to the plain schema.
* `recommender/strategies.py:7-10` makes a schema with enough junction tables a graph domain; the
  points for it need both thresholds, and nothing in `config/models.py:158-168` keeps the one for
  a rich schema above the other, so that reaching it alone may not be enough.
* `recommender/override.py:3` says that an override does not rewrite the recommender's pick;
  one that has read the recommendation before a recompute writes the old pick back.
* `readiness/report.py:52`: files of issues that have been solved stay, and the verdict of the
  recommendation counts them: RED remains RED.
* `web/routes/recommender.py:47` overrides with the default thresholds, not the configured
  ones.
* `reconciliation/__init__.py:103`: the `source-only` result of a column stays when a
  document about it is imported or when the column disappears.
* `reconciliation/resolve.py:90`: a near match is auto-confirmed for the name in the document,
  not for the column it was matched with: the description is written for a column that does
  not exist and the matched one has none, though `resolve.py:4` says that the text becomes
  "the column's description".
* `recommender/engine.py:207`: the readiness verdict is in the markdown only and a write is
  skipped when the JSON is current, so after a readiness run has found a critical issue
  `dla recommend` leaves GREEN or AMBER on the page, where `docs/bundle-contract.md:132` says
  that the same bundle always yields the same recommendation.
* `discovery/tagger.py:93`: an inferred link of one type is `Strong` at any overlap above
  `value_overlap_failed_max_ratio`, where `apps/dla/README.md:615` calls `value_overlap_min_ratio`
  the "minimum sampled-value overlap to call an inferred FK "Strong"".
* `discovery/tagger.py:11` says of a failed overlap that "the FK-side values simply do not
  exist on the PK side": 50 child values are compared with the first 200 parent values, so they
  may exist further on.
* `patterns/__init__.py:31`: a pattern that changes gets a new id and the old file stays: a
  table can be the centre of a stale star and a junction at once. With a cycle of foreign keys
  two snowflakes get the same id, and one file.
* `profiling/samplers.py:93`: blocks that hit no row are a sample of no rows, and so is a table
  that may not be read; `readiness/checks.py:119` then reports an empty table, critically.
* `readiness/checks.py:188`: keys of other types are compared by `repr`, so that `1.0` (an integer
  column with nulls, as `connectors/csv_folder.py:109` reads it) or `Decimal('1')` (`numeric` in
  PostgreSQL) is an orphan of the parent `1`, and every such foreign key a critical broken one;
  `checks.py:267` means that equal values of differing types "don't report as false orphans".
* `readiness/checks.py:151`: `int()` raises on a text such as a superscript digit, which `isdigit`
  lets pass, and the readiness run ends with nothing written.
* `connectors/postgres.py:244`: a column that may not be read gives no rows and no error, so
  it is `profiled` with no rows, and no issue is about it.
* `readiness/checks.py:247` warns of false negatives on large tables: the first rows of the
  child are compared with the first rows of the parent, so that false positives are as likely.
* `readiness/report.py:123`: when the values of one foreign key cannot be read, `sample_column`
  raises and the readiness run ends with nothing written.
* `docs/bundle-contract.md:50` says that every writing command recounts, "so the counts always
  equal what a consumer will find on disk": a save or accept in the UI and `--commit-edits`
  refresh nothing.
* `reconciliation/term_mapping.py:105`: a deletion removes the page first; a save of the same
  rule with another precedence in between is left with its page and no rule. After a deletion that
  was killed in between, saving the same rule again finds the JSON current and does not bring the
  page back.
* `web/routes/kpi.py:77`: the update of a KPI ignores the id in its path: renaming makes a
  second KPI, and two names with the same slug are one.
* `kpi/artifacts.py:59`: a KPI with a bare dimension can no longer be saved unchanged when a
  later discovery makes the name ambiguous.
* `cli/bundle.py:97` exits with 5 where `docs/bundle-contract.md:157` says 4.
* `glossary/definer.py:128`: the write is outside of the handler, so a term that is confirmed
  while the LLM was asked ends a forced build: later terms are not drafted and the counts are
  not refreshed.
* `describe/engine.py:1002`: a draft whose write is skipped, because somebody reviewed the
  description meanwhile, is counted as drafted.

## 4. What is proved

All theorems hold for any non-empty or empty sets of processes, artifacts, columns, tabs
and texts, any pipeline (with distinct steps), any bounds. Nothing is assumed but the
named ASSUMEs of the modules, which TLC evaluates on every run.

* `BundleWriterProofs`: types, `TempsOwned`, `PairsWhole`, `SmeWorkDurable` and `Refinement`,
  however calls overlap, fail and die. Their inductive invariant `IInv` adds to the types that the
  decision a call took is legal for the version it has read, and that this is still the JSON
  unless the call was crossed (`DecisionHolds`); that a call between its renames that was not
  crossed has its document in the JSON and claims over no earlier work (`HalfwayClaims`); that of
  several such calls on one artifact only the last is not crossed (`OneUncrossed`); and what may
  be said of the pair and of acknowledged work outside of the calls (`PairOutside`, `OwedKept`).
  None of the properties is inductive without these, because each speaks of quiet artifacts.
  `SplitPairsMend` is the safety half of `PairHeals`: a split pair that is not torn has a call on
  it with at most three file operations to do until it is whole or torn, and no other call undoes
  one.
* `OrchestratorProofs`: types, `Completed`, `RecordIsHonest` and, for any pipeline and any
  operator, `ResumeIsCovered`. The invariant relates the record in memory to the plan that
  remains (`RunInv`) and the failure it names to the last step (`FailedInv`); for the
  resumption, `PlainInv` says that, while the operator picks no steps, whatever is up to the
  last completed step of a record, or no longer in the plan of a run, has been done.
  `RunShrinks`: each step of a run ends it or leaves less to do, so that it has ended after at
  most 3n + 2 of them for a pipeline of n steps.
* `DescriptionReviewProofs`: types, `SmeWorkSafe`, `ShownIsReplaced`, `SavedIsSaved`,
  `RedraftsHaveCause` and `DescriptionsAreARegister`, under every overlap. The invariant ties the
  version a card shows to the one its request has read (`_check_stale` has seen the same stamp, and
  stamps are not used twice) and the draft job to the description it has skipped or read: that
  a description is an unreviewed draft of the same hash while the LLM is asked is possible only if
  it was forced, or came from a prior bundle.
* `Drafting` is the second half of the same module, which EXTENDS both sides of the
  descriptions: types, `DescribeLeavesItCurrent` and `BuildLeavesItSettled`, all of what its run
  checks, and `DraftsAreARegister`. The properties speak of the step with which a command ends,
  so the work is in what holds before it: `DescribeInv` says that every target describe is done
  with is current, and that what it has read for the target in hand still is so, unless the
  target is among those that `moved`; it rests on each action of the others either leaving a
  context as it is or putting its target there. `BuildInv` says that the terms a build is done
  with are decided for the usages it found, which needs that no two of its targets are of one
  term, or the second would undo the first.

* `ReconciliationProofs`: types, `NeverRefused`, `ReconciledIsKept` and, for any documents,
  matches and near matches, `DecisionsCount`. A resolution decides first and acts later,
  so `DecisionTakesEffect` says nothing while one is at work; the invariant `IInv` says
  who owes what in between: what a command holds in memory is undecided (`BatchFresh`),
  what is worked on exists (`Present`), the import is reconciled before the description is
  settled (`ImportFirst`), and every decision on disk has had its effect unless a worker
  *owes* it, being past the first write with the same side, or died (`Done`).
  `ReconciliationKeepsRegisters` takes imports, results and descriptions as three registers.

* `RecommendationProofs`: types, `OverridesStay`, `ConfidenceIsEarned` and `StructureIsFollowed`
  for any schemas, items and thresholds; the configuration orders none of them, and nothing is
  assumed of them but that they are numbers. Lemmas give the range of each strategy's points,
  that the order by points and precedence has a best strategy, and that the margin is its lead
  over all others; the invariant `IInv` says the same of what a process has in hand as of what
  is on disk, and that exactly the SME-authored recommendations carry an override.
  `RecommendationIsARegister` follows from it: recomputes are never forced, overrides always.

* `SchemaDiscoveryProofs`: types, `ReferencesResolve`, `CatalogIsGrounded`, `LinksAreBorneOut`,
  `PatternFilesAreKept` and `DiscoveryIsIdempotent`, that is, all of what the run checks, for
  any source that is a schema (`IsSchema`) and any thresholds. `LinksBorneOut` is inductive,
  each of the others has an invariant of its own: `RefInv` adds to the relationships that the
  columns of the schema being written are in place before its links are; `GroundInv` that what a
  detection has found is grounded as well as what it has written; `FilesInv` that the ids of one
  detection differ, which rests on ranking the tables along acyclic foreign keys; `IdemInv` that
  what a complete discovery has written is still there as long as nothing else was begun, and
  that a repetition has written nothing else. `EvidenceDecides` computes the tag of a pair from
  types and contradiction alone, and `ParentRowsOnlyPromote` says that reading more rows of the
  parent never demotes a link.
* `ProfileReadinessProofs`: types, `TablesAreProfiledAsOne`, `SummaryIsBacked`,
  `ReadinessIsIdempotent`, `ProblemsReachTheQueue` and `OrphansAreFound`, all of what the run
  checks, for any finite schema, source, budget and threshold. Lemmas say that the sort of
  issues is a strict total order, so that ids differ; that a filter by severity keeps the
  numbers; that the figures of a profile are those of a sample; and that the coercion of one
  side of a foreign key tells apart just the values that differ, whatever types there are
  besides. `RunInv` ties a run to what it has read, and says that a full run leaves a file for
  each issue; `TableInv` that what is left of a table that was not counted yet is the whole
  table.
* `ManifestProofs`: types, `NothingDangles`, `RulesStayWhole`, `CountsAreHonest`, all of what
  the run checks, for any number of processes, forms, commands and failures. `RefInv` extends
  `NoPhantoms` to the references a command has checked and not written yet; `RuleInv` says that
  while a deletion is between its two files and no save came between, the page is gone;
  `CountInv` that a refresh nobody overlapped has counted right so far, and that the
  manifest is right, behind, or about to be refreshed.

Only model-checked: the liveness property `PairHeals`. The part without fairness is proved
(`SplitPairsMend`); that a step which is enabled and fair is taken is beyond the prover. Proved
and not in a run's list, besides this and `RunShrinks`, the registers, `ParentRowsOnlyPromote` and
the types of `SchemaDiscovery`: `StructureDecides` of `Recommendation` (a schema with a junction
that reaches both junction thresholds is a graph domain whatever its text, and no schema with
enough text, long text or enough junctions is plain).

## 5. What the models leave out

* An unlink that raises inside the rollback of the writer, and a hard error of `fsync`
  after the rename: the code has no path for either.
* `prior_sources` of a resolved description: settling a settled text again may be a
  rewrite in the model.
* The pool of threads of the UI is any number of tabs here, and a request reads once and writes
  once. Glossary entries and KPIs of a prior bundle.
* How near a name is: `Near` is a constant, and of several near columns any may be
  matched, where the code takes the best score. Type families are types here.
* Documents without a target are told apart by their text in the code; here an import
  keeps its identity when its text changes, and has a target or none for good.
* What a recommend or an override reads of the bundle before its write is read in one step;
  figures in the JSON that earn no points (KPIs, patterns other than junctions) are left out,
  so a change of them alone, which rewrites JSON and page, does not happen.
  The recorded density, length and coverage are not rounded.
* A UI server killed in the middle of a request.
* Bulk accept and commit-edits take one column in one step, read and write together.
* What prompts and answers say: texts are opaque, except for the one that declines to draft.
* `SchemaDiscovery`: the source and index artifacts, comments and descriptions of tables; one
  command at a time (two discoveries are in `Manifest`, as far as counts are concerned). Names
  that look like keys are a relation, `Naming`.
* `ProfileReadiness`: percentiles, top values and the wording of issues; the page of the queue
  is read in one step. Sampling is PostgreSQL's; `sample_column` of a CSV folder reads the first
  rows and drops the nulls among them, so that a sample may hold fewer values. `full_scan` reads
  up to `HardCap` rows. Discovered foreign keys are those between discovered columns.
* `Manifest`: types of artifacts that are not written by the modelled commands; malformed
  files, the contract version and the finding that no recommendation was made; which rule
  resolves a term; what a describe counts as failed.
* `Drafting`: the row count and the column names of the table in the context of a column
  (`describe/engine.py:279`): a change of these changes the hash of every column of the table,
  which is a change of the facts of each here; two describes at a time (an older draft may then
  replace a newer one, which the next describe repairs); the version of the prompt; collisions
  of the grounding hash; stop tokens (`Stops` is empty in the instance); `--dry-run`, which
  changes nothing. Nothing in the UI or the CLI confirms a glossary entry, so `Confirm`, a
  person who edits the entry's file, is external.
* Configuration, prompt templates, logging and the repository's scripts have no state that the
  bundle depends on. The provider behind the LLM gateway, its retries and its time limits are
  outside of the repository's code; a call that is asked for answers or raises.
* Components with status `partly` in `PROJECT.json` say there what is missing.

## 6. Plan

What is left, the first the most useful:

1. That a glossary build and a describe settle together: after a build and a describe without a
   change in between, a second pair of them drafts nothing. It needs a run of its own, in which
   `Kill` and failures are bounded, and the two invariants of section 4.
2. Term resolution (`resolve_term`: which of several matching rules wins) and the aliases of
   glossary entries, as operators checked against a reference definition.
3. The coverage figures per artifact type of the pages, and "reviewed never exceeds total".
4. Overlapping discoveries in `SchemaDiscovery`: two processes that write from different
   schemas.

Bounds will be those used here: two actors, one or two items, enough writes for a change after
a review after a draft.
