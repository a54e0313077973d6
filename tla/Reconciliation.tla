--------------------------- MODULE Reconciliation ---------------------------
(***************************************************************************)
(* The client's documents against what was discovered: `dla import`        *)
(* (importers/normalize.py), `dla reconcile [--auto-confirm-matches]`      *)
(* (reconciliation/__init__.py, cli/reconcile.py) and the conflicts page   *)
(* of the review UI (web/routes/conflicts.py).  A resolution is three      *)
(* writes, of the result, the import and the description, and it and the   *)
(* command interleave with each other and with those who write what they   *)
(* have read.  A call of write_artifact is one step (see BundleWriter).    *)
(***************************************************************************)
EXTENDS WriteRules

CONSTANTS
  Imports,   \* imported artifacts (their id is the format and the target)
  Columns,   \* columns the source may have, of one table
  Targets,   \* what documents speak of, by its right name or not
  Claim,     \* Claim[i]: the target_ref of an import, or None
  Near,      \* Near[t]: the columns whose names are close enough to t
  Texts,     \* proposed values and prose
  Types,     \* column types of the source
  DocTypes,  \* the types a document gives a column, None if it gives none
  None       \* no target, no type, no decision, no text

ASSUME RefsAssumption == /\ Claim \in [Imports -> Targets \cup {None}]
                         /\ Near \in [Targets -> SUBSET Columns]
                         /\ Imports \cap Columns = {}
ASSUME NothingAssumption == None \notin Targets \cup Types \cup Texts \cup Columns

VARIABLES
  column,   \* [Columns -> Types \cup {NoDoc}]  the discovered columns
  import,   \* the imported artifacts
  result,   \* the reconciliation results, of imports and of columns
  desc,     \* the descriptions
  command,  \* the `dla reconcile` that is running: its results, those left
  work,     \* work[w]: the resolution that w is in, of the UI or the command
  halfway   \* history: results decided by a process that died before the rest

vars == <<column, import, result, desc, command, work, halfway>>

-----------------------------------------------------------------------------
(* Values *)

ImportDocs == [prov : {"client-provided", "client-provided-reconciled"},
               text : Texts, type : DocTypes]
DescDocs == [prov : {"ai-drafted", "ai-drafted-edited", "sme-authored"}, text : Texts]

ASSUME NoDocAssumption == NoDoc \notin ImportDocs \cup DescDocs \cup Types

Keys == Imports \cup Columns
Sides == {"data", "doc", "merged"}
Results == [prov : {"discovered"}, decision : Sides \cup {"deferred", None},
            bucket : {"match", "conflict", "gap-doc-only", "gap-source-only"},
            ref : Columns \cup {None}]

ASSUME NoResultAssumption == NoDoc \notin Results /\ None \notin Sides

Workers == {"ui", "cli"}
Idle == [at |-> "idle"]
Works == [at : {"result"}, key : Keys, res : Results, side : Sides \cup {"deferred"},
          merged : Texts \cup {None}, imp : {NoDoc}]
           \cup [at : {"import", "desc"}, key : Imports, res : Results, side : Sides,
                 merged : Texts \cup {None}, imp : ImportDocs]
Commands == [at : {"writing", "confirming"}, batch : [Keys -> Results \cup {NoDoc}],
             left : SUBSET Keys, confirm : BOOLEAN]

-----------------------------------------------------------------------------
(* Bugs the operators that follow could have, each caught by a property below *)
StaysUnreconciled(imp) == imp
Clobbers(old, doc, force) == doc
Misfiled(bucket, ref) ==
  [prov |-> "discovered", decision |-> "none", bucket |-> bucket, ref |-> ref]

(* What is read and decided *)

Discovered == {c \in Columns : column[c] # NoDoc}

\* match: exact first, then by name.
Matched(i) ==
  LET t == Claim[i] IN
  IF t = None THEN {None}
  ELSE IF t \in Discovered THEN {t}
  ELSE IF Near[t] \cap Discovered # {} THEN Near[t] \cap Discovered
  ELSE {None}

\* classify: an import that names another type than the column has conflicts.
Bucket(i, ref) ==
  IF ref = None THEN "gap-doc-only"
  ELSE IF import[i].type \notin {None, column[ref]} THEN "conflict"
  ELSE "match"

\* _build_result: always without a decision.
Result(bucket, ref) == [prov |-> "discovered", decision |-> None, bucket |-> bucket, ref |-> ref]

\* reconcile, up to its writes, given what each import has been matched to: a
\* result for every import, and for the columns of a documented table that no
\* import is about.
Batch(ref) ==
  LET present == {i \in Imports : import[i] # NoDoc}
      matched == {ref[i] : i \in present} \ {None}
  IN  [k \in Keys |->
         IF k \in present THEN Result(Bucket(k, ref[k]), ref[k])
         ELSE IF k \in Discovered \ matched /\ matched # {} THEN Result("gap-source-only", None)
         ELSE NoDoc]

\* The artifact after a write_artifact: a refused or skipped write leaves it.
After(old, doc, force) ==
  IF Outcome(old, doc.prov, force, old = doc) = "write" THEN doc ELSE old

\* resolve_result: the imported artifact becomes reconciled, as it was read.
Reconciled(imp) ==
  [prov |-> "client-provided-reconciled", text |-> imp.text, type |-> imp.type]

\* The text that settles the description: the document's, or the merged one.
\* The data side, and an empty merged text, settle none.
ChosenText(w) ==
  CASE work[w].side = "doc"    -> work[w].imp.text
    [] work[w].side = "merged" -> work[w].merged
    [] OTHER                   -> None

\* There is a description to write: a text, and something it is about.
Settles(w, text) == text # None /\ Claim[work[w].key] # None

-----------------------------------------------------------------------------
Init ==
  /\ column = [c \in Columns |-> NoDoc]
  /\ import = [i \in Imports |-> NoDoc]
  /\ result = [k \in Keys |-> NoDoc]
  /\ desc = [t \in Targets |-> NoDoc]
  /\ command = Idle
  /\ work = [w \in Workers |-> Idle]
  /\ halfway = {}

\* `dla discover` finds a column, or another type of it.
Discover(c) ==
  /\ \E type \in Types : column' = [column EXCEPT ![c] = type]
  /\ UNCHANGED <<import, result, desc, command, work, halfway>>

\* normalize_and_write: an unforced write of what the document says.
Import(i) ==
  /\ \E text \in Texts, type \in DocTypes :
       import' = [import EXCEPT ![i] =
                    After(@, [prov |-> "client-provided", text |-> text, type |-> type], FALSE)]
  /\ UNCHANGED <<column, result, desc, command, work, halfway>>

\* `dla describe` drafts, import_prior_bundle inherits: unforced.
Draft(t) ==
  /\ \E doc \in DescDocs : desc' = [desc EXCEPT ![t] = After(@, doc, FALSE)]
  /\ UNCHANGED <<column, import, result, command, work, halfway>>

\* A reviewer's save, or --commit-edits: over their own work by force.
Review(t) ==
  /\ \E doc \in DescDocs :
       /\ PreservesSmeWork(doc.prov)
       /\ desc' = [desc EXCEPT ![t] = After(@, doc, TRUE)]
  /\ UNCHANGED <<column, import, result, command, work, halfway>>

-----------------------------------------------------------------------------
(* `dla reconcile` *)

\* It reads and classifies everything ...
StartReconcile ==
  /\ command = Idle
  /\ \E ref \in [Imports -> Columns \cup {None}], confirm \in BOOLEAN :
       /\ \A i \in Imports : ref[i] \in Matched(i)
       /\ command' = [at |-> "writing", batch |-> Batch(ref), confirm |-> confirm,
                      left |-> {k \in Keys : Batch(ref)[k] # NoDoc}]
  /\ UNCHANGED <<column, import, result, desc, work, halfway>>

\* ... writes the results one by one ...
WriteResult(k) ==
  /\ command.at = "writing" /\ k \in command.left
  /\ result' = [result EXCEPT ![k] = After(@, command.batch[k], FALSE)]
  /\ command' = [command EXCEPT !.left = @ \ {k}]
  /\ UNCHANGED <<column, import, desc, work, halfway>>

\* ... and, with --auto-confirm-matches, resolves the matches one by one.
EndWriting ==
  /\ command.at = "writing" /\ command.left = {}
  /\ command' = IF command.confirm
                THEN [at |-> "confirming", batch |-> command.batch, confirm |-> TRUE,
                      left |-> {k \in Keys : command.batch[k] # NoDoc
                                               /\ command.batch[k].bucket = "match"}]
                ELSE Idle
  /\ UNCHANGED <<column, import, result, desc, work, halfway>>

Resolution(k, res, side, merged) ==
  [at |-> "result", key |-> k, res |-> res, side |-> side, merged |-> merged, imp |-> NoDoc]

Confirm(k) ==
  /\ command.at = "confirming" /\ k \in command.left
  /\ work["cli"] = Idle
  /\ work' = [work EXCEPT !["cli"] = Resolution(k, command.batch[k], "doc", None)]
  /\ command' = [command EXCEPT !.left = @ \ {k}]
  /\ UNCHANGED <<column, import, result, desc, halfway>>

EndCommand ==
  /\ command.at = "confirming" /\ command.left = {} /\ work["cli"] = Idle
  /\ command' = Idle
  /\ UNCHANGED <<column, import, result, desc, work, halfway>>

-----------------------------------------------------------------------------
(* The conflicts page, and resolve_result *)

\* A result is resolved or deferred, also one resolved before.  The page lists
\* the conflicts, but it may be older than the result: no bucket is asked for.
AskResolve(k) ==
  /\ work["ui"] = Idle
  /\ result[k] # NoDoc
  /\ \E side \in Sides \cup {"deferred"}, merged \in Texts \cup {None} :
       /\ side # "merged" => merged = None
       /\ work' = [work EXCEPT !["ui"] = Resolution(k, result[k], side, merged)]
  /\ UNCHANGED <<column, import, result, desc, command, halfway>>

\* The decision is recorded on the result as it was read; a deferral, or a
\* result without an import, ends there.
WriteDecision(w) ==
  LET k == work[w].key
      imp == IF k \in Imports THEN import[k] ELSE NoDoc
  IN  /\ work[w].at = "result"
      /\ result' = [result EXCEPT ![k] =
                      After(@, [prov |-> "discovered", decision |-> work[w].side,
                                bucket |-> work[w].res.bucket, ref |-> work[w].res.ref], TRUE)]
      /\ work' = [work EXCEPT ![w] =
                    IF work[w].side = "deferred" \/ imp = NoDoc THEN Idle
                    ELSE [at |-> "import", key |-> k, res |-> work[w].res, side |-> work[w].side,
                          merged |-> work[w].merged, imp |-> imp]]
      /\ UNCHANGED <<column, import, desc, command, halfway>>

\* A resolution that completes makes up for one that did not, if it decided alike.
Completed(w) ==
  LET k == work[w].key IN IF result[k].decision = work[w].side THEN halfway \ {k} ELSE halfway

WriteImport(w) ==
  LET k == work[w].key IN
  /\ work[w].at = "import"
  /\ import' = [import EXCEPT ![k] = After(@, Reconciled(work[w].imp), TRUE)]
  /\ work' = [work EXCEPT ![w] =
                IF Settles(w, ChosenText(w))
                THEN [at |-> "desc", key |-> k, res |-> work[w].res, side |-> work[w].side,
                      merged |-> work[w].merged, imp |-> work[w].imp]
                ELSE Idle]
  /\ halfway' = IF Settles(w, ChosenText(w)) THEN halfway ELSE Completed(w)
  /\ UNCHANGED <<column, result, desc, command>>

\* The description of the target the document names.
WriteDesc(w) ==
  LET k == work[w].key IN
  /\ work[w].at = "desc"
  /\ desc' = [desc EXCEPT ![Claim[k]] =
                After(@, [prov |-> "sme-authored", text |-> ChosenText(w)], TRUE)]
  /\ work' = [work EXCEPT ![w] = Idle]
  /\ halfway' = Completed(w)
  /\ UNCHANGED <<column, import, result, command>>

\* The process ends before the rest: killed, or a write raised.
Die(w) ==
  /\ work[w] # Idle \/ (w = "cli" /\ command # Idle)
  /\ work' = [work EXCEPT ![w] = Idle]
  /\ halfway' = IF work[w].at \in {"import", "desc"} THEN halfway \cup {work[w].key} ELSE halfway
  /\ command' = IF w = "cli" THEN Idle ELSE command
  /\ UNCHANGED <<column, import, result, desc>>

Next ==
  \/ \E c \in Columns : Discover(c)
  \/ \E i \in Imports : Import(i)
  \/ \E t \in Targets : Draft(t) \/ Review(t)
  \/ StartReconcile \/ EndWriting \/ EndCommand
  \/ \E k \in Keys : WriteResult(k) \/ Confirm(k) \/ AskResolve(k)
  \/ \E w \in Workers : WriteDecision(w) \/ WriteImport(w) \/ WriteDesc(w) \/ Die(w)

Spec == Init /\ [][Next]_vars

-----------------------------------------------------------------------------
(* Properties *)

\* Every variable has its type; what is left to a command is a result, and a
\* description is written if there is a text.
TypeOK ==
  /\ column \in [Columns -> Types \cup {NoDoc}]
  /\ import \in [Imports -> ImportDocs \cup {NoDoc}]
  /\ result \in [Keys -> Results \cup {NoDoc}]
  /\ desc \in [Targets -> DescDocs \cup {NoDoc}]
  /\ command \in Commands \cup {Idle}
  /\ command # Idle => \A k \in command.left : command.batch[k] # NoDoc
  /\ work \in [Workers -> Works \cup {Idle}]
  /\ \A w \in Workers : work[w].at = "desc" => Settles(w, ChosenText(w))
  /\ halfway \subseteq Keys

OnIt(w, k) == work[w] # Idle /\ work[w].key = k

\* A decision that stands has had its effect, whoever took it and however
\* resolutions, imports and re-runs interleave, unless a process died half way
\* through it: the import is reconciled, and when the document's side was
\* chosen its target has an SME-authored description.
DecisionTakesEffect ==
  \A i \in Imports :
    /\ result[i] # NoDoc /\ result[i].decision \in Sides
    /\ i \notin halfway /\ \A w \in Workers : ~OnIt(w, i)
    => /\ import[i].prov = "client-provided-reconciled"
       /\ result[i].decision = "doc" /\ Claim[i] # None
            => desc[Claim[i]] # NoDoc /\ desc[Claim[i]].prov = "sme-authored"

\* What has been reconciled is changed by no re-import, only by a resolution
\* that is about to write it, and stays reconciled.
ReconciledStays ==
  [][\A i \in Imports :
       /\ import[i] # NoDoc /\ import[i].prov = "client-provided-reconciled"
       /\ import'[i] # import[i]
       => /\ import'[i].prov = "client-provided-reconciled"
          /\ \E w \in Workers : OnIt(w, i) /\ work[w].at = "import" /\ work'[w] # work[w]]_vars

\* The three writes of a resolution are legal whenever they come: no change of
\* the artifacts since it began makes one of them raise and leave the rest undone.
ResolutionNeverRefused ==
  \A w \in Workers :
    LET k == work[w].key IN
    /\ work[w].at = "result" => TransitionAllowed(result[k], "discovered")
    /\ work[w].at = "import" => TransitionAllowed(import[k], "client-provided-reconciled")
    /\ work[w].at = "desc"   => TransitionAllowed(desc[Claim[k]], "sme-authored")
=============================================================================
