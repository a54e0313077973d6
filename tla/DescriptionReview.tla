------------------------- MODULE DescriptionReview -------------------------
(***************************************************************************)
(* A column's description between those who write it: `dla describe`       *)
(* (describe/engine.py), the cards and the bulk accept of the review UI    *)
(* (web/edits.py, web/routes), a person with an editor, `dla describe      *)
(* --commit-edits`, the resolution of a reconciliation conflict            *)
(* (reconciliation/resolve.py) and the import of a prior bundle            *)
(* (importers/normalize.py).  Each of them reads the description first and *)
(* writes it later through write_artifact, which is one step here (see     *)
(* BundleWriter).  Nothing keeps them apart: the requests of the UI run in *)
(* a pool of threads, beside each other and beside every command.          *)
(***************************************************************************)
EXTENDS Descriptions, Naturals

CONSTANTS
  Tabs,          \* cards of the UI, each in a browser tab
  Texts,         \* prose, with the signals recorded beside a draft
  Groundings,    \* grounding hashes
  None,          \* no strong confidence; no grounding hash
  MaxWrites      \* bound: how many writes there are

Docs == [prov : {"ai-drafted", "ai-drafted-edited", "sme-authored"}, text : Texts,
         conf : {"strong", None}, hash : Groundings \cup {None}, prior : BOOLEAN,
         stamp : 1 .. MaxWrites]   \* prior: imported_from is set

ASSUME TextsAssumption == Insufficient \in Texts
ASSUME NothingAssumption == NoDoc \notin Docs /\ NoDoc \notin Texts /\ None \notin Groundings
ASSUME OptionsAssumption == MaxWrites \in Nat

VARIABLES
  json,       \* [Columns -> Docs \cup {NoDoc}]   the description's .json
  md,         \* [Columns -> Texts \cup {NoDoc}]  the body of its .md
  grounding,  \* [Columns -> Groundings]          what a plan would hash now
  clock,      \* the stamp of the latest write (updated_at)
  tab,        \* what each tab shows, and the request it waits for
  job,        \* the draft `dla describe` waits for, or NoJob
  bulk,       \* the columns left to a running bulk accept
  commit      \* the descriptions left to a running --commit-edits, as it read them

vars == <<json, md, grounding, clock, tab, job, bulk, commit>>

-----------------------------------------------------------------------------
(* Values *)

Reviewed == {"ai-drafted-edited", "sme-authored"}   \* _REVIEWED
MaybeDocs == Docs \cup {NoDoc}

NoJob == [at |-> "idle"]
Jobs == [at : {"drafting"}, col : Columns, hash : Groundings, force : BOOLEAN]

\* A tab shows a card as rendered and the answer to its last request; a request
\* has read `old` and will write `text`.
Blank == [at |-> "blank"]
Cards == [at : {"open"}, col : Columns, card : MaybeDocs, said : {"page", "ok", "409"}]
Requests == [at : {"saving", "accepting"}, col : Columns, card : MaybeDocs,
             old : MaybeDocs, text : Texts]

Shows(c, doc, said) == [at |-> "open", col |-> c, card |-> doc, said |-> said]
Asks(t, what, text) == [at |-> what, col |-> tab[t].col, card |-> tab[t].card,
                        old |-> json[tab[t].col], text |-> text]
Busy(t) == tab[t].at \in {"saving", "accepting"}

-----------------------------------------------------------------------------
(* Bugs the operators that follow could have, each caught by a property below *)
NeverStale(t) == FALSE
PaysForNothing(old, hash, force) ==
  IF old # NoDoc /\ PreservesSmeWork(old.prov) THEN "sme-preserved" ELSE "none"
UnforcedEdit(old) == old # NoDoc /\ old.prov = "sme-authored"
Unstamped(old, prov, text) ==
  [prov |-> prov, text |-> text, conf |-> old.conf, hash |-> old.hash, prior |-> FALSE, stamp |-> 0]

(* What each writer decides and writes *)

\* _check_stale: the version the card was rendered with is not the latest.  A
\* card rendered without a description has no version to check.
Stale(t) ==
  LET now == json[tab[t].col]
  IN  now # NoDoc /\ tab[t].card # NoDoc /\ now.stamp # tab[t].card.stamp

\* What a reviewer's write forces: only work that is the reviewer's already.
ForceFor(old) == old # NoDoc /\ PreservesSmeWork(old.prov)

\* strong_pending_columns.
StrongPending(doc) == doc # NoDoc /\ doc.conf = "strong" /\ doc.prov \notin Reviewed

\* build_description_payload: declining to draft is never a confident draft.
Draft(c, text, conf, hash) ==
  [prov |-> "ai-drafted", text |-> text, hash |-> hash, prior |-> FALSE, stamp |-> clock + 1,
   conf |-> IF text = Insufficient THEN None ELSE conf]

\* _respawn: an edit keeps the confidence and the hash of the draft.
Respawn(old, prov, text) ==
  [prov |-> prov, text |-> text, conf |-> old.conf, hash |-> old.hash, prior |-> FALSE,
   stamp |-> clock + 1]

\* What a save writes, from scratch or over `old`.
Edited(old, text) ==
  IF old = NoDoc
  THEN [prov |-> "sme-authored", text |-> text, conf |-> None, hash |-> None,
        prior |-> FALSE, stamp |-> clock + 1]
  ELSE Respawn(old, IF old.prov = "sme-authored" THEN "sme-authored" ELSE "ai-drafted-edited",
               text)

\* resolve_result: the document's text, or a merged one, settles the column.
Settled(text) ==
  [prov |-> "sme-authored", text |-> text, conf |-> None, hash |-> None, prior |-> FALSE,
   stamp |-> clock + 1]

\* What a prior bundle may hold of a column: a draft, a reviewed draft or a
\* reviewer's text, marked as imported.
Inherited(c, text, conf, hash) ==
  LET draft == Draft(c, text, conf, hash)
  IN  {[doc EXCEPT !.prior = TRUE] :
         doc \in {draft, Respawn(draft, "ai-drafted-edited", text), Settled(text)}}

\* Why `dla describe` leaves a description alone (_should_skip_for_existing).
SkipReason(old, hash, force) ==
  IF old = NoDoc THEN "none"
  ELSE IF PreservesSmeWork(old.prov) THEN "sme-preserved"
  ELSE IF ~force /\ old.hash = hash /\ old.prov = "ai-drafted" THEN "idempotent"
  ELSE "none"

SameContent(old, doc) == old # NoDoc /\ [old EXCEPT !.stamp = 0] = [doc EXCEPT !.stamp = 0]

Verdict(c, doc, force) == Outcome(json[c], doc.prov, force, SameContent(json[c], doc))

\* write_description: the prose is the text of the JSON and the body of the
\* markdown; all that does not end in a write leaves both alone.
Write(c, doc, force) ==
  /\ clock < MaxWrites
  /\ IF Verdict(c, doc, force) = "write"
     THEN /\ json' = [json EXCEPT ![c] = doc]
          /\ md' = [md EXCEPT ![c] = doc.text]
          /\ clock' = clock + 1
     ELSE UNCHANGED <<json, md, clock>>

-----------------------------------------------------------------------------
Init ==
  /\ json = [c \in Columns |-> NoDoc]
  /\ md = [c \in Columns |-> NoDoc]
  /\ grounding \in [Columns -> Groundings]
  /\ clock = 0
  /\ tab = [t \in Tabs |-> Blank]
  /\ job = NoJob
  /\ bulk = {}
  /\ commit = [c \in Columns |-> NoDoc]

\* A new profile, relationship, comment or confirmed term changes what a plan hashes.
Reground(c) ==
  /\ \E g \in Groundings : grounding' = [grounding EXCEPT ![c] = g]
  /\ UNCHANGED <<json, md, clock, tab, job, bulk, commit>>

\* A person changes the markdown in an editor.
HandEdit(c) ==
  /\ md[c] # NoDoc
  /\ \E t \in Texts : md' = [md EXCEPT ![c] = t]
  /\ UNCHANGED <<json, grounding, clock, tab, job, bulk, commit>>

\* `dla describe` plans, reads the description and asks the LLM ...
StartDraft(c) ==
  /\ job = NoJob
  /\ \E force \in BOOLEAN :
       /\ SkipReason(json[c], grounding[c], force) = "none"
       /\ job' = [at |-> "drafting", col |-> c, hash |-> grounding[c], force |-> force]
  /\ UNCHANGED <<json, md, grounding, clock, tab, bulk, commit>>

\* ... and, when it has answered, writes.
WriteDraft ==
  /\ job # NoJob
  /\ \E text \in Texts, conf \in {"strong", None} :
       Write(job.col, Draft(job.col, text, conf, job.hash), job.force)
  /\ job' = NoJob
  /\ UNCHANGED <<grounding, tab, bulk, commit>>

\* The gateway raised, the answer did not parse, or the run was killed.
LoseDraft ==
  /\ job # NoJob
  /\ job' = NoJob
  /\ UNCHANGED <<json, md, grounding, clock, tab, bulk, commit>>

\* GET of a column's page: the card shows the JSON.
Open(t, c) ==
  /\ ~Busy(t)
  /\ tab' = [tab EXCEPT ![t] = Shows(c, json[c], "page")]
  /\ UNCHANGED <<json, md, grounding, clock, job, bulk, commit>>

\* A refused request answers 409 with the latest card, which htmx does not put
\* on the page.
Refused(t) == tab' = [tab EXCEPT ![t] = Shows(@.col, @.card, "409")]

\* PUT of a description, up to the write: load, check, compose.
AskSave(t) ==
  /\ tab[t].at = "open" /\ clock < MaxWrites
  /\ IF Stale(t)
     THEN Refused(t)
     ELSE \E text \in Texts : tab' = [tab EXCEPT ![t] = Asks(t, "saving", text)]
  /\ UNCHANGED <<json, md, grounding, clock, job, bulk, commit>>

\* POST of an accept, up to the write.  The button is there only on a card with
\* an unreviewed draft; a draft reviewed meanwhile is returned as it is.
AskAccept(t) ==
  LET now == json[tab[t].col] IN
  /\ tab[t].at = "open" /\ clock < MaxWrites
  /\ tab[t].card # NoDoc /\ tab[t].card.prov \notin Reviewed
  /\ IF now = NoDoc \/ Stale(t)
     THEN Refused(t)
     ELSE tab' = [tab EXCEPT ![t] = IF now.prov \in Reviewed THEN Shows(@.col, now, "ok")
                                    ELSE Asks(t, "accepting", now.text)]
  /\ UNCHANGED <<json, md, grounding, clock, job, bulk, commit>>

\* The write of a request: an illegal transition answers 409; anything else, a
\* write skipped to preserve SME work too, answers "Saved." or "Accepted." and
\* renders the card anew.
WriteAnswer(t, doc, force) ==
  LET c == tab[t].col IN
  /\ Write(c, doc, force)
  /\ IF Verdict(c, doc, force) = "refused"
     THEN Refused(t)
     ELSE tab' = [tab EXCEPT ![t] = Shows(c, json'[c], "ok")]
  /\ UNCHANGED <<grounding, job, bulk, commit>>

WriteSave(t) ==
  /\ tab[t].at = "saving"
  /\ WriteAnswer(t, Edited(tab[t].old, tab[t].text), ForceFor(tab[t].old))

WriteAccept(t) ==
  /\ tab[t].at = "accepting"
  /\ WriteAnswer(t, Respawn(tab[t].old, "ai-drafted-edited", tab[t].old.text),
                 ForceFor(tab[t].old))

\* "Accept all strong" lists the columns of the page ...
StartBulk ==
  /\ bulk = {}
  /\ bulk' = {c \in Columns : StrongPending(json[c])}
  /\ UNCHANGED <<json, md, grounding, clock, tab, job, commit>>

\* ... and accepts them one by one, as they are by then.
BulkAccept(c) ==
  /\ c \in bulk
  /\ bulk' = bulk \ {c}
  /\ IF json[c] = NoDoc \/ json[c].prov \in Reviewed
     THEN UNCHANGED <<json, md, clock>>
     ELSE Write(c, Respawn(json[c], "ai-drafted-edited", json[c].text), FALSE)
  /\ UNCHANGED <<grounding, tab, job, commit>>

\* `dla describe --commit-edits` loads every description ...
StartCommit ==
  /\ \A c \in Columns : commit[c] = NoDoc
  /\ commit' = json
  /\ UNCHANGED <<json, md, grounding, clock, tab, job, bulk>>

\* ... and takes over each markdown body that differs from what it has loaded.
Commit(c) ==
  /\ commit[c] # NoDoc
  /\ commit' = [commit EXCEPT ![c] = NoDoc]
  /\ IF md[c] \in {NoDoc, commit[c].text}
     THEN UNCHANGED <<json, md, clock>>
     ELSE Write(c, Respawn(commit[c], "ai-drafted-edited", md[c]), ForceFor(commit[c]))
  /\ UNCHANGED <<grounding, tab, job, bulk>>

\* A conflict (or, with --auto-confirm-matches, a match) is resolved with a text.
\* prior_sources is left out: settling a settled text again may be a rewrite.
Resolve(c) ==
  /\ \E text \in Texts : Write(c, Settled(text), TRUE)
  /\ UNCHANGED <<grounding, tab, job, bulk, commit>>

\* `dla import --prior-bundle`, which never forces, comes to the column.
ImportPrior(c) ==
  /\ \E text \in Texts, conf \in {"strong", None}, hash \in Groundings :
       \E doc \in Inherited(c, text, conf, hash) : Write(c, doc, FALSE)
  /\ UNCHANGED <<grounding, tab, job, bulk, commit>>

TabStep(t) == (\E c \in Columns : Open(t, c)) \/ AskSave(t) \/ AskAccept(t)
                \/ WriteSave(t) \/ WriteAccept(t)

Next ==
  \/ \E c \in Columns : Reground(c) \/ HandEdit(c) \/ StartDraft(c) \/ BulkAccept(c)
                          \/ Commit(c) \/ Resolve(c) \/ ImportPrior(c)
  \/ \E t \in Tabs : TabStep(t)
  \/ WriteDraft \/ LoseDraft \/ StartBulk \/ StartCommit

Spec == Init /\ [][Next]_vars

-----------------------------------------------------------------------------
(* Properties *)

\* Every variable has its type, and an accept is of an unreviewed draft.
TypeOK ==
  /\ json \in [Columns -> MaybeDocs]
  /\ md \in [Columns -> Texts \cup {NoDoc}]
  /\ grounding \in [Columns -> Groundings]
  /\ clock \in 0 .. MaxWrites
  /\ tab \in [Tabs -> {Blank} \cup Cards \cup Requests]
  /\ \A t \in Tabs : tab[t].at = "accepting" =>
                       tab[t].old # NoDoc /\ tab[t].old.prov \notin Reviewed
  /\ job \in {NoJob} \cup Jobs
  /\ bulk \subseteq Columns
  /\ commit \in [Columns -> MaybeDocs]

SmeWorkOn(c) == json[c] # NoDoc /\ PreservesSmeWork(json[c].prov)

\* SME work stays SME work, and what changes it is a reviewer's save, committed
\* edit or resolution: never a draft the LLM was asked for before the review
\* (forced or not), an accept, a bulk accept or an import, however they are
\* interleaved.
SmeWorkChangesHands ==
  [][\A c \in Columns :
       SmeWorkOn(c) /\ json'[c] # json[c]
         => /\ SmeWorkOn(c)'
            /\ (\E t \in Tabs : tab[t].at = "saving" /\ tab[t].col = c /\ ~Busy(t)')
                 \/ commit'[c] # commit[c] \/ Resolve(c)]_vars

\* The request of t has just been answered.
Answered(t) == Busy(t) /\ ~Busy(t)'

\* The column was written after the request of t had read it.
Overtaken(t) == json[tab[t].col] # tab[t].old

\* A save or accept from a card that shows a description replaces that very
\* version (_check_stale), or nothing; only if somebody else writes between its
\* read and its write can it replace a version the card never showed, and then
\* a card that showed an unreviewed draft still replaces no reviewed work.
ReplacesWhatWasShown ==
  [][\A t \in Tabs : Answered(t) /\ tab[t].card # NoDoc
       => LET c == tab[t].col
          IN  \/ json'[c] = json[c]
              \/ json[c] = tab[t].card
              \/ Overtaken(t) /\ (SmeWorkOn(c) => tab[t].card.prov \in Reviewed)]_vars

\* After "Saved." the description has the text that was saved; if it does not,
\* reviewed work came in between the read and the write of the request, and that
\* work stands.
SavedIsOnDisk ==
  [][\A t \in Tabs : Answered(t) /\ tab[t].at = "saving" /\ tab'[t].said = "ok"
       => LET c == tab[t].col
          IN  /\ json'[c] # NoDoc
              /\ \/ json'[c].text = tab[t].text
                 \/ Overtaken(t) /\ SmeWorkOn(c) /\ json'[c] = json[c]]_vars

\* One draft of describe replaces another only if the grounding has changed or
\* --force was given ("unchanged grounding is skipped, no tokens spent").
RedraftOnlyForCause ==
  [][\A c \in Columns :
       json[c] # NoDoc /\ json[c].prov = "ai-drafted" /\ json'[c] # json[c]
         => \/ json'[c].prov # "ai-drafted"
            \/ json'[c].hash # json[c].hash
            \/ json[c].prior \/ json'[c].prior
            \/ job.force]_vars

(* What the documentation says and the code does not do *)

\* edits.py:14 a change made since the form was opened is not clobbered: also
\* when the form was opened before there was a description, and nobody else writes
\* between the read and the write of the save.
SaveSparesTheUnseen ==
  [][\A t \in Tabs : Answered(t) /\ tab[t].at = "saving" /\ ~Overtaken(t)
       => LET c == tab[t].col IN json'[c] = json[c] \/ json[c] = tab[t].card]_vars
=============================================================================
