---------------------- MODULE DescriptionReviewProofs ----------------------
(***************************************************************************)
(* Theorems of DescriptionReview, for any columns, tabs, texts, grounding  *)
(* hashes and number of writes, and, in the second half, of Drafting.      *)
(***************************************************************************)
EXTENDS DescriptionReview, Drafting, TLAPS

\* Whatever a writer composes is a description stamped with the next stamp.
NextDocs == {d \in [prov : {"ai-drafted", "ai-drafted-edited", "sme-authored"}, text : Texts,
                    conf : {"strong", None}, hash : Groundings \cup {None},
                    prior : BOOLEAN, stamp : Nat] : d.stamp = clock + 1}

\* What the six writers compose is typed (the payloads of edits.py, engine.py,
\* resolve.py and normalize.py).
LEMMA Composed ==
  ASSUME TypeOK
  PROVE  /\ \A c \in Columns, text \in Texts, conf \in {"strong", None},
               hash \in Groundings : Draft(c, text, conf, hash) \in NextDocs
         /\ \A old \in Docs, text \in Texts :
              Respawn(old, "ai-drafted-edited", text) \in NextDocs
         /\ \A old \in MaybeDocs, text \in Texts : Edited(old, text) \in NextDocs
         /\ \A text \in Texts : Settled(text) \in NextDocs
         /\ \A c \in Columns, text \in Texts, conf \in {"strong", None},
               hash \in Groundings : Inherited(c, text, conf, hash) \subseteq NextDocs
<1>1. clock \in Nat BY OptionsAssumption DEF TypeOK
<1>2. \A c \in Columns, text \in Texts, conf \in {"strong", None},
         hash \in Groundings : Draft(c, text, conf, hash) \in NextDocs
  BY <1>1 DEF Draft, NextDocs
<1>3. \A old \in Docs, text \in Texts, p \in {"ai-drafted-edited", "sme-authored"} :
        Respawn(old, p, text) \in NextDocs
  BY <1>1 DEF Respawn, NextDocs, Docs
<1>4. \A old \in MaybeDocs, text \in Texts : Edited(old, text) \in NextDocs
  <2> TAKE old \in MaybeDocs, text \in Texts
  <2>1. CASE old = NoDoc BY <1>1, <2>1 DEF Edited, NextDocs
  <2>2. CASE old # NoDoc
    <3>1. old \in Docs BY <2>2 DEF MaybeDocs
    <3> QED BY <1>3, <2>2, <3>1 DEF Edited
  <2> QED BY <2>1, <2>2
<1>5. \A text \in Texts : Settled(text) \in NextDocs BY <1>1 DEF Settled, NextDocs
<1>6. \A c \in Columns, text \in Texts, conf \in {"strong", None},
         hash \in Groundings : Inherited(c, text, conf, hash) \subseteq NextDocs
  <2> TAKE c \in Columns, text \in Texts, conf \in {"strong", None}, hash \in Groundings
  <2> DEFINE draft == Draft(c, text, conf, hash)
  <2>1. draft \in NextDocs /\ Settled(text) \in NextDocs BY <1>2, <1>5
  <2>2. Respawn(draft, "ai-drafted-edited", text) \in NextDocs
    BY <1>1, <2>1 DEF Respawn, NextDocs
  <2>3. \A doc \in NextDocs : [doc EXCEPT !.prior = TRUE] \in NextDocs BY DEF NextDocs
  <2> HIDE DEF draft
  <2>4. \A doc \in {draft, Respawn(draft, "ai-drafted-edited", text), Settled(text)} :
          [doc EXCEPT !.prior = TRUE] \in NextDocs
    BY <2>1, <2>2, <2>3
  <2> QED BY <2>4 DEF Inherited, draft
<1> QED BY <1>2, <1>3, <1>4, <1>5, <1>6

\* What a write leaves behind is typed.
LEMMA WriteTyped ==
  ASSUME TypeOK, NEW c \in Columns, NEW doc \in NextDocs, NEW force \in BOOLEAN,
         Write(c, doc, force)
  PROVE  /\ json' \in [Columns -> MaybeDocs]
         /\ md' \in [Columns -> Texts \cup {NoDoc}]
         /\ clock' \in 0 .. MaxWrites
         /\ json'[c] \in MaybeDocs
<1>1. clock \in Nat /\ clock < MaxWrites /\ MaxWrites \in Nat
  BY OptionsAssumption DEF TypeOK, Write
<1>2. doc \in Docs /\ doc.text \in Texts
  BY <1>1 DEF NextDocs, Docs
<1> QED BY <1>1, <1>2 DEF Write, TypeOK, MaybeDocs

\* A write changes a description that holds SME work only when it is forced, and
\* only along the transition table.
LEMMA WriteOverSmeWork ==
  ASSUME NEW c, NEW doc, NEW force \in BOOLEAN,
         SmeWorkOn(c), Write(c, doc, force), json' # json
  PROVE  force /\ doc.prov \in AllowedNext[json[c].prov]
BY DEF Write, Verdict, Outcome, Skips, TransitionAllowed, SmeWorkOn

\* A write is of one column.
LEMMA WriteElsewhere ==
  ASSUME TypeOK, NEW c \in Columns, NEW doc, NEW force, Write(c, doc, force),
         NEW d \in Columns, json'[d] # json[d]
  PROVE  d = c /\ json'[c] = doc /\ json' # json
BY DEF Write, TypeOK

\* The answer to a request leaves every variable typed.
LEMMA AnswerTyped ==
  ASSUME TypeOK, NEW t \in Tabs, Busy(t), NEW doc \in NextDocs, NEW old,
         WriteAnswer(t, doc, ForceFor(old))
  PROVE  TypeOK'
<1> DEFINE c == tab[t].col
<1>1. tab[t] \in Requests BY DEF TypeOK, Busy, Blank, Cards
<1>2. c \in Columns /\ tab[t].card \in MaybeDocs BY <1>1 DEF Requests
<1>3. Write(c, doc, ForceFor(old)) BY DEF WriteAnswer
<1>4. ForceFor(old) \in BOOLEAN BY DEF ForceFor, PreservesSmeWork
<1>5. /\ json' \in [Columns -> MaybeDocs]
      /\ md' \in [Columns -> Texts \cup {NoDoc}]
      /\ clock' \in 0 .. MaxWrites
      /\ json'[c] \in MaybeDocs
  BY <1>2, <1>3, <1>4, WriteTyped
<1>6. PICK card \in MaybeDocs, said \in {"page", "ok", "409"} :
        tab' = [tab EXCEPT ![t] = Shows(c, card, said)]
  BY <1>2, <1>5 DEF WriteAnswer, Refused
<1>7. Shows(c, card, said) \in Cards /\ Shows(c, card, said).at # "accepting"
  BY <1>2 DEF Shows, Cards
<1> QED BY <1>5, <1>6, <1>7 DEF TypeOK, WriteAnswer

-----------------------------------------------------------------------------
\* Every step keeps every variable typed.
LEMMA TypeStep == TypeOK /\ [Next]_vars => TypeOK'
<1> SUFFICES ASSUME TypeOK, [Next]_vars PROVE TypeOK'
  OBVIOUS
<1> USE DEF TypeOK
<1>1. CASE UNCHANGED vars BY <1>1 DEF vars
<1>2. ASSUME NEW c \in Columns, Reground(c) PROVE TypeOK' BY <1>2 DEF Reground
<1>3. ASSUME NEW c \in Columns, HandEdit(c) PROVE TypeOK' BY <1>3 DEF HandEdit
<1>4. ASSUME NEW c \in Columns, StartDraft(c) PROVE TypeOK' BY <1>4 DEF StartDraft, Jobs
<1>5. ASSUME NEW c \in Columns, BulkAccept(c) PROVE TypeOK'
  <2>1. CASE json[c] = NoDoc \/ json[c].prov \in Reviewed BY <1>5, <2>1 DEF BulkAccept
  <2>2. CASE ~(json[c] = NoDoc \/ json[c].prov \in Reviewed)
    <3>1. json[c] \in Docs /\ json[c].text \in Texts BY <2>2 DEF MaybeDocs, Docs
    <3>2. Write(c, Respawn(json[c], "ai-drafted-edited", json[c].text), FALSE)
      BY <1>5, <2>2 DEF BulkAccept
    <3>3. Respawn(json[c], "ai-drafted-edited", json[c].text) \in NextDocs
      BY <3>1, Composed
    <3> QED BY <1>5, <3>2, <3>3, WriteTyped DEF BulkAccept
  <2> QED BY <2>1, <2>2
<1>6. ASSUME NEW c \in Columns, Commit(c) PROVE TypeOK'
  <2>1. CASE md[c] \in {NoDoc, commit[c].text} BY <1>6, <2>1 DEF Commit, MaybeDocs
  <2>2. CASE md[c] \notin {NoDoc, commit[c].text}
    <3>1. commit[c] \in Docs BY <1>6 DEF Commit, MaybeDocs
    <3>2. md[c] \in Texts BY <2>2
    <3>3. Respawn(commit[c], "ai-drafted-edited", md[c]) \in NextDocs
      BY <3>1, <3>2, Composed
    <3>4. Write(c, Respawn(commit[c], "ai-drafted-edited", md[c]), ForceFor(commit[c]))
      BY <1>6, <2>2 DEF Commit
    <3>5. ForceFor(commit[c]) \in BOOLEAN BY DEF ForceFor, PreservesSmeWork
    <3> QED BY <1>6, <3>3, <3>4, <3>5, WriteTyped DEF Commit, MaybeDocs
  <2> QED BY <2>1, <2>2
<1>7. ASSUME NEW c \in Columns, Resolve(c) PROVE TypeOK'
  <2>1. PICK text \in Texts : Write(c, Settled(text), TRUE) BY <1>7 DEF Resolve
  <2>2. Settled(text) \in NextDocs BY Composed
  <2> QED BY <1>7, <2>1, <2>2, WriteTyped DEF Resolve
<1>8. ASSUME NEW t \in Tabs, NEW c \in Columns, Open(t, c) PROVE TypeOK'
  BY <1>8 DEF Open, Shows, Cards, Busy
<1>9. ASSUME NEW t \in Tabs, AskSave(t) PROVE TypeOK'
  BY <1>9 DEF AskSave, Refused, Asks, Shows, Cards, Requests, Blank, MaybeDocs
<1>10. ASSUME NEW t \in Tabs, AskAccept(t) PROVE TypeOK'
  BY <1>10 DEF AskAccept, Refused, Asks, Shows, Cards, Requests, Blank, MaybeDocs, Docs
<1>11. ASSUME NEW t \in Tabs, WriteSave(t) PROVE TypeOK'
  <2>1. tab[t].old \in MaybeDocs /\ tab[t].text \in Texts
    BY <1>11 DEF WriteSave, Requests, Cards, Blank
  <2>2. Edited(tab[t].old, tab[t].text) \in NextDocs BY <2>1, Composed
  <2> QED BY <1>11, <2>2, AnswerTyped DEF WriteSave, Busy
<1>12. ASSUME NEW t \in Tabs, WriteAccept(t) PROVE TypeOK'
  <2>1. tab[t].old \in Docs /\ tab[t].old.text \in Texts
    BY <1>12 DEF WriteAccept, Requests, Cards, Blank, MaybeDocs, Docs
  <2>2. Respawn(tab[t].old, "ai-drafted-edited", tab[t].old.text) \in NextDocs
    BY <2>1, Composed
  <2> QED BY <1>12, <2>2, AnswerTyped DEF WriteAccept, Busy
<1>13. CASE WriteDraft
  <2>1. PICK text \in Texts, conf \in {"strong", None} :
          Write(job.col, Draft(job.col, text, conf, job.hash), job.force)
    BY <1>13 DEF WriteDraft
  <2>2. job.col \in Columns /\ job.hash \in Groundings /\ job.force \in BOOLEAN
    BY <1>13 DEF WriteDraft, Jobs
  <2>3. Draft(job.col, text, conf, job.hash) \in NextDocs BY <2>2, Composed
  <2> QED BY <1>13, <2>1, <2>2, <2>3, WriteTyped DEF WriteDraft
<1>14. CASE LoseDraft BY <1>14 DEF LoseDraft
<1>15. CASE StartBulk BY <1>15 DEF StartBulk
<1>16. CASE StartCommit BY <1>16 DEF StartCommit
<1>17. ASSUME NEW c \in Columns, ImportPrior(c) PROVE TypeOK'
  <2>1. PICK doc \in NextDocs : Write(c, doc, FALSE) BY <1>17, Composed DEF ImportPrior
  <2> QED BY <1>17, <2>1, WriteTyped DEF ImportPrior
<1> QED
  BY <1>1, <1>2, <1>3, <1>4, <1>5, <1>6, <1>7, <1>8, <1>9, <1>10, <1>11, <1>12, <1>13,
     <1>14, <1>15, <1>16, <1>17 DEF Next, TabStep

\* Descriptions, tabs, jobs and requests are well typed.
THEOREM TypeCorrect == Spec => []TypeOK
<1>1. Init => TypeOK
  BY OptionsAssumption DEF Init, TypeOK, NoJob, Blank, MaybeDocs
<1> QED BY <1>1, TypeStep, PTL DEF Spec
-----------------------------------------------------------------------------
\* SME work stays SME work and changes only at a reviewer's hand: no draft asked
\* for before the review, accept, bulk accept or import touches it, in any
\* interleaving.
THEOREM SmeWorkSafe == Spec => SmeWorkChangesHands
<1> DEFINE
      Hands(c) == SmeWorkOn(c) /\ json'[c] # json[c]
         => /\ SmeWorkOn(c)'
            /\ (\E t \in Tabs : tab[t].at = "saving" /\ tab[t].col = c /\ ~Busy(t)')
                 \/ commit'[c] # commit[c] \/ Resolve(c)
<1>1. TypeOK /\ [Next]_vars => [\A c \in Columns : Hands(c)]_vars
  <2> SUFFICES ASSUME TypeOK, Next, NEW c \in Columns, SmeWorkOn(c), json'[c] # json[c]
               PROVE  Hands(c)
    OBVIOUS
  <2> HIDE DEF Hands
  \* What a write of SME work is, whoever makes it.
  <2>1. ASSUME NEW d \in Columns, NEW doc \in NextDocs, NEW force \in BOOLEAN,
               Write(d, doc, force)
        PROVE  d = c /\ force /\ doc.prov \in SmeWork /\ SmeWorkOn(c)'
    <3>1. d = c /\ json'[c] = doc /\ json' # json BY <2>1, WriteElsewhere
    <3>2. force /\ doc.prov \in AllowedNext[json[c].prov] BY <2>1, <3>1, WriteOverSmeWork
    <3>3. json[c].prov \in SmeWork BY DEF SmeWorkOn, PreservesSmeWork
    <3>4. \A p \in SmeWork : AllowedNext[p] \subseteq SmeWork
      BY DEF AllowedNext, SmeWork, Provenances
    <3>5. doc.prov \in SmeWork BY <3>2, <3>3, <3>4
    <3>6. doc # NoDoc
      <4>1. clock \in Nat /\ clock < MaxWrites /\ MaxWrites \in Nat
        BY <2>1, OptionsAssumption DEF TypeOK, Write
      <4>2. doc \in Docs BY <4>1 DEF NextDocs, Docs
      <4> QED BY <4>2, NothingAssumption
    <3> QED BY <3>1, <3>2, <3>5, <3>6 DEF SmeWorkOn, PreservesSmeWork
  <2>2. ASSUME NEW d \in Columns, Reground(d) \/ HandEdit(d) \/ StartDraft(d) PROVE FALSE
    BY <2>2 DEF Reground, HandEdit, StartDraft
  <2>3. ASSUME NEW t \in Tabs,
               (\E d \in Columns : Open(t, d)) \/ AskSave(t) \/ AskAccept(t) PROVE FALSE
    BY <2>3 DEF Open, AskSave, AskAccept
  <2>4. CASE LoseDraft \/ StartBulk \/ StartCommit
    BY <2>4 DEF LoseDraft, StartBulk, StartCommit
  <2>5. ASSUME NEW d \in Columns, BulkAccept(d) PROVE FALSE
    <3>1. json[d] \in Docs /\ json[d].text \in Texts
      BY <2>5 DEF BulkAccept, TypeOK, MaybeDocs, Docs
    <3>2. Write(d, Respawn(json[d], "ai-drafted-edited", json[d].text), FALSE)
      BY <2>5 DEF BulkAccept
    <3>3. Respawn(json[d], "ai-drafted-edited", json[d].text) \in NextDocs
      BY <3>1, Composed
    <3> QED BY <3>2, <3>3, <2>1
  <2>6. ASSUME NEW d \in Columns, Commit(d) PROVE Hands(c)
    <3>1. commit[d] \in Docs /\ md[d] \in Texts
      BY <2>6 DEF Commit, TypeOK, MaybeDocs
    <3>2. Write(d, Respawn(commit[d], "ai-drafted-edited", md[d]), ForceFor(commit[d]))
      BY <2>6 DEF Commit
    <3>3. Respawn(commit[d], "ai-drafted-edited", md[d]) \in NextDocs BY <3>1, Composed
    <3>4. ForceFor(commit[d]) \in BOOLEAN BY DEF ForceFor, PreservesSmeWork
    <3>5. d = c /\ SmeWorkOn(c)' BY <3>2, <3>3, <3>4, <2>1
    <3>6. commit'[c] # commit[c] BY <2>6, <3>5 DEF Commit, TypeOK
    <3> QED BY <3>5, <3>6 DEF Hands
  <2>7. ASSUME NEW d \in Columns, Resolve(d) PROVE Hands(c)
    <3>1. PICK text \in Texts : Write(d, Settled(text), TRUE) BY <2>7 DEF Resolve
    <3>2. d = c /\ SmeWorkOn(c)' BY <3>1, <2>1, Composed
    <3> QED BY <2>7, <3>2 DEF Hands
  <2>8. ASSUME NEW t \in Tabs, WriteSave(t) PROVE Hands(c)
    <3> DEFINE doc == Edited(tab[t].old, tab[t].text)
    <3>1. /\ tab[t].old \in MaybeDocs /\ tab[t].text \in Texts
          /\ tab[t].col \in Columns
      BY <2>8 DEF WriteSave, TypeOK, Requests, Cards, Blank
    <3>2. doc \in NextDocs BY <3>1, Composed
    <3>3. Write(tab[t].col, doc, ForceFor(tab[t].old))
      BY <2>8 DEF WriteSave, WriteAnswer
    <3>4. ForceFor(tab[t].old) \in BOOLEAN BY DEF ForceFor, PreservesSmeWork
    <3> HIDE DEF doc
    <3>5. tab[t].col = c /\ SmeWorkOn(c)' BY <3>1, <3>2, <3>3, <3>4, <2>1
    <3>6. tab'[t].at = "open"
      BY <2>8 DEF WriteSave, WriteAnswer, Refused, Shows, TypeOK
    <3>7. tab[t].at = "saving" /\ ~Busy(t)' BY <2>8, <3>6 DEF WriteSave, Busy
    <3> QED BY <3>5, <3>7 DEF Hands
  <2>9. ASSUME NEW t \in Tabs, WriteAccept(t) PROVE FALSE
    <3> DEFINE doc == Respawn(tab[t].old, "ai-drafted-edited", tab[t].old.text)
    <3>1. /\ tab[t].old \in Docs /\ tab[t].old.text \in Texts
          /\ tab[t].col \in Columns /\ tab[t].old.prov \notin Reviewed
      BY <2>9 DEF WriteAccept, TypeOK, Requests, Cards, Blank, MaybeDocs, Docs
    <3>2. doc \in NextDocs BY <3>1, Composed
    <3>3. Write(tab[t].col, doc, ForceFor(tab[t].old))
      BY <2>9 DEF WriteAccept, WriteAnswer
    <3>4. ForceFor(tab[t].old) = FALSE
      BY <3>1 DEF ForceFor, PreservesSmeWork, SmeWork, Reviewed, Docs
    <3> HIDE DEF doc
    <3> QED BY <3>1, <3>2, <3>3, <3>4, <2>1
  <2>10. CASE WriteDraft
    <3>1. PICK text \in Texts, conf \in {"strong", None} :
            Write(job.col, Draft(job.col, text, conf, job.hash), job.force)
      BY <2>10 DEF WriteDraft
    <3>2. job.col \in Columns /\ job.hash \in Groundings /\ job.force \in BOOLEAN
      BY <2>10 DEF WriteDraft, TypeOK, Jobs
    <3>3. Draft(job.col, text, conf, job.hash) \in NextDocs BY <3>2, Composed
    <3>4. Draft(job.col, text, conf, job.hash).prov = "ai-drafted" BY DEF Draft
    <3>5. Draft(job.col, text, conf, job.hash).prov \in SmeWork BY <3>1, <3>2, <3>3, <2>1
    <3> QED BY <3>4, <3>5 DEF SmeWork
  <2>11. ASSUME NEW d \in Columns, ImportPrior(d) PROVE FALSE
    <3>1. PICK doc \in NextDocs : Write(d, doc, FALSE) BY <2>11, Composed DEF ImportPrior
    <3> QED BY <3>1, <2>1
  <2> QED
    BY <2>2, <2>3, <2>4, <2>5, <2>6, <2>7, <2>8, <2>9, <2>10, <2>11 DEF Next, TabStep
<1> QED BY <1>1, TypeCorrect, PTL DEF Spec, SmeWorkChangesHands
-----------------------------------------------------------------------------
(* What a card shows, and what a request holds                                *)

\* Stamps grow: no card shows one that is still to come, and the latest version
\* with the stamp of a card is the version the card shows.
Seen(t) ==
  tab[t].at # "blank" /\ tab[t].card # NoDoc =>
    LET now == json[tab[t].col]
    IN  /\ now # NoDoc
        /\ tab[t].card.stamp <= clock
        /\ now.stamp = tab[t].card.stamp => now = tab[t].card

\* A request holds what its card showed, if it showed a description: that is what
\* _check_stale has compared with the disk.
Held(t) == Busy(t) /\ tab[t].card # NoDoc => tab[t].old = tab[t].card

CardInv == /\ TypeOK
           /\ \A c \in Columns : json[c] # NoDoc => json[c].stamp <= clock
           /\ \A t \in Tabs : Seen(t) /\ Held(t)

\* Nobody's write puts an old stamp on a column, and a write outdates the cards.
LEMMA WriteOutdates ==
  ASSUME CardInv, NEW c \in Columns, NEW doc \in NextDocs, NEW force \in BOOLEAN,
         Write(c, doc, force)
  PROVE  /\ clock \in Nat /\ clock' \in Nat /\ clock <= clock'
         /\ \A d \in Columns : json'[d] # NoDoc => json'[d].stamp <= clock'
         /\ \A d \in Columns : json[d] # NoDoc => json'[d] # NoDoc
         /\ \A d \in Columns : json'[d] = json[d] \/ json'[d].stamp = clock + 1
<1>1. clock \in Nat /\ clock < MaxWrites /\ MaxWrites \in Nat
  BY OptionsAssumption DEF CardInv, TypeOK, Write
<1>2. doc \in Docs /\ doc.stamp = clock + 1 BY <1>1 DEF NextDocs, Docs
<1>3. doc # NoDoc BY <1>2, NothingAssumption
<1>4. CASE UNCHANGED <<json, md, clock>> BY <1>1, <1>4 DEF CardInv
<1>5. CASE json' = [json EXCEPT ![c] = doc] /\ clock' = clock + 1
  <2>1. \A d \in Columns : json'[d] = IF d = c THEN doc ELSE json[d]
    BY <1>5 DEF CardInv, TypeOK
  <2>2. \A d \in Columns : json[d] # NoDoc => json[d].stamp \in Nat /\ json[d].stamp <= clock
    BY DEF CardInv, TypeOK, MaybeDocs, Docs
  <2> QED BY <1>1, <1>2, <1>3, <1>5, <2>1, <2>2
<1> QED BY <1>4, <1>5 DEF Write

\* A step that leaves a tab alone keeps what the tab has seen, if it only writes.
LEMMA SeenKept ==
  ASSUME CardInv, NEW t \in Tabs, tab'[t] = tab[t],
         clock \in Nat, clock' \in Nat, clock <= clock',
         \A d \in Columns : json[d] # NoDoc => json'[d] # NoDoc,
         \A d \in Columns : json'[d] = json[d] \/ json'[d].stamp = clock + 1
  PROVE  Seen(t)'
<1> SUFFICES ASSUME tab[t].at # "blank", tab[t].card # NoDoc
             PROVE  Seen(t)'
  BY DEF Seen
<1>1. tab[t].col \in Columns /\ tab[t].card \in Docs
  BY DEF CardInv, TypeOK, Blank, Cards, Requests, MaybeDocs
<1>2. tab[t].card.stamp \in Nat /\ tab[t].card.stamp <= clock
  BY <1>1 DEF CardInv, Seen, Docs
<1>3. json[tab[t].col] # NoDoc BY DEF CardInv, Seen
<1>4. CASE json'[tab[t].col] = json[tab[t].col] BY <1>1, <1>2, <1>3, <1>4 DEF CardInv, Seen
<1>5. CASE json'[tab[t].col].stamp = clock + 1
  BY <1>1, <1>2, <1>3, <1>5 DEF Seen
<1> QED BY <1>1, <1>4, <1>5

\* A step that writes a column and leaves the tabs alone keeps the invariant of the
\* cards, whatever requests are under way.
LEMMA QuietStep ==
  ASSUME CardInv, TypeOK', tab' = tab,
         NEW c \in Columns, NEW doc \in NextDocs, NEW force \in BOOLEAN,
         Write(c, doc, force)
  PROVE  CardInv'
<1>1. \A d \in Columns : json'[d] # NoDoc => json'[d].stamp <= clock'
  BY WriteOutdates
<1>2. ASSUME NEW t \in Tabs PROVE Seen(t)' BY WriteOutdates, SeenKept
<1>3. \A t \in Tabs : Held(t)' BY DEF CardInv, Held, Busy
<1> QED BY <1>1, <1>2, <1>3 DEF CardInv

\* The answer to a request keeps the invariant of the cards.
LEMMA AnswerStep ==
  ASSUME CardInv, TypeOK', NEW t \in Tabs, Busy(t),
         NEW doc \in NextDocs, NEW force \in BOOLEAN, WriteAnswer(t, doc, force)
  PROVE  CardInv'
<1> DEFINE c == tab[t].col
<1>1. tab[t] \in Requests BY DEF CardInv, TypeOK, Busy, Blank, Cards
<1>2. c \in Columns BY <1>1 DEF Requests
<1>3. Write(c, doc, force) BY DEF WriteAnswer
<1>4. /\ clock \in Nat /\ clock' \in Nat /\ clock <= clock'
      /\ \A d \in Columns : json'[d] # NoDoc => json'[d].stamp <= clock'
      /\ \A d \in Columns : json[d] # NoDoc => json'[d] # NoDoc
      /\ \A d \in Columns : json'[d] = json[d] \/ json'[d].stamp = clock + 1
  BY <1>2, <1>3, WriteOutdates
<1>5. \A u \in Tabs \ {t} : tab'[u] = tab[u] BY DEF WriteAnswer, Refused, CardInv, TypeOK
<1>6. \A u \in Tabs \ {t} : Seen(u)' /\ Held(u)'
  BY <1>4, <1>5, SeenKept DEF Busy, Held, CardInv
<1>7. Seen(t)' /\ Held(t)'
  <2>1. CASE Verdict(c, doc, force) = "refused"
    <3>1. tab'[t] = Shows(c, tab[t].card, "409")
      BY <2>1 DEF WriteAnswer, Refused, CardInv, TypeOK
    <3>2. UNCHANGED <<json, clock>> BY <1>3, <2>1 DEF Write
    <3>3. tab[t].at # "blank" BY DEF Busy
    <3> QED BY <3>1, <3>2, <3>3 DEF Shows, Busy, CardInv, Seen, Held
  <2>2. CASE Verdict(c, doc, force) # "refused"
    <3>1. tab'[t] = Shows(c, json'[c], "ok") BY <2>2 DEF WriteAnswer, CardInv, TypeOK
    <3> QED BY <1>2, <1>4, <3>1 DEF Shows, Busy, Seen, Held
  <2> QED BY <2>1, <2>2
<1> QED BY <1>4, <1>6, <1>7 DEF CardInv

\* However requests overlap, the cards' invariant is inductive.
THEOREM CardsHonest == Spec => []CardInv
<1>1. Init => CardInv
  <2> SUFFICES ASSUME Init PROVE CardInv OBVIOUS
  <2>1. TypeOK BY OptionsAssumption DEF Init, TypeOK, NoJob, Blank, MaybeDocs
  <2> QED BY <2>1 DEF Init, CardInv, Seen, Held, Busy, Blank
<1>2. CardInv /\ [Next]_vars => CardInv'
  <2> SUFFICES ASSUME CardInv, [Next]_vars PROVE CardInv'
    OBVIOUS
  <2>1. TypeOK /\ TypeOK' BY TypeStep DEF CardInv
  <2>2. ASSUME UNCHANGED <<json, clock, tab>> PROVE CardInv'
    BY <2>1, <2>2 DEF CardInv, Seen, Held, Busy
  <2>4. CASE UNCHANGED vars BY <2>2, <2>4 DEF vars
  <2>5. ASSUME NEW c \in Columns, Reground(c) \/ HandEdit(c) \/ StartDraft(c) PROVE CardInv'
    BY <2>2, <2>5 DEF Reground, HandEdit, StartDraft
  <2>6. CASE LoseDraft \/ StartBulk \/ StartCommit
    BY <2>2, <2>6 DEF LoseDraft, StartBulk, StartCommit
  <2>7. ASSUME NEW c \in Columns, BulkAccept(c) PROVE CardInv'
    <3>1. CASE UNCHANGED <<json, clock>> BY <2>2, <2>7, <3>1 DEF BulkAccept
    <3>2. CASE ~UNCHANGED <<json, clock>>
      <4>1. json[c] \in Docs /\ json[c].text \in Texts
        BY <2>1, <2>7, <3>2 DEF BulkAccept, TypeOK, MaybeDocs, Docs
      <4>2. Write(c, Respawn(json[c], "ai-drafted-edited", json[c].text), FALSE)
        BY <2>7, <3>2 DEF BulkAccept
      <4>3. Respawn(json[c], "ai-drafted-edited", json[c].text) \in NextDocs
        BY <2>1, <4>1, Composed
      <4> QED BY <2>1, <2>7, <4>2, <4>3, QuietStep DEF BulkAccept
    <3> QED BY <3>1, <3>2
  <2>8. ASSUME NEW c \in Columns, Commit(c) PROVE CardInv'
    <3>1. CASE UNCHANGED <<json, clock>> BY <2>2, <2>8, <3>1 DEF Commit
    <3>2. CASE ~UNCHANGED <<json, clock>>
      <4>1. commit[c] \in Docs /\ md[c] \in Texts
        BY <2>1, <2>8, <3>2 DEF Commit, TypeOK, MaybeDocs
      <4>2. Write(c, Respawn(commit[c], "ai-drafted-edited", md[c]), ForceFor(commit[c]))
        BY <2>8, <3>2 DEF Commit
      <4>3. Respawn(commit[c], "ai-drafted-edited", md[c]) \in NextDocs
        BY <2>1, <4>1, Composed
      <4>4. ForceFor(commit[c]) \in BOOLEAN BY DEF ForceFor, PreservesSmeWork
      <4> QED BY <2>1, <2>8, <4>2, <4>3, <4>4, QuietStep DEF Commit
    <3> QED BY <3>1, <3>2
  <2>9. ASSUME NEW c \in Columns, Resolve(c) PROVE CardInv'
    <3>1. PICK text \in Texts : Write(c, Settled(text), TRUE) BY <2>9 DEF Resolve
    <3>2. Settled(text) \in NextDocs BY <2>1, Composed
    <3> QED BY <2>1, <2>9, <3>1, <3>2, QuietStep DEF Resolve
  <2>10. CASE WriteDraft
    <3>1. PICK text \in Texts, conf \in {"strong", None} :
            Write(job.col, Draft(job.col, text, conf, job.hash), job.force)
      BY <2>10 DEF WriteDraft
    <3>2. job.col \in Columns /\ job.hash \in Groundings /\ job.force \in BOOLEAN
      BY <2>1, <2>10 DEF WriteDraft, TypeOK, Jobs
    <3>3. Draft(job.col, text, conf, job.hash) \in NextDocs BY <2>1, <3>2, Composed
    <3> QED BY <2>1, <2>10, <3>1, <3>2, <3>3, QuietStep DEF WriteDraft
  <2>11. ASSUME NEW t \in Tabs, NEW c \in Columns, Open(t, c) PROVE CardInv'
    <3>1. tab' = [tab EXCEPT ![t] = Shows(c, json[c], "page")] /\ UNCHANGED <<json, clock>>
      BY <2>11 DEF Open
    <3> QED BY <2>1, <3>1 DEF Shows, CardInv, Seen, Held, Busy, TypeOK
  <2>12. ASSUME NEW t \in Tabs, AskSave(t) \/ AskAccept(t) PROVE CardInv'
    <3>1. UNCHANGED <<json, clock>> /\ tab[t].at = "open"
      BY <2>12 DEF AskSave, AskAccept
    <3>2. CASE Refused(t)
      BY <2>1, <3>1, <3>2 DEF Refused, Shows, CardInv, Seen, Held, Busy, TypeOK
    <3>3. ASSUME NEW what, NEW text, ~Stale(t), tab' = [tab EXCEPT ![t] = Asks(t, what, text)],
                 what \in {"saving", "accepting"}
          PROVE  CardInv'
      <4>1. Seen(t) BY DEF CardInv
      <4>2. Seen(t)' /\ Held(t)'
        BY <2>1, <3>1, <3>3, <4>1 DEF Stale, Asks, Seen, Held, TypeOK
      <4> QED BY <2>1, <3>1, <3>3, <4>2 DEF CardInv, Seen, Held, Busy, TypeOK
    <3>4. CASE tab' = [tab EXCEPT ![t] = Shows(@.col, json[tab[t].col], "ok")]
      <4>1. tab[t].col \in Columns BY <2>1, <3>1 DEF TypeOK, Cards, Requests, Blank
      <4> QED BY <2>1, <3>1, <3>4, <4>1 DEF Shows, CardInv, Seen, Held, Busy, TypeOK
    <3> QED BY <2>12, <3>2, <3>3, <3>4 DEF AskSave, AskAccept
  <2>13. ASSUME NEW t \in Tabs, WriteSave(t) PROVE CardInv'
    <3>1. tab[t].old \in MaybeDocs /\ tab[t].text \in Texts
      BY <2>1, <2>13 DEF WriteSave, TypeOK, Requests, Cards, Blank
    <3>2. Edited(tab[t].old, tab[t].text) \in NextDocs BY <2>1, <3>1, Composed
    <3>3. ForceFor(tab[t].old) \in BOOLEAN BY DEF ForceFor, PreservesSmeWork
    <3> QED BY <2>1, <2>13, <3>2, <3>3, AnswerStep DEF WriteSave, Busy
  <2>14. ASSUME NEW t \in Tabs, WriteAccept(t) PROVE CardInv'
    <3>1. tab[t].old \in Docs /\ tab[t].old.text \in Texts
      BY <2>1, <2>14 DEF WriteAccept, TypeOK, Requests, Cards, Blank, MaybeDocs, Docs
    <3>2. Respawn(tab[t].old, "ai-drafted-edited", tab[t].old.text) \in NextDocs
      BY <2>1, <3>1, Composed
    <3>3. ForceFor(tab[t].old) \in BOOLEAN BY DEF ForceFor, PreservesSmeWork
    <3> QED BY <2>1, <2>14, <3>2, <3>3, AnswerStep DEF WriteAccept, Busy
  <2>15. ASSUME NEW c \in Columns, ImportPrior(c) PROVE CardInv'
    <3>1. PICK doc \in NextDocs : Write(c, doc, FALSE)
      BY <2>1, <2>15, Composed DEF ImportPrior
    <3> QED BY <2>1, <2>15, <3>1, QuietStep DEF ImportPrior
  <2> QED
    BY <2>4, <2>5, <2>6, <2>7, <2>8, <2>9, <2>10, <2>11, <2>12, <2>13, <2>14, <2>15
       DEF Next, TabStep
<1> QED BY <1>1, <1>2, PTL DEF Spec

\* The step that answers a request is the write of that request.
LEMMA AnswerIsWrite ==
  ASSUME TypeOK, Next, NEW t \in Tabs, Answered(t)
  PROVE  \/ tab[t].at = "saving" /\ WriteSave(t)
         \/ tab[t].at = "accepting" /\ WriteAccept(t)
<1>1. tab'[t] # tab[t] BY DEF Answered, Busy
<1>2. PICK u \in Tabs : TabStep(u)
  BY <1>1 DEF Next, Reground, HandEdit, StartDraft, BulkAccept, Commit, Resolve, ImportPrior,
              WriteDraft, LoseDraft, StartBulk, StartCommit
<1>3. u = t
  BY <1>1, <1>2 DEF TypeOK, TabStep, Open, AskSave, AskAccept, WriteSave, WriteAccept,
                    WriteAnswer, Refused
<1> QED BY <1>2, <1>3 DEF TabStep, Open, AskSave, AskAccept, WriteSave, WriteAccept, Answered, Busy

\* A save or accept replaces the version its card showed, or one that was written
\* between its read and its write, and then no reviewed work unless it showed some:
\* however requests, describe, editors, bulk accepts, commits, resolutions and
\* imports interleave.
THEOREM ShownIsReplaced == Spec => ReplacesWhatWasShown
<1> DEFINE Replaced(t) ==
      Answered(t) /\ tab[t].card # NoDoc
        => LET c == tab[t].col
           IN  \/ json'[c] = json[c]
               \/ json[c] = tab[t].card
               \/ Overtaken(t) /\ (SmeWorkOn(c) => tab[t].card.prov \in Reviewed)
<1>1. ASSUME CardInv, Next, NEW t \in Tabs PROVE Replaced(t)
  <2> DEFINE c == tab[t].col
             old == tab[t].old
  <2> SUFFICES ASSUME Answered(t), tab[t].card # NoDoc, json'[c] # json[c],
                      Overtaken(t), SmeWorkOn(c)
               PROVE  tab[t].card.prov \in Reviewed
    BY <1>1 DEF CardInv, Held, Answered, Overtaken
  <2>1. TypeOK BY <1>1 DEF CardInv
  <2>2. tab[t] \in Requests BY <2>1 DEF TypeOK, Answered, Busy, Blank, Cards
  <2>3. c \in Columns /\ old = tab[t].card /\ old \in Docs
    BY <1>1, <2>2 DEF Requests, MaybeDocs, CardInv, Held, Answered
  <2>4. PICK doc : Write(c, doc, ForceFor(old))
    BY <1>1, <2>1, AnswerIsWrite DEF WriteSave, WriteAccept, WriteAnswer
  <2>5. ForceFor(old) \in BOOLEAN BY DEF ForceFor, PreservesSmeWork
  <2>6. json' # json BY <2>3
  <2>7. ForceFor(old) BY <2>4, <2>5, <2>6, WriteOverSmeWork
  <2> QED BY <2>3, <2>7 DEF ForceFor, PreservesSmeWork, SmeWork, Reviewed, Docs
<1> HIDE DEF Replaced
<1>2. CardInv /\ [Next]_vars => [\A t \in Tabs : Replaced(t)]_vars
  BY <1>1
<1>3. Spec => [][\A t \in Tabs : Replaced(t)]_vars
  BY <1>2, CardsHonest, PTL DEF Spec
<1> QED BY <1>3 DEF ReplacesWhatWasShown, Replaced

\* After "Saved." the text is in the description, or reviewed work that came in
\* between is, in every interleaving.
THEOREM SavedIsSaved == Spec => SavedIsOnDisk
<1> DEFINE OnDisk(t) ==
      Answered(t) /\ tab[t].at = "saving" /\ tab'[t].said = "ok"
        => LET c == tab[t].col
           IN  /\ json'[c] # NoDoc
               /\ \/ json'[c].text = tab[t].text
                  \/ Overtaken(t) /\ SmeWorkOn(c) /\ json'[c] = json[c]
<1>1. ASSUME CardInv, Next, NEW t \in Tabs, Answered(t), tab[t].at = "saving",
             tab'[t].said = "ok"
      PROVE  LET c == tab[t].col
             IN  /\ json'[c] # NoDoc
                 /\ \/ json'[c].text = tab[t].text
                    \/ Overtaken(t) /\ SmeWorkOn(c) /\ json'[c] = json[c]
  <2> DEFINE c == tab[t].col
             old == tab[t].old
             doc == Edited(old, tab[t].text)
  <2> USE <1>1
  <2>1. tab \in [Tabs -> {Blank} \cup Cards \cup Requests] /\ TypeOK BY DEF CardInv, TypeOK
  <2>2. c \in Columns /\ old \in MaybeDocs /\ tab[t].text \in Texts
    BY <2>1 DEF Answered, Busy, Cards, Requests, Blank
  <2>3. WriteSave(t) BY <2>1, AnswerIsWrite
  <2>4. Write(c, doc, ForceFor(old)) /\ Verdict(c, doc, ForceFor(old)) # "refused"
    <3>1. Write(c, doc, ForceFor(old)) BY <2>3 DEF WriteSave, WriteAnswer
    <3>2. ASSUME Verdict(c, doc, ForceFor(old)) = "refused" PROVE FALSE
      <4>1. Refused(t) BY <2>3, <3>2 DEF WriteSave, WriteAnswer
      <4>2. tab'[t].said = "409" BY <2>1, <4>1 DEF Refused, Shows
      <4> QED BY <4>2
    <3> QED BY <3>1, <3>2
  <2>5. doc.text = tab[t].text BY DEF Edited, Respawn
  <2>6. doc \in NextDocs BY <2>1, <2>2, Composed
  <2>7. doc # NoDoc
    <3>1. clock \in Nat /\ clock < MaxWrites /\ MaxWrites \in Nat
      BY <2>1, <2>4, OptionsAssumption DEF TypeOK, Write
    <3>2. doc \in Docs BY <2>6, <3>1 DEF NextDocs, Docs
    <3> QED BY <3>2, NothingAssumption
  <2> HIDE DEF doc, c, old
  <2>8. Verdict(c, doc, ForceFor(old)) \in {"skipped", "current", "write"}
    BY <2>4 DEF Verdict, Outcome
  <2>9. CASE Verdict(c, doc, ForceFor(old)) = "write"
    <3>1. json'[c] = doc BY <2>1, <2>2, <2>4, <2>9 DEF Write, TypeOK
    <3> QED BY <2>5, <2>7, <3>1 DEF c
  <2>10. CASE Verdict(c, doc, ForceFor(old)) = "current"
    <3>1. SameContent(json[c], doc) BY <2>10 DEF Verdict, Outcome
    <3>2. json[c] # NoDoc /\ json[c] \in Docs
      BY <2>1, <2>2, <3>1 DEF SameContent, TypeOK, MaybeDocs
    <3>3. json[c].text = doc.text
      BY <2>6, <3>1, <3>2 DEF SameContent, Docs, NextDocs
    <3>4. json' = json BY <2>4, <2>10 DEF Write
    <3> QED BY <2>5, <3>2, <3>3, <3>4 DEF c
  <2>11. CASE Verdict(c, doc, ForceFor(old)) = "skipped"
    <3>1. json[c] # NoDoc /\ PreservesSmeWork(json[c].prov) /\ ~ForceFor(old)
      BY <2>11 DEF Verdict, Outcome, Skips
    <3>2. json[c] # old BY <3>1 DEF ForceFor
    <3>3. json' = json BY <2>4, <2>11 DEF Write
    <3> QED BY <3>1, <3>2, <3>3 DEF c, old, Overtaken, SmeWorkOn
  <2> QED BY <2>8, <2>9, <2>10, <2>11
<1> HIDE DEF OnDisk
<1>2. CardInv /\ [Next]_vars => [\A t \in Tabs : OnDisk(t)]_vars
  BY <1>1 DEF OnDisk
<1>3. Spec => [][\A t \in Tabs : OnDisk(t)]_vars
  BY <1>2, CardsHonest, PTL DEF Spec
<1> QED BY <1>3 DEF SavedIsOnDisk, OnDisk

-----------------------------------------------------------------------------
(* Redrafts.  While an unforced draft is awaited, the column has no draft of    *)
(* the same grounding, but for an imported one: the check made before the LLM   *)
(* was asked still holds.                                                       *)
JobInv ==
  job # NoJob /\ ~job.force /\ json[job.col] # NoDoc /\ json[job.col].prov = "ai-drafted"
    => json[job.col].hash # job.hash \/ json[job.col].prior

\* Nothing but a draft is written as ai-drafted, and what an import writes says that
\* it is imported.
LEMMA OthersReview ==
  /\ \A old, text : Respawn(old, "ai-drafted-edited", text).prov # "ai-drafted"
  /\ \A old, text : Edited(old, text).prov # "ai-drafted"
  /\ \A text : Settled(text).prov # "ai-drafted"
  /\ \A c, text, conf, hash : \A doc \in Inherited(c, text, conf, hash) : doc.prior
BY DEF Respawn, Edited, Settled, Inherited, Draft

\* A step other than the answer of the LLM leaves a column as it was, reviewed or
\* imported.
LEMMA OtherSteps ==
  ASSUME TypeOK, Next, ~WriteDraft, NEW c \in Columns
  PROVE  json'[c] = json[c] \/ json'[c].prov # "ai-drafted" \/ json'[c].prior
<1>1. ASSUME NEW d \in Columns, NEW doc, NEW force, Write(d, doc, force),
             doc.prov # "ai-drafted" \/ doc.prior
      PROVE  json'[c] = json[c] \/ json'[c].prov # "ai-drafted" \/ json'[c].prior
  BY <1>1, WriteElsewhere
<1>2. ASSUME NEW t \in Tabs, Busy(t) PROVE tab[t].col \in Columns
  BY <1>2 DEF TypeOK, Busy, Blank, Cards, Requests
<1>3. CASE \E d \in Columns : Reground(d) \/ HandEdit(d) \/ StartDraft(d)
  BY <1>3 DEF Reground, HandEdit, StartDraft
<1>4. CASE \E d \in Columns : BulkAccept(d)
  BY <1>1, <1>4, OthersReview DEF BulkAccept
<1>5. CASE \E d \in Columns : Commit(d)
  BY <1>1, <1>5, OthersReview DEF Commit
<1>6. CASE \E d \in Columns : Resolve(d)
  BY <1>1, <1>6, OthersReview DEF Resolve
<1>7. CASE \E t \in Tabs : (\E d \in Columns : Open(t, d)) \/ AskSave(t) \/ AskAccept(t)
  BY <1>7 DEF Open, AskSave, AskAccept
<1>8. CASE \E t \in Tabs : WriteSave(t)
  BY <1>1, <1>2, <1>8, OthersReview DEF WriteSave, WriteAnswer, Busy
<1>9. CASE \E t \in Tabs : WriteAccept(t)
  BY <1>1, <1>2, <1>9, OthersReview DEF WriteAccept, WriteAnswer, Busy
<1>10. CASE LoseDraft \/ StartBulk \/ StartCommit
  BY <1>10 DEF LoseDraft, StartBulk, StartCommit
<1>11. CASE \E d \in Columns : ImportPrior(d)
  BY <1>1, <1>11, OthersReview DEF ImportPrior
<1> QED
  BY <1>3, <1>4, <1>5, <1>6, <1>7, <1>8, <1>9, <1>10, <1>11 DEF Next, TabStep

\* A draft of describe replaces one of its own only if the grounding differs or
\* --force was given, whatever happened while the LLM was answering.
THEOREM RedraftsHaveCause == Spec => RedraftOnlyForCause
<1> DEFINE Caused(c) ==
      json[c] # NoDoc /\ json[c].prov = "ai-drafted" /\ json'[c] # json[c]
        => \/ json'[c].prov # "ai-drafted"
           \/ json'[c].hash # json[c].hash
           \/ json[c].prior \/ json'[c].prior
           \/ job.force
<1>1. Init => JobInv BY DEF Init, JobInv
<1>2. TypeOK /\ JobInv /\ [Next]_vars => JobInv'
  <2> SUFFICES ASSUME TypeOK, JobInv, Next PROVE JobInv'
    BY DEF vars, JobInv
  <2>1. CASE \E c \in Columns : StartDraft(c)
    BY <2>1 DEF StartDraft, SkipReason, JobInv, NoJob, TypeOK
  <2>2. CASE WriteDraft BY <2>2 DEF WriteDraft, JobInv
  <2>3. CASE LoseDraft BY <2>3 DEF LoseDraft, JobInv
  <2>4. CASE ~WriteDraft /\ job' = job
    <3>1. job # NoJob => job.col \in Columns BY DEF TypeOK, Jobs
    <3>2. job # NoJob => json'[job.col] = json[job.col] \/ json'[job.col].prov # "ai-drafted"
                         \/ json'[job.col].prior
      BY <2>4, <3>1, OtherSteps
    <3> QED BY <2>4, <3>2 DEF JobInv
  <2>5. ~WriteDraft /\ job' # job => (\E c \in Columns : StartDraft(c)) \/ LoseDraft
    BY DEF Next, TabStep, Reground, HandEdit, BulkAccept, Commit, Resolve, ImportPrior, Open,
           AskSave, AskAccept, WriteSave, WriteAccept, WriteAnswer, StartBulk, StartCommit
  <2> QED BY <2>1, <2>2, <2>3, <2>4, <2>5
<1>3. ASSUME TypeOK, JobInv, Next, NEW c \in Columns PROVE Caused(c)
  <2> USE <1>3
  <2>1. CASE ~WriteDraft BY <2>1, OtherSteps
  <2>2. CASE WriteDraft
    <3>1. PICK text \in Texts, conf \in {"strong", None} :
            Write(job.col, Draft(job.col, text, conf, job.hash), job.force)
      BY <2>2 DEF WriteDraft
    <3>2. job # NoJob /\ job.col \in Columns BY <2>2 DEF WriteDraft, TypeOK, Jobs
    <3>3. Draft(job.col, text, conf, job.hash).hash = job.hash BY DEF Draft
    <3>4. json'[c] # json[c]
            => c = job.col /\ json'[c] = Draft(job.col, text, conf, job.hash)
      BY <3>1, <3>2, WriteElsewhere
    <3> QED BY <3>2, <3>3, <3>4 DEF JobInv
  <2> QED BY <2>1, <2>2
<1> HIDE DEF Caused
<1>4. TypeOK /\ JobInv /\ [Next]_vars => [\A c \in Columns : Caused(c)]_vars
  BY <1>3
<1>5. Spec => [][\A c \in Columns : Caused(c)]_vars
  BY <1>1, <1>2, <1>4, TypeCorrect, PTL DEF Spec
<1> QED BY <1>5 DEF RedraftOnlyForCause, Caused

-----------------------------------------------------------------------------
(* Descriptions as artifacts of the bundle *)

\* The whole description is what a write puts in its register.
Filed(doc) == IF doc = NoDoc THEN NoDoc ELSE [prov |-> doc.prov, text |-> doc, created |-> 0]

\* write_description (describe/engine.py:740) is called for drafts, edits and settled
\* texts, with and without force.
JsonCalls == [prov : {"ai-drafted", "ai-drafted-edited", "sme-authored"}, force : BOOLEAN]

JsonRegister ==
  INSTANCE ProvenanceRegister
    WITH Artifacts <- Columns, Texts <- Docs, Stamps <- {0}, Calls <- JsonCalls,
         reg <- [a \in Columns |-> Filed(json[a])]

\* The register has the transition rules of Provenance.
LEMMA JsonRulesAgree ==
  /\ JsonRegister!AllowedNext = AllowedNext
  /\ \A p : JsonRegister!PreservesSmeWork(p) <=> PreservesSmeWork(p)
BY DEF JsonRegister!AllowedNext, AllowedNext, JsonRegister!Provenances, Provenances,
       JsonRegister!PreservesSmeWork, PreservesSmeWork, JsonRegister!SmeWork, SmeWork

\* What changes a description is a call of write_description that writes.
LEMMA OnlyWritesWrite ==
  ASSUME TypeOK, [Next]_vars, json' # json
  PROVE  \E c \in Columns, doc \in NextDocs, force \in BOOLEAN : Write(c, doc, force)
<1> DEFINE Wrote == \E c \in Columns, doc \in NextDocs, force \in BOOLEAN : Write(c, doc, force)
<1> USE DEF TypeOK
<1>1. \A old : ForceFor(old) \in BOOLEAN BY DEF ForceFor, PreservesSmeWork
<1>2. ASSUME NEW c \in Columns, BulkAccept(c) PROVE Wrote
  <2>1. json[c] \in Docs /\ json[c].text \in Texts
    BY <1>2 DEF BulkAccept, MaybeDocs, Docs
  <2>2. Respawn(json[c], "ai-drafted-edited", json[c].text) \in NextDocs BY <2>1, Composed
  <2> QED BY <1>2, <2>2 DEF BulkAccept
<1>3. ASSUME NEW c \in Columns, Commit(c) PROVE Wrote
  <2>1. commit[c] \in Docs /\ md[c] \in Texts BY <1>3 DEF Commit, MaybeDocs
  <2>2. Respawn(commit[c], "ai-drafted-edited", md[c]) \in NextDocs BY <2>1, Composed
  <2> QED BY <1>1, <1>3, <2>2 DEF Commit
<1>4. ASSUME NEW c \in Columns, Resolve(c) PROVE Wrote
  BY <1>4, Composed DEF Resolve
<1>5. ASSUME NEW t \in Tabs, WriteSave(t) PROVE Wrote
  <2>1. tab[t].old \in MaybeDocs /\ tab[t].text \in Texts /\ tab[t].col \in Columns
    BY <1>5 DEF WriteSave, Requests, Cards, Blank
  <2>2. Edited(tab[t].old, tab[t].text) \in NextDocs BY <2>1, Composed
  <2> QED BY <1>1, <1>5, <2>1, <2>2 DEF WriteSave, WriteAnswer
<1>6. ASSUME NEW t \in Tabs, WriteAccept(t) PROVE Wrote
  <2>1. tab[t].old \in Docs /\ tab[t].old.text \in Texts /\ tab[t].col \in Columns
    BY <1>6 DEF WriteAccept, Requests, Cards, Blank, MaybeDocs, Docs
  <2>2. Respawn(tab[t].old, "ai-drafted-edited", tab[t].old.text) \in NextDocs
    BY <2>1, Composed
  <2> QED BY <1>1, <1>6, <2>1, <2>2 DEF WriteAccept, WriteAnswer
<1>7. ASSUME WriteDraft PROVE Wrote
  <2>1. PICK text \in Texts, conf \in {"strong", None} :
          Write(job.col, Draft(job.col, text, conf, job.hash), job.force)
    BY <1>7 DEF WriteDraft
  <2>2. job.col \in Columns /\ job.hash \in Groundings /\ job.force \in BOOLEAN
    BY <1>7 DEF WriteDraft, Jobs
  <2>3. Draft(job.col, text, conf, job.hash) \in NextDocs BY <2>2, Composed
  <2> QED BY <2>1, <2>2, <2>3
<1>8. ASSUME UNCHANGED vars PROVE FALSE BY <1>8 DEF vars
<1>9. ASSUME NEW c \in Columns, Reground(c) \/ HandEdit(c) \/ StartDraft(c) PROVE FALSE
  BY <1>9 DEF Reground, HandEdit, StartDraft
<1>10. ASSUME NEW t \in Tabs, (\E c \in Columns : Open(t, c)) \/ AskSave(t) \/ AskAccept(t)
       PROVE  FALSE
  BY <1>10 DEF Open, AskSave, AskAccept
<1>11. ASSUME LoseDraft \/ StartBulk \/ StartCommit PROVE FALSE
  BY <1>11 DEF LoseDraft, StartBulk, StartCommit
<1>12. ASSUME NEW c \in Columns, ImportPrior(c) PROVE Wrote
  BY <1>12, Composed DEF ImportPrior
<1> HIDE DEF TypeOK, Wrote
<1>13. Wrote
  BY <1>2, <1>3, <1>4, <1>5, <1>6, <1>7, <1>8, <1>9, <1>10, <1>11, <1>12 DEF Next, TabStep
<1> QED BY <1>13 DEF Wrote

\* Descriptions are a register: whoever drafts, saves, accepts, commits, resolves or imports,
\* in any interleaving and overlapping or not, they change only by writes that are legal
\* for the version on disk at that moment, and no description is ever lost.
THEOREM DescriptionsAreARegister == Spec => JsonRegister!Lossless
<1>1. Init => JsonRegister!Init
  BY DEF Init, JsonRegister!Init, Filed
<1>2. TypeOK /\ [Next]_vars =>
        [\E a \in Columns : JsonRegister!Put(a)]_([a \in Columns |-> Filed(json[a])])
  <2> SUFFICES ASSUME TypeOK, [Next]_vars, json' # json
               PROVE  \E a \in Columns : JsonRegister!Put(a)
    OBVIOUS
  <2>1. PICK c \in Columns, doc \in NextDocs, force \in BOOLEAN : Write(c, doc, force)
    BY OnlyWritesWrite
  <2>2. /\ json' = [json EXCEPT ![c] = doc] /\ clock < MaxWrites
        /\ Outcome(json[c], doc.prov, force, SameContent(json[c], doc)) = "write"
    BY <2>1 DEF Write, Verdict
  <2>3. doc \in Docs /\ doc # NoDoc
    <3>1. clock \in Nat /\ MaxWrites \in Nat BY OptionsAssumption DEF TypeOK
    <3>2. doc \in Docs BY <2>2, <3>1 DEF NextDocs, Docs
    <3> QED BY <3>2, NothingAssumption
  <2>4. Filed(doc) = [prov |-> doc.prov, text |-> doc, created |-> 0]
    BY <2>3 DEF Filed
  <2>5. [a \in Columns |-> Filed(json[a])]' =
          [[a \in Columns |-> Filed(json[a])] EXCEPT ![c] = Filed(doc)]
    <3> SUFFICES ASSUME NEW g, g = json'
                 PROVE  [a \in Columns |-> Filed(g[a])] =
                          [[a \in Columns |-> Filed(json[a])] EXCEPT ![c] = Filed(doc)]
      OBVIOUS
    <3> QED BY <2>2 DEF TypeOK
  <2>6. json[c] # NoDoc => /\ PreservesSmeWork(json[c].prov) => force
                           /\ doc.prov \in AllowedNext[json[c].prov]
    BY <2>2 DEF Outcome, Skips, TransitionAllowed
  <2>7. JsonRegister!Admits(Filed(json[c]), Filed(doc), force)
    BY <2>3, <2>6, JsonRulesAgree DEF JsonRegister!Admits, Filed
  <2> DEFINE call == [prov |-> doc.prov, force |-> force]
  <2>8. call \in JsonCalls BY <2>3 DEF JsonCalls, Docs
  <2>9. JsonRegister!Put(c) BY <2>3, <2>4, <2>5, <2>7, <2>8 DEF JsonRegister!Put
  <2> QED BY <2>9
<1> QED BY <1>1, <1>2, TypeCorrect, PTL DEF Spec, JsonRegister!Lossless

-----------------------------------------------------------------------------
(***************************************************************************)
(* Drafting, the loop that drafts what is reviewed above, for any tables,  *)
(* columns, terms, facts and bounds.                                       *)
(***************************************************************************)
\* No definition of a term that a person has not confirmed, and never the word
\* INSUFFICIENT_SIGNAL, gets into a context.
LEMMA ContextsTyped ==
  ASSUME DraftingTypeOK, NEW a \in Artifacts
  PROVE  Context(a) \in Contexts
<1>1. CASE a \in Tables
  <2>1. Of(a) \subseteq Columns /\ Kept(a) \subseteq Of(a)
    BY DEF Of, Kept
  <2>2. {<<c, facts[c]>> : c \in Kept(a)} \in SUBSET (Columns \X Facts)
    BY <2>1 DEF DraftingTypeOK
  <2>3. Of(a) \ Kept(a) \in SUBSET Columns
    BY <2>1
  <2> QED
    BY <1>1, <2>2, <2>3 DEF Context, TableContext, Contexts
<1>2. CASE a \notin Tables
  <2>1. a \in Columns
    BY <1>2 DEF Artifacts
  <2>2. facts[a] \in Facts
    BY <2>1 DEF DraftingTypeOK
  <2>3. ASSUME NEW t \in Words[a], Confirmed(t)
        PROVE <<t, entry[t].def>> \in Terms \X Definitions
    <3>1. t \in Terms
      BY WordsAssumption
    <3>2. entry[t] \in Entries
      BY <2>3, <3>1 DEF Confirmed, DraftingTypeOK
    <3> QED
      BY <2>3, <3>1, <3>2 DEF Confirmed, Entries
  <2>4. Glossary(a) \in SUBSET (Terms \X Definitions)
    BY <2>3 DEF Glossary
  <2> QED
    BY <1>2, <2>2, <2>4 DEF Context, ColumnContext, Contexts
<1> QED
  BY <1>1, <1>2

\* A command that turns to a target, or passes over it, is a command still (the
\* loops of describe_all and define_terms).
LEMMA AsksTyped ==
  ASSUME NEW S, NEW Ctx, NEW p \in Commands(S, Ctx), NEW x \in S, NEW y \in Ctx \cup {NoDoc}
  PROVE  /\ AsksFor(p, x, y) \in Commands(S, Ctx) /\ AsksFor(p, x, y).target = x
              /\ AsksFor(p, x, y).context = y
         /\ Skipped(p, x) \in Commands(S, Ctx) /\ Skipped(p, x).at = p.at
BY DEF Commands, AsksFor, Skipped

\* So is one that has drafted the target in hand or failed at it.
LEMMA AnswersTyped ==
  ASSUME NEW S, NEW Ctx, NEW p \in Commands(S, Ctx), p.target \in S
  PROVE  /\ Drafted(p) \in Commands(S, Ctx) /\ Drafted(p).at = "planning"
         /\ Failed(p) \in Commands(S, Ctx) /\ Failed(p).at = "planning"
BY DEF Commands, Drafted, Failed, AfterAnswer

\* A command starts with all its targets left.
LEMMA StartsTyped ==
  ASSUME NEW S, NEW Ctx, NEW T \in SUBSET S, NEW f \in BOOLEAN, NEW b \in BOOLEAN
  PROVE  Starts(T, f, b) \in Commands(S, Ctx) /\ Starts(T, f, b).at = "planning"
BY DEF Starts, Commands

\* A command that is not idle is one with targets.
LEMMA Shapes ==
  ASSUME NEW S, NEW Ctx, NEW p \in Idles \cup Commands(S, Ctx)
  PROVE  /\ p.at # "idle" => p \in Commands(S, Ctx)
         /\ Planning(p) \/ Asking(p) => p \in Commands(S, Ctx) /\ p.at # "idle"
BY DEF Idles, Commands, Planning, Asking

\* The exit codes of the two commands.
LEMMA IdlesTyped ==
  ASSUME NEW code \in {0, 1, 2, 5, 137}
  PROVE  Idle(code) \in Idles /\ ~Asking(Idle(code))
BY DEF Idle, Idles, Asking

\* Entries, descriptions, commands and contexts are well typed.
THEOREM DraftingTypeCorrect == DraftingSpec => []DraftingTypeOK
<1>1. DraftingInit => DraftingTypeOK
  <2> SUFFICES ASSUME DraftingInit PROVE DraftingTypeOK
    OBVIOUS
  <2>1. Idle(0) \in Idles /\ ~Asking(Idle(0))
    BY IdlesTyped
  <2> QED
    BY <2>1, BoundsAssumption DEF DraftingInit, DraftingTypeOK
<1>2. DraftingTypeOK /\ [DraftingNext]_DraftingVars => DraftingTypeOK'
  <2> SUFFICES ASSUME DraftingTypeOK, [DraftingNext]_DraftingVars PROVE DraftingTypeOK'
    OBVIOUS
  <2> USE BoundsAssumption
  <2>1. ASSUME Changes PROVE changes' \in 0 .. MaxChanges /\ moved' \subseteq Artifacts
    <3>1. moved' \subseteq Artifacts
      BY <2>1 DEF Changes, DraftingTypeOK
    <3> QED
      BY <2>1, <3>1 DEF Changes, DraftingTypeOK
  <2>2. ASSUME NEW found \in SUBSET Artifacts, Discover(found) PROVE DraftingTypeOK'
    <3>1. Changes /\ known' \subseteq Artifacts
            /\ UNCHANGED <<facts, entry, desc, describe, build, runs>>
      BY <2>2 DEF Discover, DraftingTypeOK
    <3> QED
      BY <2>1, <3>1 DEF DraftingTypeOK, Asking
  <2>3. ASSUME NEW c \in Columns, Reprofile(c) PROVE DraftingTypeOK'
    <3>1. Changes /\ facts' \in [Columns -> Facts]
            /\ UNCHANGED <<known, entry, desc, describe, build, runs>>
      BY <2>3 DEF Reprofile, DraftingTypeOK
    <3> QED
      BY <2>1, <3>1 DEF DraftingTypeOK, Asking
  <2>4. ASSUME NEW t \in Terms, Confirm(t) PROVE DraftingTypeOK'
    <3>1. PICK d \in Definitions, prov \in {"ai-drafted-edited", "sme-authored"} :
            entry' = [entry EXCEPT ![t] = [prov |-> prov, def |-> d,
                        usages |-> IF entry[t] = NoDoc THEN {} ELSE entry[t].usages]]
      BY <2>4 DEF Confirm
    <3>2. (IF entry[t] = NoDoc THEN {} ELSE entry[t].usages) \in SUBSET Artifacts
      BY DEF DraftingTypeOK, Entries
    <3>3. [prov |-> prov, def |-> d,
          usages |-> IF entry[t] = NoDoc THEN {} ELSE entry[t].usages] \in Entries
      BY <3>2 DEF Entries
    <3>4. entry' \in [Terms -> Entries \cup {NoDoc}]
      BY <3>1, <3>3 DEF DraftingTypeOK
    <3>5. Changes /\ UNCHANGED <<known, facts, desc, describe, build, runs>>
      BY <2>4 DEF Confirm
    <3> QED
      BY <2>1, <3>4, <3>5 DEF DraftingTypeOK, Asking
  <2>5. ASSUME NEW a \in Artifacts, Review(a) PROVE DraftingTypeOK'
    <3>1. desc[a] \in Drafts
      BY <2>5 DEF Review, DraftingTypeOK
    <3>2. [desc[a] EXCEPT !.prov = "ai-drafted-edited"] \in Drafts
      BY <3>1 DEF Drafts
    <3>3. desc' \in [Artifacts -> Drafts \cup {NoDoc}]
      BY <2>5, <3>2 DEF Review, DraftingTypeOK
    <3>4. Changes /\ UNCHANGED <<known, facts, entry, describe, build, runs>>
      BY <2>5 DEF Review
    <3> QED
      BY <2>1, <3>3, <3>4 DEF DraftingTypeOK, Asking
  <2>6. ASSUME StartDescribe PROVE DraftingTypeOK'
    <3>1. PICK force \in BOOLEAN :
            \/ \E S \in Selections : describe' = Starts(S, force, TRUE)
            \/ \E c \in Columns \cap known : describe' = Starts({c}, force, FALSE)
      BY <2>6 DEF StartDescribe
    <3>2. \A S \in Selections : S \subseteq Artifacts
      BY DEF Selections, DraftingTypeOK, Of, Artifacts
    <3>3. PICK S \in SUBSET Artifacts, b \in BOOLEAN : describe' = Starts(S, force, b)
      BY <3>1, <3>2 DEF Artifacts
    <3>4. describe' \in Commands(Artifacts, Contexts) /\ describe'.at = "planning"
      BY <3>3, StartsTyped
    <3>5. runs' \in 0 .. MaxRuns /\ UNCHANGED <<known, facts, entry, desc, build, moved, changes>>
      BY <2>6 DEF StartDescribe, DraftingTypeOK
    <3> QED
      BY <3>4, <3>5 DEF DraftingTypeOK, Asking
  <2>7. ASSUME Plan PROVE DraftingTypeOK'
    <3>1. PICK a \in NextTargets :
            /\ describe' = IF SkipDescription(desc[a], Context(a), describe.force)
                           THEN Skipped(describe, a) ELSE AsksFor(describe, a, Context(a))
            /\ moved' = moved \ {a}
      BY <2>7 DEF Plan
    <3>2. describe \in Commands(Artifacts, Contexts) /\ describe.at = "planning"
      BY <2>7, Shapes DEF Plan, DraftingTypeOK, Planning
    <3>3. a \in Artifacts
      BY <3>2 DEF NextTargets, Commands
    <3>4. Context(a) \in Contexts
      BY <3>3, ContextsTyped
    <3>8. Context(a) \in Contexts \cup {NoDoc}
      BY <3>4
    <3>5. /\ Skipped(describe, a) \in Commands(Artifacts, Contexts)
               /\ Skipped(describe, a).at = "planning"
          /\ AsksFor(describe, a, Context(a)) \in Commands(Artifacts, Contexts)
          /\ AsksFor(describe, a, Context(a)).target = a
          /\ AsksFor(describe, a, Context(a)).context = Context(a)
      BY <3>2, <3>3, <3>8, AsksTyped
    <3>6. /\ describe' \in Commands(Artifacts, Contexts)
          /\ Asking(describe') => describe'.target \in Artifacts
               /\ describe'.context \in Contexts
      BY <3>1, <3>3, <3>4, <3>5 DEF Asking
    <3>7. moved' \subseteq Artifacts
            /\ UNCHANGED <<known, facts, entry, desc, build, changes, runs>>
      BY <2>7, <3>1 DEF Plan, DraftingTypeOK
    <3> QED
      BY <3>6, <3>7 DEF DraftingTypeOK, Asking
  <2>8. ASSUME Asking(describe)
        PROVE  /\ Drafted(describe) \in Idles \cup Commands(Artifacts, Contexts)
                    /\ ~Asking(Drafted(describe))
               /\ \A code \in {1, 2, 5} : FailAt(describe, code) \in Idles
                  \cup Commands(Artifacts, Contexts)
                                            /\ ~Asking(FailAt(describe, code))
    <3>1. describe \in Commands(Artifacts, Contexts) /\ describe.target \in Artifacts
      BY <2>8, Shapes DEF DraftingTypeOK
    <3>2. /\ Drafted(describe) \in Commands(Artifacts, Contexts)
               /\ Drafted(describe).at = "planning"
          /\ Failed(describe) \in Commands(Artifacts, Contexts)
               /\ Failed(describe).at = "planning"
      BY <3>1, AnswersTyped
    <3>3. \A code \in {1, 2, 5} : Idle(code) \in Idles /\ ~Asking(Idle(code))
      BY IdlesTyped
    <3>4. ASSUME NEW code \in {1, 2, 5}
          PROVE  FailAt(describe, code) \in Idles \cup Commands(Artifacts, Contexts)
                   /\ ~Asking(FailAt(describe, code))
      BY <3>2, <3>3 DEF FailAt, Asking
    <3> QED
      BY <3>2, <3>4 DEF Asking
  <2>9. ASSUME WriteDescription PROVE DraftingTypeOK'
    <3> DEFINE a == describe.target
               outcome == Outcome(desc[a], "ai-drafted", describe.force, FALSE)
               new == [prov |-> "ai-drafted", context |-> describe.context]
    <3>1. Asking(describe) /\ UNCHANGED <<known, facts, entry, build, moved, changes, runs>>
      BY <2>9 DEF WriteDescription
    <3>2. /\ desc' = IF outcome = "write" THEN [desc EXCEPT ![a] = new] ELSE desc
          /\ describe' = IF outcome = "refused" THEN FailAt(describe,
             1) ELSE Drafted(describe)
      BY <2>9 DEF WriteDescription
    <3>3. new \in Drafts
      BY <3>1 DEF DraftingTypeOK, Drafts
    <3> HIDE DEF outcome, new
    <3>4. desc' \in [Artifacts -> Drafts \cup {NoDoc}]
      BY <3>2, <3>3 DEF DraftingTypeOK
    <3>5. describe' \in Idles \cup Commands(Artifacts, Contexts) /\ ~Asking(describe')
      BY <2>8, <3>1, <3>2
    <3> QED
      BY <3>1, <3>4, <3>5 DEF DraftingTypeOK, Asking
  <2>10. ASSUME LoseDescription PROVE DraftingTypeOK'
    <3>1. Asking(describe) /\ UNCHANGED <<known, facts, entry, desc, build, moved, changes,
          runs>>
      BY <2>10 DEF LoseDescription
    <3>2. describe' \in Idles \cup Commands(Artifacts, Contexts) /\ ~Asking(describe')
      BY <2>8, <2>10 DEF LoseDescription
    <3> QED
      BY <3>1, <3>2 DEF DraftingTypeOK, Asking
  <2>11. ASSUME EndDescribe PROVE DraftingTypeOK'
    <3>1. describe' \in Idles /\ ~Asking(describe')
      BY <2>11, IdlesTyped DEF EndDescribe, EndOfBatch
    <3> QED
      BY <2>11, <3>1 DEF EndDescribe, DraftingTypeOK, Asking
  <2>12. ASSUME StartBuild PROVE DraftingTypeOK'
    <3>1. Recurring \subseteq UsedTerms
      <4>1. \A t \in Terms : Usages(t) \in SUBSET Artifacts
        BY DEF Usages, DraftingTypeOK
      <4>2. \A t \in Terms : [term |-> t, usages |-> Usages(t)] \in UsedTerms
        BY <4>1 DEF UsedTerms
      <4> QED
        BY <4>2 DEF Recurring
    <3>2. PICK force \in BOOLEAN : build' = Starts(Recurring, force, TRUE)
      BY <2>12 DEF StartBuild
    <3>3. build' \in Commands(UsedTerms, {}) /\ build'.at = "planning"
      BY <3>1, <3>2, StartsTyped
    <3>4. runs' \in 0 .. MaxRuns
            /\ UNCHANGED <<known, facts, entry, desc, describe, moved, changes>>
      BY <2>12 DEF StartBuild, DraftingTypeOK
    <3> QED
      BY <3>3, <3>4 DEF DraftingTypeOK, Asking
  <2>13. ASSUME ReadEntry PROVE DraftingTypeOK'
    <3>1. PICK u \in NextTerms :
            build' = IF SkipEntry(entry[u.term], u.usages, build.force)
                     THEN Skipped(build, u) ELSE AsksFor(build, u, NoDoc)
      BY <2>13 DEF ReadEntry
    <3>2. build \in Commands(UsedTerms, {}) /\ build.at = "planning"
      BY <2>13, Shapes DEF ReadEntry, DraftingTypeOK, Planning
    <3>3. u \in UsedTerms
      BY <3>2 DEF NextTerms, Commands
    <3>9. NoDoc \in {} \cup {NoDoc}
      OBVIOUS
    <3>4. /\ Skipped(build, u) \in Commands(UsedTerms, {})
               /\ Skipped(build, u).at = "planning"
          /\ AsksFor(build, u, NoDoc) \in Commands(UsedTerms, {})
          /\ AsksFor(build, u, NoDoc).target = u
      BY <3>2, <3>3, <3>9, AsksTyped
    <3>5. build' \in Commands(UsedTerms, {})
            /\ (Asking(build') => build'.target \in UsedTerms)
      BY <3>1, <3>3, <3>4 DEF Asking
    <3> QED
      BY <2>13, <3>5 DEF ReadEntry, DraftingTypeOK, Asking
  <2>14. ASSUME Asking(build)
         PROVE  /\ Drafted(build) \in Commands(UsedTerms, {}) /\ ~Asking(Drafted(build))
                /\ Failed(build) \in Commands(UsedTerms, {}) /\ ~Asking(Failed(build))
    <3>1. build \in Commands(UsedTerms, {}) /\ build.target \in UsedTerms
      BY <2>14, Shapes DEF DraftingTypeOK
    <3> QED
      BY <3>1, AnswersTyped DEF Asking
  <2>15. ASSUME WriteEntry PROVE DraftingTypeOK'
    <3> DEFINE u == build.target
    <3>1. PICK d \in Definitions \cup {Insufficient} :
            LET new == [prov |-> "ai-drafted", def |-> d, usages |-> u.usages]
                outcome == Outcome(entry[u.term], "ai-drafted", build.force,
                entry[u.term] = new)
            IN  /\ entry' = IF outcome = "write" THEN [entry EXCEPT ![u.term] = new] ELSE entry
                /\ build' = IF outcome = "refused" THEN Idle(1) ELSE Drafted(build)
      BY <2>15 DEF WriteEntry
    <3>2. Asking(build) /\ u \in UsedTerms
      BY <2>15 DEF WriteEntry, DraftingTypeOK
    <3> DEFINE new == [prov |-> "ai-drafted", def |-> d, usages |-> u.usages]
               outcome == Outcome(entry[u.term], "ai-drafted", build.force, entry[u.term] = new)
    <3>3. new \in Entries
      BY <3>2 DEF Entries, UsedTerms
    <3>4. /\ entry' = IF outcome = "write" THEN [entry EXCEPT ![u.term] = new] ELSE entry
          /\ build' = IF outcome = "refused" THEN Idle(1) ELSE Drafted(build)
      BY <3>1
    <3> HIDE DEF new, outcome
    <3>5. entry' \in [Terms -> Entries \cup {NoDoc}]
      BY <3>3, <3>4 DEF DraftingTypeOK
    <3>6. build' \in Idles \cup Commands(UsedTerms, {}) /\ ~Asking(build')
      BY <2>14, <3>2, <3>4, IdlesTyped
    <3> QED
      BY <2>15, <3>5, <3>6 DEF WriteEntry, DraftingTypeOK, Asking
  <2>16. ASSUME LoseEntry PROVE DraftingTypeOK'
    <3>1. build' \in Commands(UsedTerms, {}) /\ ~Asking(build')
      BY <2>14, <2>16 DEF LoseEntry
    <3> QED
      BY <2>16, <3>1 DEF LoseEntry, DraftingTypeOK, Asking
  <2>17. ASSUME EndBuild PROVE DraftingTypeOK'
    <3>1. build' \in Idles /\ ~Asking(build')
      BY <2>17, IdlesTyped DEF EndBuild
    <3> QED
      BY <2>17, <3>1 DEF EndBuild, DraftingTypeOK, Asking
  <2>18. ASSUME Kill PROVE DraftingTypeOK'
    <3>1. Idle(137) \in Idles /\ ~Asking(Idle(137))
      BY IdlesTyped
    <3>2. CASE describe' = Idle(137) /\ UNCHANGED build
      BY <2>18, <3>1, <3>2 DEF Kill, DraftingTypeOK, Asking
    <3>3. CASE build' = Idle(137) /\ UNCHANGED describe
      BY <2>18, <3>1, <3>3 DEF Kill, DraftingTypeOK, Asking
    <3> QED
      BY <2>18, <3>2, <3>3 DEF Kill
  <2>19. CASE UNCHANGED DraftingVars
    BY <2>19 DEF DraftingVars, DraftingTypeOK, Asking
  <2> QED
    BY <2>2, <2>3, <2>4, <2>5, <2>6, <2>7, <2>9, <2>10, <2>11, <2>12, <2>13, <2>15, <2>16, <2>17,
       <2>18, <2>19 DEF DraftingNext
<1> QED
  BY <1>1, <1>2, PTL DEF DraftingSpec

-----------------------------------------------------------------------------
(* dla describe *)

\* The description of a holds the work of a reviewer, or was drafted from the
\* context that a has now.
Current(a) == IsReviewed(desc[a]) \/ (desc[a] # NoDoc /\ desc[a].context = Context(a))

\* The targets that a command is not done with.
InHand(p) == IF Asking(p) THEN p.left \cup {p.target} ELSE p.left
Done(p) == p.all \ (InHand(p) \cup p.failed)

\* What describe is done with is current, and so is what it has read of the target
\* in hand, but for the targets whose context has moved on.
DescribeInv ==
  describe.at # "idle" =>
    /\ \A a \in Done(describe) \ moved : Current(a)
    /\ Asking(describe) /\ describe.target \notin moved
         => describe.context = Context(describe.target)

\* A current description says what it should.
LEMMA CurrentIsGrounded ==
  ASSUME DraftingTypeOK, NEW a \in Artifacts, Current(a)
  PROVE  Grounded(a)
<1>1. CASE IsReviewed(desc[a])
  BY <1>1 DEF Grounded
<1>2. CASE desc[a] # NoDoc /\ desc[a].context = Context(a)
  <2>1. CASE a \in Tables
    <3>1. /\ desc[a].context.shown = {<<c, facts[c]>> : c \in Kept(a)}
          /\ desc[a].context.omitted = Of(a) \ Kept(a)
      BY <1>2, <2>1 DEF Context, TableContext
    <3>2. Kept(a) \subseteq Of(a)
      BY DEF Kept
    <3> DEFINE names == {s[1] : s \in desc[a].context.shown}
    <3>3. names \subseteq Kept(a)
      BY <3>1
    <3>4. Kept(a) \subseteq names
      <4>1. ASSUME NEW c \in Kept(a) PROVE c \in names
        <5>1. <<c, facts[c]>> \in desc[a].context.shown /\ <<c, facts[c]>>[1] = c
          BY <3>1
        <5> QED
          BY <5>1
      <4> QED
        BY <4>1
    <3> HIDE DEF names
    <3>6. desc[a].context.omitted \cup names = Of(a)
      BY <3>1, <3>2, <3>3, <3>4
    <3>5. \A s \in desc[a].context.shown : facts[s[1]] = s[2]
      BY <3>1
    <3> QED
      BY <1>2, <2>1, <3>6, <3>5 DEF Grounded, names
  <2>2. CASE a \notin Tables
    <3>1. a \in Columns
      BY <2>2 DEF Artifacts
    <3>2. desc[a].context.facts = facts[a] /\ desc[a].context.glossary = Glossary(a)
      BY <1>2, <2>2 DEF Context, ColumnContext
    <3>3. \A t \in Words[a] : IsReviewed(entry[t]) /\ entry[t].def # Insufficient
            => <<t, entry[t].def>> \in Glossary(a)
      BY DEF Glossary, Confirmed, IsReviewed
    <3>4. \A g \in Glossary(a) : IsReviewed(entry[g[1]]) /\ entry[g[1]].def = g[2]
      BY DEF Glossary, Confirmed, IsReviewed
    <3> QED
      BY <1>2, <3>1, <3>2, <3>3, <3>4 DEF Grounded
  <2> QED
    BY <2>1, <2>2
<1> QED
  BY <1>1, <1>2 DEF Current

\* The context of an artifact is made of the catalog, its facts and the entries.
LEMMA ContextsKept ==
  ASSUME UNCHANGED <<known, facts, entry>>, NEW a
  PROVE  Context(a)' = Context(a)
BY DEF Context, TableContext, ColumnContext, Kept, TellsMore, Of, Glossary,
       Confirmed

\* A build never touches an entry that a person has confirmed, nor adds one.
LEMMA WriteEntryKeepsContexts ==
  ASSUME DraftingTypeOK, WriteEntry, NEW a \in Artifacts
  PROVE  Context(a)' = Context(a)
<1>0. PICK u : u = build.target
  OBVIOUS
<1>1. PICK d \in Definitions \cup {Insufficient} :
        LET new == [prov |-> "ai-drafted", def |-> d, usages |-> u.usages]
            outcome == Outcome(entry[u.term], "ai-drafted", build.force, entry[u.term] = new)
        IN  entry' = IF outcome = "write" THEN [entry EXCEPT ![u.term] = new] ELSE entry
  BY <1>0 DEF WriteEntry
<1> DEFINE new == [prov |-> "ai-drafted", def |-> d, usages |-> u.usages]
           outcome == Outcome(entry[u.term], "ai-drafted", build.force, entry[u.term] = new)
<1>2. u \in UsedTerms /\ u.term \in Terms /\ UNCHANGED <<known, facts>>
  BY <1>0 DEF WriteEntry, DraftingTypeOK, UsedTerms
<1>3. CASE outcome = "write"
  <2>1. entry' = [entry EXCEPT ![u.term] = new]
    BY <1>1, <1>3
  <2>2. TransitionAllowed(entry[u.term], "ai-drafted")
    BY <1>3 DEF Outcome
  <2>3. ~Confirmed(u.term)
    BY <1>2, <2>2 DEF Confirmed, TransitionAllowed, AllowedNext, PreservesSmeWork,
       SmeWork, DraftingTypeOK,
                      Entries, Provenances
  <2>4. ~PreservesSmeWork(entry'[u.term].prov)
    BY <1>2, <2>1 DEF DraftingTypeOK, PreservesSmeWork, SmeWork
  <2>5. ~Confirmed(u.term)'
    BY <2>4 DEF Confirmed
  <2>6. \A t \in Terms \ {u.term} : entry'[t] = entry[t]
    BY <2>1 DEF DraftingTypeOK
  <2>7. \A t \in Terms : (Confirmed(t)' <=> Confirmed(t))
          /\ (Confirmed(t) => entry'[t] = entry[t])
    BY <2>3, <2>5, <2>6 DEF Confirmed
  <2>8. Glossary(a)' = Glossary(a)
    BY <2>7, WordsAssumption DEF Glossary
  <2> QED
    BY <1>2, <2>8 DEF Context, TableContext, ColumnContext, Kept, TellsMore, Of
<1>4. CASE outcome # "write"
  BY <1>1, <1>2, <1>4, ContextsKept
<1> QED
  BY <1>3, <1>4

\* A describe waits while contexts that change are noted in `moved` and descriptions
\* change hands to reviewers only.
LEMMA DescribeInvKept ==
  ASSUME DescribeInv, UNCHANGED describe, moved \subseteq moved',
         \A a \in Artifacts \ moved' : Context(a)' = Context(a),
         \A a \in Artifacts : desc'[a] = desc[a] \/ IsReviewed(desc'[a]),
         DraftingTypeOK
  PROVE  DescribeInv'
<1> SUFFICES ASSUME describe.at # "idle"
             PROVE  /\ \A a \in Done(describe) \ moved' : Current(a)'
                    /\ Asking(describe) /\ describe.target \notin moved'
                         => describe.context = Context(describe.target)'
  BY DEF DescribeInv, Done, InHand, Asking
<1>1. describe \in Commands(Artifacts, Contexts)
  BY Shapes DEF DraftingTypeOK
<1>2. Done(describe) \subseteq Artifacts
  BY <1>1 DEF Done, Commands
<1>3. ASSUME NEW a \in Done(describe) \ moved' PROVE Current(a)'
  <2>1. Current(a) /\ Context(a)' = Context(a)
    BY <1>2, <1>3 DEF DescribeInv
  <2>2. desc'[a] = desc[a] \/ IsReviewed(desc'[a])
    BY <1>2, <1>3
  <2> QED
    BY <2>1, <2>2 DEF Current, IsReviewed
<1>4. ASSUME Asking(describe), describe.target \notin moved'
      PROVE  describe.context = Context(describe.target)'
  BY <1>4 DEF DescribeInv, DraftingTypeOK
<1> QED
  BY <1>3, <1>4

\* What asking and answering do to the targets that a command is done with.
LEMMA AsksDone ==
  ASSUME NEW S, NEW Ctx, NEW p \in Commands(S, Ctx), p.at = "planning", NEW x \in p.left, NEW y
  PROVE  /\ Done(AsksFor(p, x, y)) \subseteq Done(p) /\ InHand(AsksFor(p, x, y)) \subseteq InHand(p)
         /\ AsksFor(p, x, y).target = x /\ AsksFor(p, x, y).context = y
              /\ AsksFor(p, x, y).all = p.all
         /\ Done(Skipped(p, x)) \subseteq Done(p) \cup {x}
              /\ InHand(Skipped(p, x)) \subseteq InHand(p)
         /\ Skipped(p, x).at = "planning" /\ Skipped(p, x).all = p.all
BY DEF Commands, AsksFor, Skipped, Done, InHand, Asking

LEMMA AnswersDone ==
  ASSUME NEW S, NEW Ctx, NEW p \in Commands(S, Ctx), Asking(p)
  PROVE  /\ Done(Drafted(p)) \subseteq Done(p) \cup {p.target}
              /\ InHand(Drafted(p)) \subseteq InHand(p)
         /\ Drafted(p).at = "planning" /\ Drafted(p).all = p.all
         /\ Done(Failed(p)) \subseteq Done(p) /\ InHand(Failed(p)) \subseteq InHand(p)
         /\ Failed(p).at = "planning" /\ Failed(p).all = p.all
BY DEF Commands, Drafted, Failed, AfterAnswer, Done, InHand, Asking

\* Whatever reviewers, discovery, profiling and the glossary do meanwhile, and
\* whichever targets fail, describe keeps to it.
THEOREM DescribeIsConsistent == DraftingSpec => []DescribeInv
<1>1. DraftingInit => DescribeInv
  BY DEF DraftingInit, DescribeInv, Idle
<1>2. DescribeInv /\ DraftingTypeOK /\ [DraftingNext]_DraftingVars => DescribeInv'
  <2> SUFFICES ASSUME DescribeInv, DraftingTypeOK, [DraftingNext]_DraftingVars PROVE DescribeInv'
    OBVIOUS
  <2>1. ASSUME Changes
        PROVE  moved \subseteq moved'
                 /\ \A a \in Artifacts \ moved' : Context(a)' = Context(a)
    BY <2>1 DEF Changes
  <2>2. ASSUME NEW found \in SUBSET Artifacts, Discover(found) PROVE DescribeInv'
    BY <2>1, <2>2, DescribeInvKept DEF Discover
  <2>3. ASSUME NEW c \in Columns, Reprofile(c) PROVE DescribeInv'
    BY <2>1, <2>3, DescribeInvKept DEF Reprofile
  <2>4. ASSUME NEW t \in Terms, Confirm(t) PROVE DescribeInv'
    BY <2>1, <2>4, DescribeInvKept DEF Confirm
  <2>5. ASSUME NEW a \in Artifacts, Review(a) PROVE DescribeInv'
    <3>1. \A b \in Artifacts : desc'[b] = desc[b] \/ IsReviewed(desc'[b])
      <4>1. desc[a] \in Drafts
        BY <2>5 DEF Review, DraftingTypeOK
      <4>2. desc'[a].prov = "ai-drafted-edited" /\ desc'[a] \in Drafts
        BY <2>5, <4>1 DEF Review, DraftingTypeOK, Drafts
      <4>3. desc'[a] # NoDoc
        BY <4>2, NoDocAssumption
      <4> QED
        BY <2>5, <4>2, <4>3 DEF Review, DraftingTypeOK, IsReviewed, PreservesSmeWork,
           SmeWork
    <3> QED
      BY <2>1, <2>5, <3>1, DescribeInvKept DEF Review
  <2>6. ASSUME StartDescribe PROVE DescribeInv'
    <3>1. PICK T, force, batch : describe' = Starts(T, force, batch)
      BY <2>6 DEF StartDescribe
    <3> QED
      BY <3>1 DEF DescribeInv, Starts, Done, InHand, Asking
  <2>7. ASSUME UNCHANGED <<known, facts, entry, desc>>
        PROVE  \A a : (Context(a)' = Context(a)) /\ (Current(a)' <=> Current(a))
    BY <2>7, ContextsKept DEF Current
  <2>8. ASSUME Plan PROVE DescribeInv'
    <3>1. PICK a \in NextTargets :
            /\ describe' = IF SkipDescription(desc[a], Context(a), describe.force)
                           THEN Skipped(describe, a) ELSE AsksFor(describe, a, Context(a))
            /\ moved' = moved \ {a}
      BY <2>8 DEF Plan
    <3>2. describe \in Commands(Artifacts, Contexts) /\ describe.at = "planning"
      BY <2>8, Shapes DEF Plan, DraftingTypeOK, Planning
    <3>3. a \in describe.left
      BY DEF NextTargets
    <3>4. a \notin Done(describe)
      BY <3>2, <3>3 DEF Done, InHand, Asking
    <3>5. \A b : (Context(b)' = Context(b)) /\ (Current(b)' <=> Current(b))
      BY <2>7, <2>8 DEF Plan
    <3>6. \A b \in Done(describe) \ moved' : Current(b)
      BY <3>1, <3>2, <3>4 DEF DescribeInv
    <3>7. CASE SkipDescription(desc[a], Context(a), describe.force)
      <4>1. Current(a)
        BY <3>7 DEF SkipDescription, Current, IsReviewed
      <4>2. Done(describe') \subseteq Done(describe) \cup {a} /\ describe'.at = "planning"
        BY <3>1, <3>2, <3>3, <3>7, AsksDone
      <4> QED
        BY <3>5, <3>6, <4>1, <4>2 DEF DescribeInv, Asking
    <3>8. CASE ~SkipDescription(desc[a], Context(a), describe.force)
      <4>1. Done(describe') \subseteq Done(describe) /\ describe'.target = a
              /\ describe'.context = Context(a)
        BY <3>1, <3>2, <3>3, <3>8, AsksDone
      <4> QED
        BY <3>5, <3>6, <4>1 DEF DescribeInv
    <3> QED
      BY <3>7, <3>8
  <2>9. ASSUME WriteDescription PROVE DescribeInv'
    <3>0. PICK a : a = describe.target
      OBVIOUS
    <3> DEFINE new == [prov |-> "ai-drafted", context |-> describe.context]
               force == describe.force
    <3>1. Asking(describe) /\ UNCHANGED <<known, facts, entry, build, moved, changes, runs>>
      BY <2>9 DEF WriteDescription
    <3>2. /\ desc' = IF Outcome(desc[a], "ai-drafted", force, FALSE) = "write"
                     THEN [desc EXCEPT ![a] = new] ELSE desc
          /\ describe' = IF Outcome(desc[a], "ai-drafted", force, FALSE) = "refused"
                         THEN FailAt(describe, 1) ELSE Drafted(describe)
      BY <2>9, <3>0 DEF WriteDescription
    <3>3. describe \in Commands(Artifacts, Contexts) /\ a \in Artifacts
            /\ describe.at # "idle"
      BY <3>0, <3>1, Shapes DEF DraftingTypeOK
    <3>4. \A b : Context(b)' = Context(b)
      BY <3>1, ContextsKept
    <3>5. \A b \in Artifacts \ {a} : desc'[b] = desc[b]
      BY <3>2 DEF DraftingTypeOK
    <3>6. \A b \in Done(describe) : b \in Artifacts \ {a}
      BY <3>0, <3>1, <3>3 DEF Done, InHand, Commands
    <3>7. \A b \in Done(describe) \ moved : Current(b)'
      BY <3>3, <3>4, <3>5, <3>6 DEF DescribeInv, Current
    <3>8. CASE Outcome(desc[a], "ai-drafted", force, FALSE) = "refused"
      <4>1. CASE describe.batch
        <5>1. Done(describe') \subseteq Done(describe) /\ describe'.at = "planning"
          BY <3>1, <3>2, <3>3, <3>8, <4>1, AnswersDone DEF FailAt
        <5> QED
          BY <3>1, <3>7, <5>1 DEF DescribeInv, Asking
      <4>2. CASE ~describe.batch
        BY <3>2, <3>8, <4>2 DEF DescribeInv, FailAt, Idle
      <4> QED
        BY <4>1, <4>2
    <3>9. CASE Outcome(desc[a], "ai-drafted", force, FALSE) # "refused"
      <4>1. Done(describe') \subseteq Done(describe) \cup {a} /\ describe'.at = "planning"
        BY <3>0, <3>1, <3>2, <3>3, <3>9, AnswersDone
      <4>2. ASSUME a \notin moved PROVE Current(a)'
        <5>1. describe.context = Context(a)
          BY <3>0, <3>1, <3>3, <4>2 DEF DescribeInv
        <5>2. CASE Outcome(desc[a], "ai-drafted", force, FALSE) = "write"
          <6>1. desc'[a] = new
            BY <3>2, <3>3, <5>2 DEF DraftingTypeOK
          <6>2. new \in Drafts
            BY <3>1 DEF DraftingTypeOK, Drafts
          <6>3. new # NoDoc
            BY <6>2, NoDocAssumption
          <6> QED
            BY <3>4, <5>1, <6>1, <6>3 DEF Current
        <5>3. CASE Outcome(desc[a], "ai-drafted", force, FALSE) # "write"
          <6>1. Skips(desc[a], force)
            BY <3>9, <5>3 DEF Outcome
          <6>2. desc'[a] = desc[a] /\ IsReviewed(desc[a])
            BY <3>2, <5>3, <6>1 DEF Skips, IsReviewed
          <6> QED
            BY <6>2 DEF Current
        <5> QED
          BY <5>2, <5>3
      <4> QED
        BY <3>1, <3>7, <4>1, <4>2 DEF DescribeInv, Asking
    <3> QED
      BY <3>8, <3>9
  <2>10. ASSUME LoseDescription PROVE DescribeInv'
    <3>1. Asking(describe) /\ describe.at # "idle"
            /\ UNCHANGED <<known, facts, entry, desc, moved>>
      BY <2>10 DEF LoseDescription, Asking
    <3>2. PICK code \in {2, 5} : describe' = FailAt(describe, code)
      BY <2>10 DEF LoseDescription
    <3>3. CASE describe.batch
      <4>1. describe \in Commands(Artifacts, Contexts)
        BY <3>1, Shapes DEF DraftingTypeOK
      <4>2. Done(describe') \subseteq Done(describe) /\ describe'.at = "planning"
        BY <3>1, <3>2, <3>3, <4>1, AnswersDone DEF FailAt
      <4> QED
        BY <2>7, <3>1, <4>2 DEF DescribeInv, Asking
    <3>4. CASE ~describe.batch
      BY <3>2, <3>4 DEF FailAt, Idle, DescribeInv
    <3> QED
      BY <3>3, <3>4
  <2>11. ASSUME EndDescribe PROVE DescribeInv'
    BY <2>11 DEF EndDescribe, EndOfBatch, Idle, DescribeInv
  <2>12. ASSUME UNCHANGED <<known, facts, desc, describe, moved>>, 
                \A a \in Artifacts \ moved : Context(a)' = Context(a)
         PROVE  DescribeInv'
    BY <2>12, DescribeInvKept
  <2>13. ASSUME StartBuild \/ ReadEntry \/ LoseEntry \/ EndBuild PROVE DescribeInv'
    <3>1. UNCHANGED <<known, facts, entry, desc, describe, moved>>
      BY <2>13 DEF StartBuild, ReadEntry, LoseEntry, EndBuild
    <3> QED
      BY <2>12, <3>1, ContextsKept
  <2>14. ASSUME WriteEntry PROVE DescribeInv'
    <3>1. UNCHANGED <<known, facts, desc, describe, moved>>
      BY <2>14 DEF WriteEntry
    <3>2. \A a \in Artifacts : Context(a)' = Context(a)
      BY <2>14, WriteEntryKeepsContexts
    <3> QED
      BY <2>12, <3>1, <3>2
  <2>15. ASSUME Kill PROVE DescribeInv'
    <3>1. UNCHANGED <<known, facts, entry, desc, moved>>
      BY <2>15 DEF Kill
    <3>2. CASE describe' = Idle(137)
      BY <3>2 DEF Idle, DescribeInv
    <3>3. CASE UNCHANGED describe
      BY <2>12, <3>1, <3>3, ContextsKept
    <3> QED
      BY <2>15, <3>2, <3>3 DEF Kill
  <2>16. CASE UNCHANGED DraftingVars
    BY <2>12, <2>16, ContextsKept DEF DraftingVars
  <2> QED
    BY <2>2, <2>3, <2>4, <2>5, <2>6, <2>8, <2>9, <2>10, <2>11, <2>13, <2>14, <2>15, <2>16
       DEF DraftingNext
<1> QED
  BY <1>1, <1>2, DraftingTypeCorrect, PTL DEF DraftingSpec

\* A describe that ends in success has left every target that it counts neither as
\* failed nor as moved on with a description that says what is so now.
THEOREM DescribeLeavesItCurrent == DraftingSpec => DescribeCatchesUp
<1>1. DescribeInv /\ DraftingTypeOK /\ [DraftingNext]_DraftingVars
        => [Ends(describe) => \A a \in describe.all \ (describe.failed
           \cup moved) : Grounded(a)]_DraftingVars
  <2> SUFFICES ASSUME DescribeInv, DraftingTypeOK, DraftingNext, Ends(describe),
                      NEW a \in describe.all \ (describe.failed \cup moved)
               PROVE  Grounded(a)
    BY DEF Ends, DraftingVars
  <2>1. describe \in Commands(Artifacts, Contexts) /\ describe.at # "idle"
          /\ describe' # describe
    BY Shapes DEF Ends, DraftingTypeOK
  <2>2. a \in Artifacts
    BY <2>1 DEF Commands
  <2>3. ASSUME EndDescribe PROVE Grounded(a)
    <3>1. a \in Done(describe) \ moved
      BY <2>3 DEF EndDescribe, Done, InHand, Planning, Asking
    <3>2. Current(a)
      BY <2>1, <3>1 DEF DescribeInv
    <3> QED
      BY <2>2, <3>2, CurrentIsGrounded
  <2>4. ASSUME Kill PROVE FALSE
    BY <2>1, <2>4 DEF Kill, Idle, Ends
  <2>5. ASSUME WriteDescription PROVE FALSE
    <3>1. Drafted(describe).at = "planning" /\ Failed(describe).at = "planning"
      BY <2>1, <2>5, AnswersDone DEF WriteDescription
    <3>2. \/ describe' = Drafted(describe) \/ describe' = Failed(describe)
          \/ describe' = Idle(1)
      BY <2>5 DEF WriteDescription, FailAt
    <3> QED
      BY <3>1, <3>2 DEF Idle, Ends
  <2>6. ASSUME LoseDescription PROVE FALSE
    <3>1. Failed(describe).at = "planning"
      BY <2>1, <2>6, AnswersDone DEF LoseDescription
    <3> QED
      BY <2>6, <3>1 DEF LoseDescription, FailAt, Idle, Ends
  <2>7. ASSUME Plan PROVE FALSE
    <3>1. describe.at = "planning"
      BY <2>7 DEF Plan, Planning
    <3>2. \A b : /\ Skipped(describe, b).at = "planning"
                 /\ AsksFor(describe, b, Context(b)).at = "asking"
      BY <2>1, <3>1 DEF Skipped, AsksFor, Commands
    <3>3. describe'.at # "idle"
      BY <2>7, <3>2 DEF Plan
    <3> QED
      BY <3>3 DEF Ends
  <2>8. ASSUME StartDescribe PROVE FALSE
    BY <2>1, <2>8 DEF StartDescribe
  <2>9. ASSUME UNCHANGED describe PROVE FALSE
    BY <2>1, <2>9
  <2> QED
    BY <2>3, <2>4, <2>5, <2>6, <2>7, <2>8, <2>9
       DEF DraftingNext, Discover, Reprofile, Confirm, Review, StartBuild, ReadEntry,
           WriteEntry, LoseEntry, EndBuild
<1> QED
  BY <1>1, DraftingTypeCorrect, DescribeIsConsistent, PTL DEF DraftingSpec, DescribeCatchesUp

-----------------------------------------------------------------------------
(* dla glossary build *)

\* The entry of a term is a reviewer's, or a draft of these usages.
Decided(u) ==
  IsReviewed(entry[u.term]) \/ (entry[u.term] # NoDoc /\ entry[u.term].usages = u.usages)

\* What a build is done with is settled; no two of its targets are of one term.
BuildInv ==
  build.at # "idle" =>
    /\ \A u, v \in build.all : u.term = v.term => u = v
    /\ InHand(build) \subseteq build.all
    /\ \A u \in Done(build) : Decided(u)

\* A build goes on, or waits, while the entries of a term stay as they are or
\* come to be a reviewer's.
LEMMA BuildInvKept ==
  ASSUME BuildInv, DraftingTypeOK, UNCHANGED build,
         \A t \in Terms : entry'[t] = entry[t] \/ IsReviewed(entry'[t])
  PROVE  BuildInv'
<1> SUFFICES ASSUME build.at # "idle", NEW u \in Done(build) PROVE Decided(u)'
  BY DEF BuildInv, Done, InHand, Asking
<1>1. build \in Commands(UsedTerms, {})
  BY Shapes DEF DraftingTypeOK
<1>2. u \in UsedTerms /\ u.term \in Terms
  BY <1>1 DEF Done, Commands, UsedTerms
<1>3. Decided(u)
  BY DEF BuildInv
<1> QED
  BY <1>2, <1>3 DEF Decided, IsReviewed

\* Whoever confirms entries meanwhile, and whichever terms fail, a build keeps to it.
THEOREM BuildIsConsistent == DraftingSpec => []BuildInv
<1>1. DraftingInit => BuildInv
  BY DEF DraftingInit, BuildInv, Idle
<1>2. BuildInv /\ DraftingTypeOK /\ DraftingTypeOK' /\ [DraftingNext]_DraftingVars => BuildInv'
  <2> SUFFICES ASSUME BuildInv, DraftingTypeOK, DraftingTypeOK', [DraftingNext]_DraftingVars
               PROVE BuildInv'
    OBVIOUS
  <2>1. ASSUME UNCHANGED <<entry, build>> PROVE BuildInv'
    BY <2>1, BuildInvKept
  <2>2. ASSUME NEW t \in Terms, Confirm(t) PROVE BuildInv'
    <3>1. entry'[t] \in Entries /\ PreservesSmeWork(entry'[t].prov) /\ UNCHANGED build
      <4>1. PICK d \in Definitions, prov \in {"ai-drafted-edited", "sme-authored"} :
              entry' = [entry EXCEPT ![t] = [prov |-> prov, def |-> d,
                          usages |-> IF entry[t] = NoDoc THEN {} ELSE entry[t].usages]]
        BY <2>2 DEF Confirm
      <4>2. entry'[t] = [prov |-> prov, def |-> d,
                         usages |-> IF entry[t] = NoDoc THEN {} ELSE entry[t].usages]
        BY <4>1 DEF DraftingTypeOK
      <4>3. entry'[t].prov = prov
        BY <4>2
      <4>4. entry'[t] # NoDoc => entry'[t] \in Entries
        BY DEF DraftingTypeOK
      <4>5. entry'[t] \in Entries
        <5>1. (IF entry[t] = NoDoc THEN {} ELSE entry[t].usages) \in SUBSET Artifacts
          BY DEF DraftingTypeOK, Entries
        <5> QED
          BY <4>2, <5>1 DEF Entries
      <4> QED
        BY <2>2, <4>3, <4>5 DEF Confirm, PreservesSmeWork, SmeWork
    <3>2. IsReviewed(entry'[t])
      BY <3>1, NoDocAssumption DEF IsReviewed
    <3>3. \A s \in Terms : s # t => entry'[s] = entry[s]
      BY <2>2 DEF Confirm, DraftingTypeOK
    <3> QED
      BY <3>1, <3>2, <3>3, BuildInvKept
  <2>3. ASSUME StartBuild PROVE BuildInv'
    <3>1. PICK force \in BOOLEAN : build' = Starts(Recurring, force, TRUE)
      BY <2>3 DEF StartBuild
    <3>2. build'.all = Recurring /\ InHand(build') = Recurring /\ Done(build') = {}
      BY <3>1 DEF Starts, Done, InHand, Asking
    <3>3. \A u, v \in Recurring : u.term = v.term => u = v
      BY DEF Recurring
    <3> QED
      BY <3>2, <3>3 DEF BuildInv
  <2>4. ASSUME ReadEntry PROVE BuildInv'
    <3>1. PICK u \in NextTerms :
            build' = IF SkipEntry(entry[u.term], u.usages, build.force)
                     THEN Skipped(build, u) ELSE AsksFor(build, u, NoDoc)
      BY <2>4 DEF ReadEntry
    <3>2. build \in Commands(UsedTerms, {}) /\ build.at = "planning"
      BY <2>4, Shapes DEF ReadEntry, DraftingTypeOK, Planning
    <3>3. UNCHANGED entry /\ \A v : Decided(v)' <=> Decided(v)
      BY <2>4 DEF ReadEntry, Decided
    <3>4. u \in build.left /\ InHand(build) \subseteq build.all
      BY <3>2 DEF NextTerms, BuildInv
    <3>5. CASE SkipEntry(entry[u.term], u.usages, build.force)
      <4>1. Decided(u)
        BY <3>5 DEF SkipEntry, Decided, IsReviewed
      <4>2. /\ Done(build') \subseteq Done(build) \cup {u}
                 /\ InHand(build') \subseteq InHand(build)
            /\ build'.all = build.all
        BY <3>1, <3>2, <3>4, <3>5, AsksDone
      <4> QED
        BY <3>2, <3>3, <3>4, <4>1, <4>2 DEF BuildInv
    <3>6. CASE ~SkipEntry(entry[u.term], u.usages, build.force)
      <4>1. /\ Done(build') \subseteq Done(build) /\ InHand(build') \subseteq InHand(build)
            /\ build'.all = build.all
        BY <3>1, <3>2, <3>4, <3>6, AsksDone
      <4> QED
        BY <3>2, <3>3, <3>4, <4>1 DEF BuildInv
    <3> QED
      BY <3>5, <3>6
  <2>5. ASSUME WriteEntry PROVE BuildInv'
    <3>0. PICK u : u = build.target
      OBVIOUS
    <3>1. PICK d \in Definitions \cup {Insufficient} :
            LET new == [prov |-> "ai-drafted", def |-> d, usages |-> u.usages]
                outcome == Outcome(entry[u.term], "ai-drafted", build.force,
                entry[u.term] = new)
            IN  /\ entry' = IF outcome = "write" THEN [entry EXCEPT ![u.term] = new] ELSE entry
                /\ build' = IF outcome = "refused" THEN Idle(1) ELSE Drafted(build)
      BY <2>5, <3>0 DEF WriteEntry
    <3>2. Asking(build) /\ u \in UsedTerms /\ build.at # "idle"
      BY <2>5, <3>0 DEF WriteEntry, DraftingTypeOK, Asking
    <3> DEFINE new == [prov |-> "ai-drafted", def |-> d, usages |-> u.usages]
               outcome == Outcome(entry[u.term], "ai-drafted", build.force, entry[u.term] = new)
    <3>3. new \in Entries /\ u.term \in Terms
      BY <3>2 DEF Entries, UsedTerms
    <3>4. build \in Commands(UsedTerms, {})
      BY <3>2, Shapes DEF DraftingTypeOK
    <3>5. CASE outcome = "refused"
      BY <3>1, <3>5 DEF BuildInv, Idle
    <3>6. CASE outcome # "refused"
      <4>1. build' = Drafted(build)
        BY <3>1, <3>6
      <4>2. /\ Done(build') \subseteq Done(build) \cup {u}
                 /\ InHand(build') \subseteq InHand(build)
            /\ build'.all = build.all
        BY <3>0, <3>2, <3>4, <4>1, AnswersDone
      <4>3. InHand(build) \subseteq build.all /\ u \in build.all
        BY <3>0, <3>2 DEF BuildInv, InHand
      <4>4. Decided(u)'
        <5>1. CASE outcome = "write"
          <6>1. entry'[u.term] = new
            BY <3>1, <3>3, <5>1 DEF DraftingTypeOK
          <6>2. entry'[u.term].usages = u.usages /\ entry'[u.term] # NoDoc
            BY <3>3, <6>1, NoDocAssumption
          <6> QED
            BY <6>2 DEF Decided
        <5>2. CASE outcome = "current"
          <6>1. entry[u.term] = new
            BY <5>2 DEF Outcome
          <6>2. entry'[u.term] = new
            BY <3>1, <5>2, <6>1
          <6>3. entry'[u.term].usages = u.usages /\ entry'[u.term] # NoDoc
            BY <3>3, <6>2, NoDocAssumption
          <6> QED
            BY <6>3 DEF Decided
        <5>3. CASE outcome = "skipped"
          <6>1. Skips(entry[u.term], build.force)
            BY <5>3 DEF Outcome
          <6>2. IsReviewed(entry'[u.term])
            BY <3>1, <5>3, <6>1 DEF Skips, IsReviewed
          <6> QED
            BY <6>2 DEF Decided
        <5> QED
          BY <3>6, <5>1, <5>2, <5>3 DEF Outcome
      <4>5. ASSUME NEW v \in Done(build), v # u PROVE Decided(v)'
        <5>1. v \in UsedTerms /\ Decided(v)
          BY <3>2, <3>4, <4>5 DEF Done, Commands, BuildInv
        <5>2. v.term # u.term
          BY <3>2, <4>3, <4>5 DEF Done, BuildInv
        <5>3. entry'[v.term] = entry[v.term]
          BY <3>1, <3>3, <5>1, <5>2 DEF DraftingTypeOK, UsedTerms
        <5> QED
          BY <5>1, <5>3 DEF Decided
      <4> QED
        BY <3>2, <4>2, <4>3, <4>4, <4>5 DEF BuildInv
    <3> HIDE DEF outcome
    <3> QED
      BY <3>5, <3>6
  <2>6. ASSUME LoseEntry PROVE BuildInv'
    <3>1. build \in Commands(UsedTerms, {}) /\ Asking(build) /\ build.at # "idle"
      BY <2>6, Shapes DEF LoseEntry, DraftingTypeOK, Asking
    <3>2. /\ Done(build') \subseteq Done(build) /\ InHand(build') \subseteq InHand(build)
          /\ build'.all = build.all
      BY <2>6, <3>1, AnswersDone DEF LoseEntry
    <3>3. UNCHANGED entry
      BY <2>6 DEF LoseEntry
    <3> QED
      BY <3>1, <3>2, <3>3 DEF BuildInv, Decided
  <2>7. ASSUME EndBuild PROVE BuildInv'
    BY <2>7 DEF EndBuild, Idle, BuildInv
  <2>8. ASSUME Kill PROVE BuildInv'
    <3>1. CASE build' = Idle(137)
      BY <3>1 DEF Idle, BuildInv
    <3>2. CASE UNCHANGED build
      BY <2>1, <2>8, <3>2 DEF Kill
    <3> QED
      BY <2>8, <3>1, <3>2 DEF Kill
  <2>9. ASSUME StartDescribe \/ Plan \/ WriteDescription \/ LoseDescription
               \/ EndDescribe PROVE BuildInv'
    <3>1. UNCHANGED <<entry, build>>
      BY <2>9 DEF StartDescribe, Plan, WriteDescription, LoseDescription, EndDescribe
    <3> QED
      BY <2>1, <3>1
  <2>10. ASSUME NEW found \in SUBSET Artifacts, Discover(found) PROVE BuildInv'
    BY <2>1, <2>10 DEF Discover
  <2>11. ASSUME NEW c \in Columns, Reprofile(c) PROVE BuildInv'
    BY <2>1, <2>11 DEF Reprofile
  <2>12. ASSUME NEW a \in Artifacts, Review(a) PROVE BuildInv'
    BY <2>1, <2>12 DEF Review
  <2>13. CASE UNCHANGED DraftingVars
    BY <2>1, <2>13 DEF DraftingVars
  <2> QED
    BY <2>2, <2>3, <2>4, <2>5, <2>6, <2>7, <2>8, <2>9, <2>10, <2>11, <2>12, <2>13 DEF DraftingNext
<1> QED
  BY <1>1, <1>2, DraftingTypeCorrect, PTL DEF DraftingSpec

\* A build that ends in success has left every term that it does not count as
\* failed with a reviewed entry, or a draft of the usages that it found.
THEOREM BuildLeavesItSettled == DraftingSpec => BuildCatchesUp
<1>1. BuildInv /\ DraftingTypeOK /\ [DraftingNext]_DraftingVars
        => [Ends(build) => \A u \in build.all \ build.failed :
              \/ IsReviewed(entry[u.term])
              \/ entry[u.term] # NoDoc /\ entry[u.term].usages = u.usages]_DraftingVars
  <2> SUFFICES ASSUME BuildInv, DraftingTypeOK, DraftingNext, Ends(build),
                      NEW u \in build.all \ build.failed
               PROVE  Decided(u)
    BY DEF Ends, DraftingVars, Decided
  <2>1. build \in Commands(UsedTerms, {}) /\ build.at # "idle" /\ build' # build
    BY Shapes DEF Ends, DraftingTypeOK
  <2>2. ASSUME EndBuild PROVE Decided(u)
    <3>1. u \in Done(build)
      BY <2>2 DEF EndBuild, Done, InHand, Planning, Asking
    <3> QED
      BY <2>1, <3>1 DEF BuildInv
  <2>3. ASSUME Kill PROVE FALSE
    BY <2>1, <2>3 DEF Kill, Idle, Ends
  <2>4. ASSUME WriteEntry PROVE FALSE
    <3>1. Drafted(build).at = "planning"
      BY <2>1, <2>4, AnswersDone DEF WriteEntry
    <3>2. build' = Drafted(build) \/ build' = Idle(1)
      BY <2>4 DEF WriteEntry
    <3> QED
      BY <3>1, <3>2 DEF Idle, Ends
  <2>5. ASSUME LoseEntry PROVE FALSE
    <3>1. Failed(build).at = "planning"
      BY <2>1, <2>5, AnswersDone DEF LoseEntry
    <3> QED
      BY <2>5, <3>1 DEF LoseEntry, Ends
  <2>6. ASSUME ReadEntry PROVE FALSE
    <3>1. build.at = "planning"
      BY <2>6 DEF ReadEntry, Planning
    <3>2. \A v : Skipped(build, v).at = "planning" /\ AsksFor(build, v, NoDoc).at = "asking"
      BY <2>1, <3>1 DEF Skipped, AsksFor, Commands
    <3>3. build'.at # "idle"
      BY <2>6, <3>2 DEF ReadEntry
    <3> QED
      BY <3>3 DEF Ends
  <2>7. ASSUME StartBuild PROVE FALSE
    BY <2>1, <2>7 DEF StartBuild
  <2>8. ASSUME UNCHANGED build PROVE FALSE
    BY <2>1, <2>8
  <2> QED
    BY <2>2, <2>3, <2>4, <2>5, <2>6, <2>7, <2>8
       DEF DraftingNext, Discover, Reprofile, Confirm, Review, StartDescribe, Plan,
           WriteDescription, LoseDescription, EndDescribe
<1> QED
  BY <1>1, DraftingTypeCorrect, BuildIsConsistent, PTL DEF DraftingSpec, BuildCatchesUp

-----------------------------------------------------------------------------
(* Drafts as artifacts of the bundle *)

\* The call of `dla describe`, with and without --force, and a reviewer's over a draft.
DraftCalls ==
  [prov : {"ai-drafted"}, force : BOOLEAN] \cup [prov : {"ai-drafted-edited"}, force : {FALSE}]

DraftRegister ==
  INSTANCE ProvenanceRegister
    WITH Artifacts <- Artifacts, Texts <- Drafts, Stamps <- {0}, Calls <- DraftCalls,
         reg <- [a \in Artifacts |-> Filed(desc[a])]

\* The two modules and the register have the same transition rules.
LEMMA DraftRulesAgree ==
  /\ DraftRegister!AllowedNext = AllowedNext
  /\ \A p : DraftRegister!PreservesSmeWork(p) <=> PreservesSmeWork(p)
BY DEF DraftRegister!AllowedNext, AllowedNext, DraftRegister!Provenances, Provenances,
       DraftRegister!PreservesSmeWork, PreservesSmeWork, DraftRegister!SmeWork, SmeWork

\* A step changes a description by a draft or by a review of one.
LEMMA OnlyDraftsAndReviews ==
  ASSUME DraftingTypeOK, [DraftingNext]_DraftingVars, desc' # desc
  PROVE  \E a \in Artifacts, doc \in Drafts, c \in DraftCalls :
           /\ desc' = [desc EXCEPT ![a] = doc] /\ doc.prov = c.prov
           /\ desc[a] # NoDoc => /\ PreservesSmeWork(desc[a].prov) => c.force
                                 /\ doc.prov \in AllowedNext[desc[a].prov]
<1> DEFINE Put(a, doc, c) ==
             /\ desc' = [desc EXCEPT ![a] = doc] /\ doc.prov = c.prov
             /\ desc[a] # NoDoc => /\ PreservesSmeWork(desc[a].prov) => c.force
                                   /\ doc.prov \in AllowedNext[desc[a].prov]
<1>1. ASSUME WriteDescription
      PROVE  \E a \in Artifacts, doc \in Drafts, c \in DraftCalls : Put(a, doc, c)
  <2> DEFINE a == describe.target
             doc == [prov |-> "ai-drafted", context |-> describe.context]
             c == [prov |-> "ai-drafted", force |-> describe.force]
  <2>1. Asking(describe)
    BY <1>1 DEF WriteDescription
  <2>2. a \in Artifacts /\ describe.context \in Contexts
    BY <2>1 DEF DraftingTypeOK
  <2>3. describe \in Commands(Artifacts, Contexts)
    BY <2>1, Shapes DEF DraftingTypeOK
  <2>4. doc \in Drafts
    BY <2>2 DEF Drafts
  <2>5. c \in DraftCalls
    BY <2>3 DEF Commands, DraftCalls
  <2>6. Outcome(desc[a], "ai-drafted", describe.force, FALSE) = "write"
          /\ desc' = [desc EXCEPT ![a] = doc]
    BY <1>1 DEF WriteDescription
  <2>7. desc[a] # NoDoc => /\ PreservesSmeWork(desc[a].prov) => describe.force
                           /\ "ai-drafted" \in AllowedNext[desc[a].prov]
    BY <2>6 DEF Outcome, Skips, TransitionAllowed
  <2>8. Put(a, doc, c)
    BY <2>6, <2>7
  <2> HIDE DEF Put
  <2> QED
    BY <2>2, <2>4, <2>5, <2>8
<1>2. ASSUME NEW a \in Artifacts, Review(a)
      PROVE  \E doc \in Drafts, c \in DraftCalls : Put(a, doc, c)
  <2> DEFINE doc == [desc[a] EXCEPT !.prov = "ai-drafted-edited"]
             c == [prov |-> "ai-drafted-edited", force |-> FALSE]
  <2>1. /\ desc[a] \in Drafts /\ desc[a] # NoDoc /\ ~PreservesSmeWork(desc[a].prov)
        /\ desc' = [desc EXCEPT ![a] = doc]
    BY <1>2 DEF Review, DraftingTypeOK
  <2>2. doc \in Drafts /\ doc.prov = "ai-drafted-edited" /\ desc[a].prov = "ai-drafted"
    BY <2>1 DEF Drafts, PreservesSmeWork, SmeWork
  <2>3. "ai-drafted-edited" \in AllowedNext["ai-drafted"]
    BY DEF AllowedNext, Provenances
  <2>4. c \in DraftCalls
    BY DEF DraftCalls
  <2>5. Put(a, doc, c)
    BY <2>1, <2>2, <2>3
  <2> HIDE DEF Put
  <2> QED
    BY <2>2, <2>4, <2>5
<1> HIDE DEF Put
<1>3. \E a \in Artifacts, doc \in Drafts, c \in DraftCalls : Put(a, doc, c)
  BY <1>1, <1>2 DEF DraftingNext, DraftingVars, Discover, Reprofile, Confirm, StartDescribe, Plan,
     LoseDescription, EndDescribe, StartBuild, ReadEntry, WriteEntry, LoseEntry,
     EndBuild, Kill
<1> QED
  BY <1>3 DEF Put

\* The descriptions are a register: no describe, however long its answers take, makes an illegal
\* write, spoils a review without being forced, or loses a description.
THEOREM DraftsAreARegister == DraftingSpec => DraftRegister!Lossless
<1>1. DraftingInit => DraftRegister!Init
  BY DEF DraftingInit, DraftRegister!Init, Filed
<1>2. DraftingTypeOK /\ [DraftingNext]_DraftingVars =>
        [\E a \in Artifacts : DraftRegister!Put(a)]_([a \in Artifacts |-> Filed(desc[a])])
  <2> SUFFICES ASSUME DraftingTypeOK, [DraftingNext]_DraftingVars, desc' # desc
               PROVE  \E a \in Artifacts : DraftRegister!Put(a)
    OBVIOUS
  <2>1. PICK a \in Artifacts, doc \in Drafts, c \in DraftCalls :
           /\ desc' = [desc EXCEPT ![a] = doc] /\ doc.prov = c.prov
           /\ desc[a] # NoDoc => /\ PreservesSmeWork(desc[a].prov) => c.force
                                 /\ doc.prov \in AllowedNext[desc[a].prov]
    BY OnlyDraftsAndReviews
  <2>2. doc # NoDoc
    BY NoDocAssumption
  <2>3. Filed(doc) = [prov |-> c.prov, text |-> doc, created |-> 0]
    BY <2>1, <2>2 DEF Filed
  <2>4. [b \in Artifacts |-> Filed(desc[b])]' =
          [[b \in Artifacts |-> Filed(desc[b])] EXCEPT ![a] = Filed(doc)]
    <3> SUFFICES ASSUME NEW g, g = desc'
                 PROVE  [b \in Artifacts |-> Filed(g[b])] =
                          [[b \in Artifacts |-> Filed(desc[b])] EXCEPT ![a] = Filed(doc)]
      OBVIOUS
    <3> QED
      BY <2>1 DEF DraftingTypeOK
  <2>5. DraftRegister!Admits(Filed(desc[a]), Filed(doc), c.force)
    BY <2>1, <2>2, DraftRulesAgree DEF DraftRegister!Admits, Filed
  <2>6. DraftRegister!Put(a)
    BY <2>3, <2>4, <2>5 DEF DraftRegister!Put
  <2> QED
    BY <2>6
<1> QED
  BY <1>1, <1>2, DraftingTypeCorrect, PTL DEF DraftingSpec, DraftRegister!Lossless
=============================================================================
