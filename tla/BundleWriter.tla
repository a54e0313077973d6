---------------------------- MODULE BundleWriter ----------------------------
(***************************************************************************)
(* write_artifact (apps/dla/src/dla/bundle/writer.py), the one path by     *)
(* which every command and the review UI change the bundle.  An artifact   *)
(* is a pair of files, x.json and x.md.  A call reads the JSON, decides,   *)
(* stages a temporary file and renames it over the JSON, then does the     *)
(* same for the markdown.  Nothing locks the pair: another process can run *)
(* between any two file operations, an operation can raise, and the        *)
(* process can be killed (or leave by KeyboardInterrupt, which the         *)
(* writer's `except Exception` does not catch) wherever it is.             *)
(***************************************************************************)
EXTENDS WriteRules, Naturals, FiniteSets

CONSTANTS
  Procs,        \* processes (CLI commands, request threads of the UI)
  Artifacts,    \* artifact ids
  Texts,        \* an artifact's content, timestamps and provenance apart
  Stamps,       \* values of created_at
  Calls,        \* the call sites of write_artifact: [prov, force]
  MaxMishaps    \* bound: how many file operations raise and processes are killed

Docs == [prov : Provenances, text : Texts, created : Stamps]

ASSUME CallsAssumption == Calls \subseteq [prov : Provenances, force : BOOLEAN]
ASSUME NoDocAssumption == NoDoc \notin Docs
ASSUME BoundsAssumption == MaxMishaps \in Nat

VARIABLES
  json,      \* [Artifacts -> Docs \cup {NoDoc}]  the .json files
  md,        \* [Artifacts -> Docs \cup {NoDoc}]  the .md files
  tmp,       \* the *.tmp files on disk: [art, owner, life]
  op,        \* op[p]: the write_artifact call p is in, or Idle
  life,      \* life[p]: how often p has been killed (names its temp files)
  mishaps,   \* how many operations have raised and processes were killed
  crossed,   \* history: running calls whose JSON another call has changed since
             \* they read it or, later, since they renamed theirs over it
  torn,      \* history: artifacts whose pair a death, a rollback or a call that
             \* was crossed left split
  owed       \* history: owed[a] is the last SME work reported as written

vars == <<json, md, tmp, op, life, mishaps, crossed, torn, owed>>

-----------------------------------------------------------------------------
(* Values *)

Idle == [at |-> "idle"]
Running(a, old, doc, force) ==
  [at |-> "stage-json", art |-> a, old |-> old, doc |-> doc, force |-> force]

\* Where a call can be between two file operations.
Places == {"stage-json", "replace-json", "stage-md", "replace-md", "rollback"}

\* A call has read `old`, which it forgets with its first rename, and writes `doc`.
Ops == [at : Places, art : Artifacts, old : Docs \cup {NoDoc}, doc : Docs, force : BOOLEAN]

InFlight(p) == op[p].at # "idle"
On(p, a) == InFlight(p) /\ op[p].art = a
Quiet(a) == \A p \in Procs : ~On(p, a)

-----------------------------------------------------------------------------
(* Bugs these operators could have, each caught by a property below: a     *)
(* creation stamp restarted or missing, no rollback, no cleanup.           *)

RestartedStamp(old, prov, text, stamp) == [prov |-> prov, text |-> text, created |-> stamp]
MissingStamp(old, prov, text, stamp) ==
  [prov |-> prov, text |-> text, created |-> IF old = NoDoc THEN NoDoc ELSE old.created]
NoRollback(at) == "idle"
NoCleanup(p) == tmp

-----------------------------------------------------------------------------
(* What write_artifact does with the JSON it has just read *)

\* The new data takes over the created_at of the artifact it replaces.
Merged(old, prov, text, stamp) ==
  [prov |-> prov, text |-> text, created |-> IF old = NoDoc THEN stamp ELSE old.created]

\* Identical modulo timestamps.
SameContent(old, doc) == old # NoDoc /\ old.prov = doc.prov /\ old.text = doc.text

Verdict(old, doc, force) == Outcome(old, doc.prov, force, SameContent(old, doc))

TempFile(p) == [art |-> op[p].art, owner |-> p, life |-> life[p]]

\* Where the `except` of a failed operation goes: an error of the markdown
\* write is caught by write_artifact, which rolls the JSON back.
AfterFailure(at) == IF at \in {"stage-md", "replace-md"} THEN "rollback" ELSE "idle"

\* The temp files left by a failed operation: _atomic_write unlinks its own.
WithoutTemp(p) == tmp \ {TempFile(p)}

\* Who is crossed once p has changed the JSON: everybody else at the artifact.
CrossedBy(p) == (crossed \ {p}) \cup {q \in Procs \ {p} : On(q, op[p].art)}

-----------------------------------------------------------------------------
Init ==
  /\ json = [a \in Artifacts |-> NoDoc]
  /\ md = [a \in Artifacts |-> NoDoc]
  /\ tmp = {}
  /\ op = [p \in Procs |-> Idle]
  /\ life = [p \in Procs |-> 0]
  /\ mishaps = 0
  /\ crossed = {}
  /\ torn = {}
  /\ owed = [a \in Artifacts |-> NoDoc]

\* Up to the first file operation: read the JSON and decide.
Begin(p, a) ==
  /\ ~InFlight(p)
  /\ \E c \in Calls, t \in Texts, s \in Stamps :
       LET doc == Merged(json[a], c.prov, t, s)
       IN  IF Verdict(json[a], doc, c.force) = "write"
           THEN op' = [op EXCEPT ![p] = Running(a, json[a], doc, c.force)]
           ELSE UNCHANGED op
  /\ UNCHANGED <<json, md, tmp, life, mishaps, crossed, torn, owed>>

\* _atomic_write, first half: mkstemp, write, fsync.
Stage(p) ==
  /\ op[p].at \in {"stage-json", "stage-md"}
  /\ tmp' = tmp \cup {TempFile(p)}
  /\ op' = [op EXCEPT ![p].at = IF @ = "stage-json" THEN "replace-json" ELSE "replace-md"]
  /\ UNCHANGED <<json, md, life, mishaps, crossed, torn, owed>>

\* os.replace over the JSON.  The claim of earlier SME work ends if the call is
\* forced, or has decided from a version that is no longer there.
ReplaceJson(p) ==
  /\ op[p].at = "replace-json"
  /\ json' = [json EXCEPT ![op[p].art] = op[p].doc]
  /\ tmp' = tmp \ {TempFile(p)}
  /\ owed' = IF op[p].force \/ p \in crossed THEN [owed EXCEPT ![op[p].art] = NoDoc]
             ELSE owed
  /\ crossed' = CrossedBy(p)
  /\ op' = [op EXCEPT ![p].at = "stage-md", ![p].old = NoDoc]
  /\ UNCHANGED <<md, life, mishaps, torn>>

\* os.replace over the markdown; the call returns.  If another call has changed
\* the JSON since, the two files are of different calls, and nothing is claimed.
ReplaceMd(p) ==
  LET a == op[p].art IN
  /\ op[p].at = "replace-md"
  /\ md' = [md EXCEPT ![a] = op[p].doc]
  /\ tmp' = tmp \ {TempFile(p)}
  /\ owed' = IF PreservesSmeWork(op[p].doc.prov) /\ p \notin crossed
             THEN [owed EXCEPT ![a] = op[p].doc] ELSE owed
  /\ torn' = IF p \in crossed THEN torn \cup {a} ELSE torn \ {a}
  /\ crossed' = crossed \ {p}
  /\ op' = [op EXCEPT ![p] = Idle]
  /\ UNCHANGED <<json, life, mishaps>>

\* An OSError or the like out of a file operation.
Raise(p) ==
  /\ op[p].at \in {"stage-json", "replace-json", "stage-md", "replace-md"}
  /\ mishaps < MaxMishaps
  /\ mishaps' = mishaps + 1
  /\ tmp' = WithoutTemp(p)
  /\ op' = IF AfterFailure(op[p].at) = "rollback"
           THEN [op EXCEPT ![p].at = "rollback"]
           ELSE [op EXCEPT ![p] = Idle]
  /\ crossed' = IF AfterFailure(op[p].at) = "rollback" THEN crossed ELSE crossed \ {p}
  /\ UNCHANGED <<json, md, life, torn, owed>>

\* The rollback of write_artifact: unlink the JSON and re-raise.
Rollback(p) ==
  LET a == op[p].art IN
  /\ op[p].at = "rollback"
  /\ json' = [json EXCEPT ![a] = NoDoc]
  /\ torn' = IF md[a] = NoDoc THEN torn ELSE torn \cup {a}
  /\ owed' = [owed EXCEPT ![a] = NoDoc]
  /\ crossed' = CrossedBy(p)
  /\ op' = [op EXCEPT ![p] = Idle]
  /\ UNCHANGED <<md, tmp, life, mishaps>>

\* SIGKILL, power loss, or a KeyboardInterrupt that no handler of the writer
\* catches: the files stay as they are, and the temp file stays behind.
Die(p) ==
  /\ InFlight(p)
  /\ mishaps < MaxMishaps
  /\ mishaps' = mishaps + 1
  /\ life' = [life EXCEPT ![p] = @ + 1]
  /\ torn' = IF op[p].at \in {"stage-md", "replace-md", "rollback"}
             THEN torn \cup {op[p].art} ELSE torn
  /\ crossed' = crossed \ {p}
  /\ op' = [op EXCEPT ![p] = Idle]
  /\ UNCHANGED <<json, md, tmp, owed>>

Step(p) == Stage(p) \/ ReplaceJson(p) \/ ReplaceMd(p) \/ Rollback(p)

Next ==
  \E p \in Procs :
    \/ \E a \in Artifacts : Begin(p, a)
    \/ Step(p)
    \/ Raise(p)
    \/ Die(p)

Spec == Init /\ [][Next]_vars

\* A call that is running goes on: it is plain sequential code.
FairSpec == Spec /\ \A p \in Procs : WF_vars(Step(p))

-----------------------------------------------------------------------------
(* Properties *)

MaybeDocs == Docs \cup {NoDoc}

\* Every variable has its type.
TypeOK ==
  /\ json \in [Artifacts -> MaybeDocs]
  /\ md \in [Artifacts -> MaybeDocs]
  /\ tmp \subseteq [art : Artifacts, owner : Procs, life : 0 .. mishaps]
  /\ op \in [Procs -> Ops \cup {Idle}]
  /\ life \in [Procs -> 0 .. mishaps]
  /\ mishaps \in 0 .. MaxMishaps
  /\ crossed \subseteq Procs
  /\ torn \subseteq Artifacts
  /\ owed \in [Artifacts -> MaybeDocs]

\* A temp file on disk either belongs to a call that is about to rename it, or
\* was left by a process that was killed: no exception leaves one behind
\* (the cleanup in _atomic_write).
TempFilesOwned ==
  \A f \in tmp :
    f.life = life[f.owner] => /\ op[f.owner].at \in {"replace-json", "replace-md"}
                              /\ op[f.owner].art = f.art

\* While nobody writes an artifact, its two files are the same document or are
\* both absent, unless a death, a rollback of an update or a call that renamed
\* its markdown after another had changed the JSON split them: this is what the
\* rollback of write_artifact is for, and it covers the failed first write of an
\* artifact.
PairWhole == \A a \in Artifacts : Quiet(a) /\ a \notin torn => md[a] = json[a]

\* SME work that a call reported as written stays in the JSON, and in the
\* markdown too, whatever the unforced re-runs do, those that overlap it and
\* read it half written included, until a forced call takes effect, a failed
\* write rolls the artifact back, or a call does that had read the artifact
\* before the work was there.
AcknowledgedSmeWorkDurable ==
  \A a \in Artifacts :
    owed[a] # NoDoc => json[a] = owed[a] /\ (a \notin torn => md[a] = owed[a])

\* The JSON files are the register of SnapshotRegister, however calls overlap:
\* every change of one is a write that the provenance rules allow over what the
\* call had read (with the creation stamp of that version), or the rollback.
Register ==
  INSTANCE SnapshotRegister
    WITH reg <- json,
         read <- [p \in Procs |-> IF op[p].at \in {"stage-json", "replace-json"}
                                  THEN <<op[p].art, op[p].old>> ELSE <<>>]
ImplementsRegister == Register!SnapshotSpec

\* A split pair is made whole again (by the rest of a call or its rollback), or a
\* death, a rollback of an update or a call that was crossed has torn it.
PairHeals ==
  \A a \in Artifacts : (md[a] # json[a]) ~> (md[a] = json[a] \/ a \in torn)

(* What the documentation says and the code does not do *)

\* bundle-contract.md:87: SME work is preserved, a re-run never clobbers it.
\* The markdown file is what the SME reads and edits: only a forced call (a
\* reviewer's) may replace it while it holds SME work.
RerunKeepsSmeMarkdown ==
  [][\A a \in Artifacts :
       (md[a] # NoDoc /\ PreservesSmeWork(md[a].prov) /\ md'[a] # md[a])
         => \E p \in Procs : On(p, a) /\ op[p].force]_vars
=============================================================================
