------------------------- MODULE OrchestratorProofs -------------------------
(***************************************************************************)
(* Proofs about Orchestrator for any pipeline and any options.             *)
(***************************************************************************)
EXTENDS Orchestrator, FiniteSetTheorems, TLAPS

\* What load_state returns is a run state, whatever is on disk.
LEMMA LoadedType ==
  ASSUME file \in RunStates \cup {Absent, Torn}
  PROVE  Loaded \in RunStates
BY DEF Loaded, Fresh, RunStates

\* Marking a step keeps a run state a run state.
LEMMA MarkType ==
  ASSUME NEW st \in RunStates, NEW s \in Steps
  PROVE  /\ MarkCompleted(st, s) \in RunStates
         /\ MarkFailed(st, s) \in RunStates
BY DEF MarkCompleted, MarkFailed, RunStates

\* What a save writes is read back as written.
LEMMA LoadedRecord ==
  ASSUME NEW st \in RunStates
  PROVE  st \notin {Absent, Torn}
<1> DOMAIN st = {"completed", "last_failed"} /\ DOMAIN Absent = {"file"} /\ DOMAIN Torn = {"file"}
  BY DEF RunStates, Absent, Torn
<1> QED
  OBVIOUS

\* A step has one position, of its own.
LEMMA PosOf ==
  ASSUME NEW s \in Steps
  PROVE  Pos(s) \in DOMAIN StepOrder /\ StepOrder[Pos(s)] = s
<1>1. \E i \in DOMAIN StepOrder : StepOrder[i] = s
  BY DEF Steps
<1> QED
  BY <1>1 DEF Pos

\* A step's position in the order is a number.
LEMMA PosNat ==
  ASSUME NEW s \in Steps
  PROVE  Pos(s) \in Nat
<1>1. DOMAIN StepOrder = 1 .. Len(StepOrder)
  BY StepOrderAssumption
<1> QED
  BY <1>1, PosOf

\* No two steps have the same position.
LEMMA PosInjective ==
  ASSUME NEW s \in Steps, NEW t \in Steps, Pos(s) = Pos(t)
  PROVE  s = t
BY PosOf

-----------------------------------------------------------------------------
\* The record, the run in progress and the report are well typed.
THEOREM TypeCorrect == Spec => []TypeOK
<1>1. Init => TypeOK
  BY DEF Init, TypeOK, Plain, Whys, Idle
<1>2. TypeOK /\ [Next]_vars => TypeOK'
  <2> SUFFICES ASSUME TypeOK, [Next]_vars PROVE TypeOK'
    OBVIOUS
  <2> USE DEF TypeOK
  <2>1. CASE Refuse
    BY <2>1 DEF Refuse, Plain, Whys
  <2>2. CASE Begin
    <3>1. PICK from \in FromOptions, skip \in SkipOptions, llm \in LlmOptions,
               resume \in BOOLEAN, halting \in BOOLEAN :
            LET plan == PlanSteps(from, skip, resume, Loaded)
                todo == IF llm THEN plan ELSE plan \ LlmSteps
            IN  /\ IF plan = {}
                   THEN /\ exit' = Plain("nothing-to-run")
                        /\ UNCHANGED run
                   ELSE /\ exit' = Plain("not-yet")
                        /\ run' = [at |-> "step", plan |-> plan, todo |-> todo, mem |-> Loaded,
                                   llm |-> llm, halting |-> halting, last |-> None,
                                   next |-> "continue"]
                /\ plainly' = (plainly /\ from = None /\ skip = {} /\ llm)
      BY <2>2 DEF Begin
    <3> DEFINE plan == PlanSteps(from, skip, resume, Loaded)
    <3>2. plan \subseteq Steps /\ llm \in BOOLEAN /\ Loaded \in RunStates
      BY LoadedType, OptionsAssumption DEF PlanSteps, AfterCompleted
    <3>3. run' \in Runs \cup {Idle}
      BY <3>1, <3>2 DEF Runs
    <3>4. exit' \in [why : Whys, step : Steps \cup {None}, todo : SUBSET Steps]
      BY <3>1 DEF Plain, Whys
    <3>5. plainly' \in BOOLEAN
      BY <3>1, OptionsAssumption
    <3> QED
      BY <2>2, <3>3, <3>4, <3>5 DEF Begin
  <2>3. ASSUME NEW s \in Steps, Skip(s) PROVE TypeOK'
    BY <2>3 DEF Skip, Runs, Idle
  <2>4. ASSUME NEW s \in Steps, Complete(s) PROVE TypeOK'
    <3>1. run \in Runs
      BY <2>4 DEF Complete, Idle
    <3>2. MarkCompleted(run.mem, s) \in RunStates
      BY <3>1, MarkType DEF Runs
    <3> QED
      BY <2>4, <3>1, <3>2 DEF Complete, Runs
  <2>5. ASSUME NEW s \in Steps, Stop(s) PROVE TypeOK'
    <3>1. run \in Runs
      BY <2>5 DEF Stop, Idle
    <3>2. MarkFailed(run.mem, s) \in RunStates
      BY <3>1, MarkType DEF Runs
    <3>3. StopsOf(s) \subseteq Stops
      BY DEF StopsOf, Stops
    <3> QED
      BY <2>5, <3>1, <3>2, <3>3 DEF Stop, Runs
  <2>6. CASE Save
    <3>1. run \in Runs
      BY <2>6 DEF Save, Idle
    <3>2. CASE run.next = "continue"
      BY <2>6, <3>1, <3>2 DEF Save, Runs
    <3>3. CASE run.next # "continue"
      BY <2>6, <3>1, <3>3 DEF Save, Runs, Ended, Whys, Stops, Idle
    <3> QED
      BY <3>2, <3>3
  <2>7. CASE Finish
    BY <2>7 DEF Finish, Runs, Idle, Ended, Whys, Stops
  <2>8. CASE Abort
    BY <2>8 DEF Abort, Runs, Ended, Whys, Aborts, Stops, Idle
  <2>9. CASE UNCHANGED vars
    BY <2>9 DEF vars
  <2> QED
    BY <2>1, <2>2, <2>3, <2>4, <2>5, <2>6, <2>7, <2>8, <2>9 DEF Next, Progress
<1> QED
  BY <1>1, <1>2, PTL DEF Spec

-----------------------------------------------------------------------------
(* The record is sound *)

\* Both the run in progress and the file on disk only claim steps that have
\* completed, whatever was skipped, failed, interrupted or killed.
THEOREM Completed == Spec => []CompletedSound
<1>1. Init => CompletedSound
  BY DEF Init, CompletedSound, Loaded, Fresh
<1>2. TypeOK /\ CompletedSound /\ [Next]_vars => CompletedSound'
  <2> SUFFICES ASSUME TypeOK, CompletedSound, [Next]_vars PROVE CompletedSound'
    OBVIOUS
  <2> USE DEF CompletedSound
  <2>1. CASE Refuse
    BY <2>1 DEF Refuse, Loaded
  <2>2. CASE Begin
    <3>1. run'.mem = Loaded \/ run' = run
      BY <2>2 DEF Begin
    <3> QED
      BY <2>2, <3>1 DEF Begin, Loaded
  <2>3. ASSUME NEW s \in Steps, Skip(s) \/ Complete(s) \/ Stop(s) PROVE CompletedSound'
    <3>1. run \in Runs /\ run # Idle
      <4>1. run.at = "step"
        BY <2>3 DEF Skip, Complete, Stop
      <4> QED
        BY <4>1 DEF TypeOK, Idle
    <3>2. UNCHANGED file
      BY <2>3 DEF Skip, Complete, Stop
    <3>3. MarkFailed(run.mem, s).completed = run.mem.completed
      BY <3>1 DEF MarkFailed, Runs, RunStates
    <3>5. CASE Complete(s)
      BY <3>1, <3>2, <3>5 DEF Complete, MarkCompleted, Loaded, Runs
    <3>6. CASE Skip(s) \/ Stop(s)
      <4>1. run'.mem.completed = run.mem.completed /\ UNCHANGED <<file, done>>
        BY <3>1, <3>3, <3>6 DEF Skip, Stop, Runs
      <4> QED
        BY <3>1, <4>1 DEF Loaded
    <3> QED
      BY <2>3, <3>5, <3>6
  <2>4. CASE Save
    <3>1. run \in Runs /\ run # Idle
      BY <2>4 DEF Save, TypeOK, Idle
    <3>2. Loaded' = run.mem
      BY <2>4, <3>1, LoadedRecord DEF Save, Loaded, Runs
    <3>3. run' = Idle \/ run'.mem = run.mem
      BY <2>4, <3>1 DEF Save, Runs
    <3> QED
      BY <2>4, <3>1, <3>2, <3>3 DEF Save
  <2>5. CASE Finish
    BY <2>5 DEF Finish, Loaded
  <2>6. CASE Abort
    <3>1. run \in Runs
      BY <2>6 DEF Abort, TypeOK
    <3>2. Loaded' \in {Loaded, Fresh, run.mem}
      BY <2>6, <3>1 DEF Abort, Loaded
    <3> QED
      BY <2>6, <3>1, <3>2 DEF Abort, Fresh
  <2>7. CASE UNCHANGED vars
    BY <2>7 DEF vars, Loaded
  <2> QED
    BY <2>1, <2>2, <2>3, <2>4, <2>5, <2>6, <2>7 DEF Next, Progress
<1> QED
  BY <1>1, <1>2, TypeCorrect, PTL DEF Spec

-----------------------------------------------------------------------------
(* The record and the report *)

\* The steps of the plan that the run has been through, and had to run.
Executed == run.todo \ run.plan

\* While a run goes on: between steps the file holds what the run holds in
\* memory, everything executed so far is marked completed and not failed, and
\* a stop is marked on the step it happened in.
RunInv ==
  run # Idle =>
    /\ run.at = "step" => Loaded = run.mem /\ run.next = "continue"
    /\ Executed \subseteq run.mem.completed
    /\ run.next = "continue" => run.mem.last_failed \notin Executed
    /\ run.at = "save" /\ run.next = "continue" => run.mem.last_failed # run.last
    /\ run.next # "continue" => run.mem.last_failed = run.last
    /\ ~run.llm => run.todo \cap LlmSteps = {}
    /\ run.todo \subseteq Steps

\* No record names as failed a step whose latest recorded outcome is completion.
FailedInv ==
  /\ Loaded.last_failed \notin clean
  /\ run # Idle => run.mem.last_failed \notin clean

RecInv == TypeOK /\ RunInv /\ FailedInv /\ ExitMatchesRecord

\* The strengthened invariant of the record, which ties the run in progress, the
\* file and the histories together, is inductive.
THEOREM RecordInductive == Spec => []RecInv
<1>1. Init => RecInv
  <2> SUFFICES ASSUME Init PROVE RecInv
    OBVIOUS
  <2>1. TypeOK
    BY DEF Init, TypeOK, Plain, Whys, Idle
  <2> QED
    BY <2>1 DEF Init, RecInv, RunInv, FailedInv, ExitMatchesRecord, Plain, Stops
<1>2. RecInv /\ TypeOK' /\ [Next]_vars => RecInv'
  <2> SUFFICES ASSUME RecInv, TypeOK', [Next]_vars
               PROVE  RunInv' /\ FailedInv' /\ ExitMatchesRecord'
    BY DEF RecInv
  <2> USE DEF RecInv
  <2>1. CASE Refuse
    BY <2>1 DEF Refuse, RunInv, FailedInv, ExitMatchesRecord, Loaded, Plain, Stops
  <2>2. CASE Begin
    <3>1. PICK from \in FromOptions, skip \in SkipOptions, llm \in LlmOptions,
               resume \in BOOLEAN, halting \in BOOLEAN :
            LET plan == PlanSteps(from, skip, resume, Loaded)
                todo == IF llm THEN plan ELSE plan \ LlmSteps
            IN  /\ IF plan = {}
                   THEN /\ exit' = Plain("nothing-to-run")
                        /\ UNCHANGED run
                   ELSE /\ exit' = Plain("not-yet")
                        /\ run' = [at |-> "step", plan |-> plan, todo |-> todo, mem |-> Loaded,
                                   llm |-> llm, halting |-> halting, last |-> None,
                                   next |-> "continue"]
                /\ plainly' = (plainly /\ from = None /\ skip = {} /\ llm)
      BY <2>2 DEF Begin
    <3> DEFINE plan == PlanSteps(from, skip, resume, Loaded)
    <3>2. UNCHANGED <<file, clean>> /\ run = Idle /\ Loaded' = Loaded
      BY <2>2 DEF Begin, Loaded
    <3>3. plan \subseteq Steps
      BY OptionsAssumption DEF PlanSteps, AfterCompleted
    <3>4. ExitMatchesRecord'
      BY <3>1 DEF ExitMatchesRecord, Plain, Stops
    <3>5. CASE plan = {}
      BY <3>1, <3>2, <3>4, <3>5 DEF RunInv, FailedInv
    <3>6. CASE plan # {}
      BY <3>1, <3>2, <3>3, <3>4, <3>6 DEF RunInv, FailedInv, Executed
    <3> QED
      BY <3>5, <3>6
  <2>3. ASSUME NEW s \in Steps, Skip(s) PROVE RunInv' /\ FailedInv' /\ ExitMatchesRecord'
    <3>1. run \in Runs /\ run' \in Runs /\ run # Idle /\ run' # Idle
      <4>1. run.at = "step" /\ run'.at = "step"
        BY <2>3 DEF Skip, TypeOK, Runs, Idle
      <4> QED
        BY <4>1 DEF TypeOK, Idle
    <3>2. /\ run'.plan = run.plan \ {s} /\ run'.todo = run.todo /\ run'.mem = run.mem
          /\ run'.at = "step" /\ run'.next = run.next /\ run'.llm = run.llm
          /\ run.at = "step" /\ s \in LlmSteps /\ ~run.llm
          /\ UNCHANGED <<file, exit, clean>> /\ Loaded' = Loaded
      BY <2>3, <3>1 DEF Skip, Skipped, Loaded, Runs
    <3>3. Executed' = Executed
      BY <3>1, <3>2 DEF Executed, RunInv
    <3> QED
      BY <3>1, <3>2, <3>3 DEF RunInv, FailedInv, ExitMatchesRecord
  <2>4. ASSUME NEW s \in Steps, Complete(s) PROVE RunInv' /\ FailedInv' /\ ExitMatchesRecord'
    <3>1. run \in Runs /\ run' \in Runs /\ run # Idle /\ run' # Idle
      <4>1. run.at = "step" /\ run'.at = "save"
        BY <2>4 DEF Complete, TypeOK, Runs, Idle
      <4> QED
        BY <4>1 DEF TypeOK, Idle
    <3>2. /\ run'.plan = run.plan \ {s} /\ run'.todo = run.todo /\ run'.at = "save"
          /\ run'.mem = MarkCompleted(run.mem, s) /\ run'.next = run.next /\ run'.llm = run.llm
          /\ run'.last = s /\ run.at = "step"
          /\ UNCHANGED <<file, exit, clean>> /\ Loaded' = Loaded
      BY <2>4, <3>1 DEF Complete, Loaded, Runs
    <3>3. /\ run'.mem.completed = run.mem.completed \cup {s}
          /\ run'.mem.last_failed = (IF run.mem.last_failed = s THEN None ELSE run.mem.last_failed)
      BY <3>2 DEF MarkCompleted
    <3>4. Executed' \subseteq Executed \cup {s}
      BY <3>2 DEF Executed
    <3>5. None \notin Steps /\ clean \subseteq Steps
      BY OptionsAssumption DEF TypeOK
    <3>6. run.next = "continue"
      BY <3>1, <3>2 DEF RunInv
    <3>7. RunInv'
      BY <3>1, <3>2, <3>3, <3>4, <3>5, <3>6 DEF RunInv, Executed
    <3>8. FailedInv'
      BY <3>1, <3>2, <3>3, <3>5 DEF FailedInv
    <3> QED
      BY <3>1, <3>7, <3>8 DEF ExitMatchesRecord
  <2>5. ASSUME NEW s \in Steps, Stop(s) PROVE RunInv' /\ FailedInv' /\ ExitMatchesRecord'
    <3>1. run \in Runs /\ run' \in Runs /\ run # Idle /\ run' # Idle
      <4>1. run.at = "step" /\ run'.at = "save"
        BY <2>5 DEF Stop, TypeOK, Runs, Idle
      <4> QED
        BY <4>1 DEF TypeOK, Idle
    <3>2. /\ run'.plan = run.plan /\ run'.todo = run.todo /\ run'.at = "save"
          /\ run'.mem = MarkFailed(run.mem, s) /\ run'.next \in StopsOf(s) /\ run'.llm = run.llm
          /\ run'.last = s
          /\ UNCHANGED <<file, exit>> /\ Loaded' = Loaded /\ clean' = clean \ {s}
      BY <2>5, <3>1 DEF Stop, Loaded, Runs
    <3>3. run'.mem.completed = run.mem.completed /\ run'.mem.last_failed = s
      BY <3>1, <3>2 DEF MarkFailed, Runs, RunStates
    <3>4. run'.next # "continue"
      BY <3>2 DEF StopsOf
    <3>5. RunInv'
      BY <3>1, <3>2, <3>3, <3>4 DEF RunInv, Executed
    <3>6. FailedInv'
      BY <3>1, <3>2, <3>3 DEF FailedInv
    <3> QED
      BY <3>1, <3>5, <3>6 DEF ExitMatchesRecord
  <2>6. CASE Save
    <3>1. run \in Runs /\ run # Idle /\ run.at = "save"
      BY <2>6 DEF Save, TypeOK, Idle
    <3>2. Loaded' = run.mem
      BY <2>6, <3>1, LoadedRecord DEF Save, Loaded, Runs
    <3>3. CASE run.next = "continue"
      <4>1. /\ run' # Idle /\ run'.mem = run.mem /\ run'.at = "step" /\ run'.next = run.next
            /\ run'.todo = run.todo /\ run'.plan = run.plan /\ run'.llm = run.llm
            /\ clean' = clean \cup {run.last}
        BY <2>6, <3>1, <3>3 DEF Save, Runs, Idle
      <4> QED
        BY <3>1, <3>2, <3>3, <4>1 DEF RunInv, FailedInv, ExitMatchesRecord, Executed
    <3>4. CASE run.next # "continue"
      <4>1. run' = Idle /\ exit' = Ended(run.next) /\ clean' = clean /\ run.next \in Stops
        BY <2>6, <3>1, <3>4 DEF Save, Runs
      <4>2. exit'.why = run.next /\ exit'.step = run.last /\ exit'.why # "success"
        BY <4>1 DEF Ended, Stops
      <4> QED
        BY <3>1, <3>2, <3>4, <4>1, <4>2 DEF RunInv, FailedInv, ExitMatchesRecord
    <3> QED
      BY <3>3, <3>4
  <2>7. CASE Finish
    <3>1. /\ run # Idle /\ run.at = "step" /\ run.plan = {} /\ run' = Idle
          /\ exit'.why = "success" /\ exit'.todo = run.todo
          /\ UNCHANGED <<file, clean>> /\ Loaded' = Loaded
      BY <2>7 DEF Finish, Ended, Stops, Loaded, Idle
    <3> QED
      BY <3>1 DEF RunInv, FailedInv, ExitMatchesRecord, Executed, Stops
  <2>8. CASE Abort
    <3>1. /\ run # Idle /\ run \in Runs /\ run' = Idle /\ clean' = clean
          /\ exit'.why \notin Stops /\ exit'.why # "success"
      BY <2>8 DEF Abort, TypeOK, Ended, Aborts, Stops
    <3>2. Loaded' \in {Loaded, Fresh, run.mem}
      BY <2>8, <3>1 DEF Abort, Loaded
    <3>3. None \notin clean
      BY OptionsAssumption DEF TypeOK
    <3> QED
      BY <3>1, <3>2, <3>3 DEF RunInv, FailedInv, ExitMatchesRecord, Fresh
  <2>9. CASE UNCHANGED vars
    BY <2>9 DEF vars, RunInv, FailedInv, ExitMatchesRecord, Executed, Loaded
  <2> QED
    BY <2>1, <2>2, <2>3, <2>4, <2>5, <2>6, <2>7, <2>8, <2>9 DEF Next, Progress
<1> QED
  BY <1>1, <1>2, TypeCorrect, PTL DEF Spec

\* What a command reports about its run is what the record on disk says of it.
THEOREM ReportedIsRecorded == Spec => []ExitMatchesRecord
<1>1. RecInv => ExitMatchesRecord
  BY DEF RecInv
<1> QED
  BY <1>1, RecordInductive, PTL

\* A step that has completed since it failed is not named as failed.
THEOREM FailureHonest == Spec => []LastFailedHonest
<1>1. RecInv => LastFailedHonest
  BY DEF RecInv, FailedInv, LastFailedHonest
<1> QED
  BY <1>1, RecordInductive, PTL

\* The record on disk agrees with the last report and with what has happened.
THEOREM RecordIsHonest == Spec => []RecordHonest
<1>1. ExitMatchesRecord /\ LastFailedHonest => RecordHonest
  BY DEF RecordHonest
<1> QED
  BY <1>1, ReportedIsRecorded, FailureHonest, PTL

-----------------------------------------------------------------------------
(* --resume *)

\* As long as the operator picks no steps: nothing a record's last completed step
\* stands for is undone, and what a run has no more in its plan is done.
Behind(st) == Steps \ AfterCompleted(st)
PlainInv ==
  plainly =>
    /\ Behind(Loaded) \subseteq done
    /\ run # Idle => /\ run.llm
                     /\ Steps \ run.plan \subseteq done
                     /\ Behind(run.mem) \subseteq done

\* Completing the step the loop is at leaves nothing behind that is not done.
LEMMA CompletedBehind ==
  ASSUME TypeOK, run # Idle, NEW s \in Steps, IsCurrent(s),
         Steps \ run.plan \subseteq done, Behind(run.mem) \subseteq done
  PROVE  Behind(MarkCompleted(run.mem, s)) \subseteq done \cup {s}
<1> SUFFICES ASSUME NEW t \in Behind(MarkCompleted(run.mem, s))
             PROVE  t \in done \cup {s}
  OBVIOUS
<1>1. run.mem \in RunStates
  BY DEF TypeOK, Runs
<1>2. t \in Steps /\ \E c \in run.mem.completed \cup {s} : ~(Pos(c) < Pos(t))
  BY DEF Behind, AfterCompleted, MarkCompleted
<1>3. CASE \E c \in run.mem.completed : ~(Pos(c) < Pos(t))
  BY <1>2, <1>3 DEF Behind, AfterCompleted
<1>4. CASE ~(Pos(s) < Pos(t))
  <2>1. CASE t \notin run.plan
    BY <1>2, <2>1
  <2>2. CASE t \in run.plan
    <3>1. Pos(s) <= Pos(t) /\ Pos(s) \in Nat /\ Pos(t) \in Nat
      BY <1>2, <2>2, PosNat DEF IsCurrent
    <3>2. Pos(s) = Pos(t)
      BY <1>4, <3>1
    <3> QED
      BY <1>2, <3>2, PosInjective
  <2> QED
    BY <2>1, <2>2
<1> QED
  BY <1>2, <1>3, <1>4

\* A step that has not completed is never behind what --resume passes over.
THEOREM ResumeIsCovered == Spec => []ResumeCovers
<1>1. Init => PlainInv
  BY DEF Init, PlainInv, Behind, AfterCompleted, Loaded, Fresh
<1>2. TypeOK /\ TypeOK' /\ PlainInv /\ [Next]_vars => PlainInv'
  <2> SUFFICES ASSUME TypeOK, TypeOK', PlainInv, [Next]_vars, plainly' PROVE PlainInv'
    BY DEF PlainInv
  <2>1. CASE Refuse \/ UNCHANGED vars
    BY <2>1 DEF Refuse, vars, PlainInv, Behind, AfterCompleted, Loaded
  <2>2. CASE Begin
    <3>1. PICK from \in FromOptions, skip \in SkipOptions, llm \in LlmOptions,
               resume \in BOOLEAN, halting \in BOOLEAN :
            LET plan == PlanSteps(from, skip, resume, Loaded)
                todo == IF llm THEN plan ELSE plan \ LlmSteps
            IN  /\ IF plan = {}
                   THEN /\ exit' = Plain("nothing-to-run")
                        /\ UNCHANGED run
                   ELSE /\ exit' = Plain("not-yet")
                        /\ run' = [at |-> "step", plan |-> plan, todo |-> todo, mem |-> Loaded,
                                   llm |-> llm, halting |-> halting, last |-> None,
                                   next |-> "continue"]
                /\ plainly' = (plainly /\ from = None /\ skip = {} /\ llm)
      BY <2>2 DEF Begin
    <3> DEFINE plan == PlanSteps(from, skip, resume, Loaded)
    <3>2. plainly /\ from = None /\ skip = {} /\ llm
      BY <3>1
    <3>3. UNCHANGED <<file, done>> /\ run = Idle /\ Loaded' = Loaded
      BY <2>2 DEF Begin, Loaded
    <3>4. plan = Steps \/ plan = AfterCompleted(Loaded)
      BY <3>2 DEF PlanSteps
    <3>5. Steps \ plan \subseteq done
      BY <3>2, <3>4 DEF PlainInv, Behind
    <3>6. run' = run \/ (run'.plan = plan /\ run'.mem = Loaded /\ run'.llm = llm)
      BY <3>1
    <3>7. Behind(Loaded)' = Behind(Loaded) /\ (run' # run => Behind(run.mem)' = Behind(Loaded))
      BY <3>3, <3>6 DEF Behind, AfterCompleted
    <3> QED
      BY <3>2, <3>3, <3>5, <3>6, <3>7 DEF PlainInv
  <2>3. ASSUME NEW s \in Steps, Skip(s) PROVE PlainInv'
    <3>1. run # Idle /\ ~run.llm /\ plainly
      BY <2>3 DEF Skip, Skipped, Idle
    <3> QED
      BY <3>1 DEF PlainInv
  <2>4. ASSUME NEW s \in Steps, Complete(s) PROVE PlainInv'
    <3>1. run \in Runs /\ run # Idle /\ plainly
      BY <2>4 DEF Complete, TypeOK, Idle
    <3>2. /\ run'.plan = run.plan \ {s} /\ run'.mem = MarkCompleted(run.mem, s)
          /\ run'.llm = run.llm /\ done' = done \cup {s} /\ Loaded' = Loaded
      BY <2>4, <3>1 DEF Complete, Loaded, Runs
    <3>3. Behind(MarkCompleted(run.mem, s)) \subseteq done \cup {s}
      BY <2>4, <3>1, CompletedBehind DEF Complete, PlainInv
    <3>4. Behind(run.mem)' = Behind(MarkCompleted(run.mem, s)) /\ Behind(Loaded)' = Behind(Loaded)
      BY <3>2 DEF Behind, AfterCompleted
    <3> QED
      BY <3>1, <3>2, <3>3, <3>4 DEF PlainInv
  <2>5. ASSUME NEW s \in Steps, Stop(s) PROVE PlainInv'
    <3>1. run \in Runs /\ run # Idle /\ plainly
      BY <2>5 DEF Stop, TypeOK, Idle
    <3>2. /\ run'.plan = run.plan /\ run'.mem = MarkFailed(run.mem, s)
          /\ run'.llm = run.llm /\ done' = done /\ Loaded' = Loaded
      BY <2>5, <3>1 DEF Stop, Loaded, Runs
    <3>3. run'.mem.completed = run.mem.completed
      BY <3>1, <3>2 DEF MarkFailed, Runs, RunStates
    <3>4. Behind(run.mem)' = Behind(run.mem) /\ Behind(Loaded)' = Behind(Loaded)
      BY <3>2, <3>3 DEF Behind, AfterCompleted
    <3> QED
      BY <3>1, <3>2, <3>4 DEF PlainInv
  <2>6. CASE Save
    <3>1. run \in Runs /\ run # Idle /\ plainly
      BY <2>6 DEF Save, TypeOK, Idle
    <3>2. Loaded' = run.mem /\ done' = done
      BY <2>6, <3>1, LoadedRecord DEF Save, Loaded, Runs
    <3>3. run' = Idle \/ (run'.mem = run.mem /\ run'.plan = run.plan /\ run'.llm = run.llm)
      BY <2>6, <3>1 DEF Save, Runs
    <3>4. Behind(Loaded)' = Behind(run.mem)
      BY <3>2 DEF Behind, AfterCompleted
    <3>5. run' = Idle \/ Behind(run.mem)' = Behind(run.mem)
      BY <3>3 DEF Behind, AfterCompleted
    <3> QED
      BY <3>1, <3>2, <3>3, <3>4, <3>5 DEF PlainInv
  <2>7. CASE Finish
    BY <2>7 DEF Finish, PlainInv, Behind, AfterCompleted, Loaded
  <2>8. CASE Abort
    <3>1. run \in Runs /\ run # Idle /\ plainly /\ run' = Idle /\ done' = done
      BY <2>8 DEF Abort, TypeOK
    <3>2. Loaded' \in {Loaded, Fresh, run.mem}
      BY <2>8, <3>1 DEF Abort, Loaded
    <3>3. Behind(Loaded)' \in {Behind(Loaded), {}, Behind(run.mem)}
      BY <3>2 DEF Behind, AfterCompleted, Fresh
    <3> QED
      BY <3>1, <3>3 DEF PlainInv
  <2> QED
    BY <2>1, <2>2, <2>3, <2>4, <2>5, <2>6, <2>7, <2>8 DEF Next, Progress
<1>3. PlainInv => ResumeCovers
  BY DEF PlainInv, ResumeCovers, Behind
<1> QED
  BY <1>1, <1>2, <1>3, TypeCorrect, PTL DEF Spec

-----------------------------------------------------------------------------
(* A run gets shorter                                                       *)

\* How many file and step operations a run has before it, at most.
Effort ==
  IF run = Idle THEN 0
  ELSE IF run.at = "step" THEN 3 * Cardinality(run.plan) + 2
  ELSE IF run.next = "continue" THEN 3 * Cardinality(run.plan) + 3
  ELSE 1

\* A pipeline has finitely many steps.
LEMMA StepsFinite == IsFiniteSet(Steps)
<1>1. DOMAIN StepOrder = 1 .. Len(StepOrder) /\ Len(StepOrder) \in Nat
  BY StepOrderAssumption
<1>2. IsFiniteSet(1 .. Len(StepOrder))
  BY <1>1, FS_Interval
<1> DEFINE f == [s \in Steps |-> Pos(s)]
<1>3. f \in Injection(Steps, 1 .. Len(StepOrder))
  BY <1>1, PosOf, PosInjective DEF Injection, IsInjective
<1> QED
  BY <1>2, <1>3, FS_Injection DEF ExistsInjection

\* The plan of a run is finite.
LEMMA PlanFinite ==
  ASSUME TypeOK, run # Idle
  PROVE  /\ IsFiniteSet(run.plan) /\ Cardinality(run.plan) \in Nat
         /\ \A s \in run.plan : /\ Cardinality(run.plan \ {s}) = Cardinality(run.plan) - 1
                               /\ Cardinality(run.plan) - 1 \in Nat
<1>1. run.plan \in SUBSET Steps
  BY DEF TypeOK, Runs
<1>2. IsFiniteSet(run.plan)
  BY <1>1, StepsFinite, FS_Subset
<1>3. Cardinality(run.plan) \in Nat
  BY <1>2, FS_CardinalityType
<1>4. ASSUME NEW s \in run.plan
      PROVE  /\ Cardinality(run.plan \ {s}) = Cardinality(run.plan) - 1
             /\ Cardinality(run.plan \ {s}) \in Nat
  BY <1>2, FS_RemoveElement, FS_CardinalityType
<1> QED
  BY <1>2, <1>3, <1>4

\* The run ends, or has less to do.
Shrinks == run' = Idle \/ (Effort \in Nat /\ Effort' \in Nat /\ Effort' < Effort)

\* Every step of a run ends it or leaves less to do, so that a run of a pipeline of n steps has
\* ended after at most 3n + 2 of its steps, whichever of them fail.
THEOREM RunShrinks == Spec => [][run # Idle => Shrinks]_vars
<1>1. TypeOK /\ TypeOK' /\ [Next]_vars => [run # Idle => Shrinks]_vars
  <2> SUFFICES ASSUME TypeOK, TypeOK', Next, run # Idle, run' # Idle
               PROVE  Effort \in Nat /\ Effort' \in Nat /\ Effort' < Effort
    BY DEF Shrinks
  <2>1. run \in Runs
    BY DEF TypeOK
  <2> DEFINE n == Cardinality(run.plan)
  <2>2. n \in Nat
    BY PlanFinite
  <2>3. ASSUME NEW s \in run.plan, run.at = "step", run'.at = "step", run'.plan = run.plan \ {s}
        PROVE  Effort \in Nat /\ Effort' \in Nat /\ Effort' < Effort
    <3>1. Cardinality(run.plan \ {s}) = n - 1 /\ n - 1 \in Nat
      BY PlanFinite
    <3>2. Effort = 3 * n + 2 /\ Effort' = 3 * (n - 1) + 2
      BY <2>3, <3>1 DEF Effort
    <3> HIDE DEF n
    <3> QED
      BY <2>2, <3>1, <3>2
  <2>4. ASSUME NEW s \in run.plan, run.at = "step", run'.at = "save", run'.plan = run.plan \ {s}
        PROVE  Effort \in Nat /\ Effort' \in Nat /\ Effort' < Effort
    <3>1. Cardinality(run.plan \ {s}) = n - 1 /\ n - 1 \in Nat
      BY PlanFinite
    <3>2. Effort = 3 * n + 2 /\ Effort' \in {3 * (n - 1) + 3, 1}
      BY <2>4, <3>1 DEF Effort
    <3> HIDE DEF n
    <3> QED
      BY <2>2, <3>1, <3>2
  <2>5. ASSUME NEW s \in Steps, Skip(s) PROVE Effort \in Nat /\ Effort' \in Nat /\ Effort' < Effort
    <3>1. s \in run.plan /\ run.at = "step" /\ run'.at = "step" /\ run'.plan = run.plan \ {s}
      BY <2>1, <2>5 DEF Skip, IsCurrent, Runs
    <3> QED
      BY <2>3, <3>1
  <2>6. ASSUME NEW s \in Steps, Complete(s)
        PROVE  Effort \in Nat /\ Effort' \in Nat /\ Effort' < Effort
    <3>1. s \in run.plan /\ run.at = "step" /\ run'.at = "save" /\ run'.plan = run.plan \ {s}
      BY <2>1, <2>6 DEF Complete, IsCurrent, Runs
    <3> QED
      BY <2>4, <3>1
  <2>7. ASSUME NEW s \in Steps, Stop(s) PROVE Effort \in Nat /\ Effort' \in Nat /\ Effort' < Effort
    <3>1. PICK why \in StopsOf(s) :
            run' = [run EXCEPT !.mem = MarkFailed(@, s), !.at = "save", !.last = s, !.next = why]
      BY <2>7 DEF Stop
    <3>2. why # "continue" /\ run.at = "step"
      BY <2>7 DEF StopsOf, Stop
    <3>3. run'.at = "save" /\ run'.next # "continue"
      BY <2>1, <3>1, <3>2 DEF Runs
    <3>4. Effort = 3 * n + 2 /\ Effort' = 1
      BY <3>2, <3>3 DEF Effort
    <3> HIDE DEF n
    <3> QED
      BY <2>2, <3>4
  <2>8. ASSUME Save PROVE Effort \in Nat /\ Effort' \in Nat /\ Effort' < Effort
    <3>1. run.at = "save" /\ run.next = "continue" /\ run' = [run EXCEPT !.at = "step"]
      BY <2>8 DEF Save
    <3>2. run'.at = "step" /\ run'.plan = run.plan
      BY <2>1, <3>1 DEF Runs
    <3>3. Effort = 3 * n + 3 /\ Effort' = 3 * n + 2
      BY <3>1, <3>2 DEF Effort
    <3> HIDE DEF n
    <3> QED
      BY <2>2, <3>3
  <2>9. ASSUME Refuse \/ Begin \/ Finish \/ Abort PROVE FALSE
    BY <2>9 DEF Refuse, Begin, Finish, Abort
  <2> QED
    BY <2>5, <2>6, <2>7, <2>8, <2>9 DEF Next, Progress
<1> QED
  BY <1>1, TypeCorrect, PTL DEF Spec
=============================================================================
