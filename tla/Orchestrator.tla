---------------------------- MODULE Orchestrator ----------------------------
(***************************************************************************)
(* `dla run` (apps/dla/src/dla/orchestrator, cli/run.py): one command at a *)
(* time plans a set of pipeline steps, runs them in order and records what *)
(* it has done in bundle/.run_state.json, so that a later `--resume` or    *)
(* `--from-step` can go on.  Between and during steps the run can fail, be *)
(* interrupted (SIGINT) or be killed; the record is rewritten in place, so *)
(* a death while saving can leave it unreadable.                           *)
(***************************************************************************)
EXTENDS Naturals, Sequences

CONSTANTS
  StepOrder,    \* STEP_ORDER: the pipeline's steps, in order
  LlmSteps,     \* the steps that return False when there is no gateway
  FromOptions,  \* the values of --from-step an operator uses (None: absent)
  SkipOptions,  \* the sets of --skip-step an operator uses
  LlmOptions,   \* whether the operator passes --llm
  None          \* no step

Steps == {StepOrder[i] : i \in DOMAIN StepOrder}

ASSUME StepOrderAssumption ==
  /\ StepOrder \in Seq(Steps)
  /\ \A i, j \in DOMAIN StepOrder : StepOrder[i] = StepOrder[j] => i = j
  /\ {"readiness", "validate"} \subseteq Steps
ASSUME StepSetsAssumption == LlmSteps \subseteq Steps
ASSUME OptionsAssumption == /\ FromOptions \subseteq Steps \cup {None}
                            /\ SkipOptions \subseteq SUBSET Steps
                            /\ LlmOptions \subseteq BOOLEAN
                            /\ None \notin Steps

VARIABLES
  file,    \* .run_state.json: Absent, Torn or a RunState
  run,     \* the run in progress, or Idle
  exit,    \* how the last command ended
  done,    \* history: the steps whose body has completed at least once
  clean,   \* history: the steps whose latest recorded outcome is completion
  plainly  \* history: every run so far had --llm, and no step picked or skipped

vars == <<file, run, exit, done, clean, plainly>>

-----------------------------------------------------------------------------
(* Values *)

RunStates == [completed : SUBSET Steps, last_failed : Steps \cup {None}]
Fresh == [completed |-> {}, last_failed |-> None]
Absent == [file |-> "absent"]
Torn == [file |-> "torn"]
Idle == [at |-> "idle"]

\* Why a command ended.
Stops == {"failed", "interrupted", "halted", "invalid"}
Aborts == {"killed", "sigint-outside-step", "save-error"}
Whys == Stops \cup Aborts \cup {"success", "nothing-to-run", "usage", "not-yet"}

Runs == [at : {"step", "save"}, plan : SUBSET Steps, todo : SUBSET Steps, mem : RunStates,
         llm : BOOLEAN, halting : BOOLEAN, last : Steps \cup {None}, next : Stops \cup {"continue"}]

Pos(s) == CHOOSE i \in DOMAIN StepOrder : StepOrder[i] = s

\* load_state: no record, or one that does not parse, reads as an empty one.
Loaded == IF file \in {Absent, Torn} THEN Fresh ELSE file

(* Bugs the operators that follow could have, each caught by a property below *)
FailureUnnamed(st, s) == [st EXCEPT !.last_failed = ""]
FailureCompletes(st, s) == [completed |-> st.completed \cup {s}, last_failed |-> s]
FailureForgotten(st, s) == st
AfterNextToo(st) == {s \in Steps : \A c \in st.completed : Pos(c) + 1 < Pos(s)}

\* RunState.mark_completed, RunState.mark_failed.
MarkCompleted(st, s) ==
  [completed |-> st.completed \cup {s},
   last_failed |-> IF st.last_failed = s THEN None ELSE st.last_failed]
MarkFailed(st, s) == [st EXCEPT !.last_failed = s]

\* The steps after every completed one.
AfterCompleted(st) == {s \in Steps : \A c \in st.completed : Pos(c) < Pos(s)}

\* plan_steps: --from-step takes precedence over --resume.
PlanSteps(from, skip, resume, st) ==
  (IF from # None THEN {s \in Steps : Pos(s) >= Pos(from)}
   ELSE IF resume THEN AfterCompleted(st)
   ELSE Steps) \ skip

\* The step the loop is at.
IsCurrent(s) == s \in run.plan /\ \A t \in run.plan : Pos(s) <= Pos(t)

\* An LLM step returns False without a gateway.
Skipped(s) == s \in LlmSteps /\ ~run.llm

\* How a step can stop the run: by an exception (run_pipeline wraps every one,
\* a connection error included, in PipelineError), by SIGINT, by the critical
\* findings of readiness, by the errors validate reports.
StopsOf(s) ==
  {"failed", "interrupted"}
    \cup (IF s = "readiness" /\ run.halting THEN {"halted"} ELSE {})
    \cup (IF s = "validate" THEN {"invalid"} ELSE {})

\* What the command reports: the step it stopped at, the steps it has run.
Ended(why) == [why |-> why, step |-> IF why \in Stops THEN run.last ELSE None,
               todo |-> IF why = "success" THEN run.todo ELSE {}]
Plain(why) == [why |-> why, step |-> None, todo |-> {}]

-----------------------------------------------------------------------------
Init ==
  /\ file = Absent
  /\ run = Idle
  /\ exit = Plain("not-yet")
  /\ done = {}
  /\ clean = {}
  /\ plainly = TRUE

\* A missing config, an unknown step name or a missing credential.
Refuse ==
  /\ run = Idle
  /\ exit' = Plain("usage")
  /\ UNCHANGED <<file, run, done, clean, plainly>>

Begin ==
  /\ run = Idle
  /\ \E from \in FromOptions, skip \in SkipOptions, llm \in LlmOptions,
        resume \in BOOLEAN, halting \in BOOLEAN :
       LET plan == PlanSteps(from, skip, resume, Loaded)
           todo == IF llm THEN plan ELSE plan \ LlmSteps
       IN  /\ IF plan = {}
              THEN /\ exit' = Plain("nothing-to-run")
                   /\ UNCHANGED run
              ELSE /\ exit' = Plain("not-yet")
                   /\ run' = [at |-> "step", plan |-> plan, todo |-> todo, mem |-> Loaded,
                              llm |-> llm, halting |-> halting, last |-> None,
                              next |-> "continue"]
           /\ plainly' = (plainly /\ from = None /\ skip = {} /\ llm)
  /\ UNCHANGED <<file, done, clean>>

\* The loop body returned False: nothing is recorded for the step.
Skip(s) ==
  /\ run.at = "step" /\ IsCurrent(s) /\ Skipped(s)
  /\ run' = [run EXCEPT !.plan = @ \ {s}]
  /\ UNCHANGED <<file, exit, done, clean, plainly>>

Complete(s) ==
  /\ run.at = "step" /\ IsCurrent(s) /\ ~Skipped(s)
  /\ run' = [run EXCEPT !.plan = @ \ {s}, !.mem = MarkCompleted(@, s), !.at = "save", !.last = s]
  /\ done' = done \cup {s}
  /\ UNCHANGED <<file, exit, clean, plainly>>

Stop(s) ==
  /\ run.at = "step" /\ IsCurrent(s) /\ ~Skipped(s)
  /\ \E why \in StopsOf(s) :
       run' = [run EXCEPT !.mem = MarkFailed(@, s), !.at = "save", !.last = s, !.next = why]
  /\ clean' = clean \ {s}
  /\ UNCHANGED <<file, exit, done, plainly>>

\* save_state, and on to the next step or out of the loop.
Save ==
  /\ run.at = "save"
  /\ file' = run.mem
  /\ IF run.next = "continue"
     THEN /\ run' = [run EXCEPT !.at = "step"]
          /\ clean' = clean \cup {run.last}
          /\ UNCHANGED exit
     ELSE run' = Idle /\ exit' = Ended(run.next) /\ UNCHANGED clean
  /\ UNCHANGED <<done, plainly>>

Finish ==
  /\ run.at = "step" /\ run.plan = {}
  /\ run' = Idle
  /\ exit' = Ended("success")
  /\ UNCHANGED <<file, done, clean, plainly>>

\* The run ends without its last outcome being (surely) saved: it is killed, a
\* SIGINT lands outside the body of a step, or save_state itself raises.
\* write_text truncates the file before it writes it.
Abort ==
  /\ run # Idle
  /\ \E why \in IF run.at = "save" THEN Aborts ELSE Aborts \ {"save-error"} :
       exit' = Ended(why)
  /\ file' \in {file} \cup (IF run.at = "save" THEN {Torn, run.mem} ELSE {})
  /\ run' = Idle
  /\ UNCHANGED <<done, clean, plainly>>

Progress == (\E s \in Steps : Skip(s) \/ Complete(s) \/ Stop(s)) \/ Save \/ Finish

Next == Refuse \/ Begin \/ Progress \/ Abort

Spec == Init /\ [][Next]_vars

-----------------------------------------------------------------------------
(* Properties *)

\* Every variable has its type, and what is being saved is a step's outcome.
TypeOK ==
  /\ file \in RunStates \cup {Absent, Torn}
  /\ run \in Runs \cup {Idle}
  /\ run.at = "save" => run.last \in Steps
  /\ exit \in [why : Whys, step : Steps \cup {None}, todo : SUBSET Steps]
  /\ done \subseteq Steps
  /\ clean \subseteq Steps
  /\ plainly \in BOOLEAN

\* No record, in memory or on disk, claims a step whose body has never
\* completed: not one skipped for lack of a gateway, not one that failed.
CompletedSound ==
  /\ Loaded.completed \subseteq done
  /\ run # Idle => run.mem.completed \subseteq done

\* What the command reports and what the record says agree: success means every
\* step of the plan that had to run is recorded as completed and none of them as
\* failed; a stop names the recorded failure.
ExitMatchesRecord ==
  run = Idle =>
    /\ exit.why = "success" => /\ exit.todo \subseteq Loaded.completed
                               /\ Loaded.last_failed \notin exit.todo
    /\ exit.why \in Stops => Loaded.last_failed = exit.step

\* The record never names as failed a step that has completed, and been recorded
\* as completed, since it failed.
LastFailedHonest == run = Idle => Loaded.last_failed \notin clean

\* The record on disk, the report of the last command and what has happened agree.
RecordHonest == ExitMatchesRecord /\ LastFailedHonest

\* As long as the operator always passes --llm and never picks or skips steps by
\* hand: whatever failed or died, --resume never passes over a step that has not
\* completed.
ResumeCovers == plainly /\ run = Idle => Steps \ AfterCompleted(Loaded) \subseteq done
=============================================================================
