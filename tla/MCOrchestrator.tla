--------------------------- MODULE MCOrchestrator ---------------------------
(* A bounded instance of Orchestrator for TLC. *)
EXTENDS Orchestrator

\* Of STEP_ORDER in runner.py, one step of each kind.
SomeSteps == <<"discover", "readiness", "describe", "recommend", "validate">>
SomeLlmSteps == {"describe"}

SomeFrom == {None, "describe"}
SomeSkip == {{}, {"readiness"}}
=============================================================================
