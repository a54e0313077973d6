SPECIFICATION Spec
CONSTANTS
  StepOrder <- SomeSteps
  LlmSteps <- SomeLlmSteps
  FromOptions <- SomeFrom
  SkipOptions <- SomeSkip
  LlmOptions = {TRUE, FALSE}
  None = None
INVARIANTS TypeOK CompletedSound RecordHonest ResumeCovers
