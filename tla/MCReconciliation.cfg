SPECIFICATION Spec
CONSTANTS
  c1 = c1
  c2 = c2
  i1 = i1
  NoDoc = NoDoc
  None = None
  Imports = {i1}
  Columns = {c1, c2}
  Targets = {c2}
  Claim <- SomeClaims
  Near <- SomeNear
  Texts = {"text"}
  Types = {"int"}
  DocTypes = {"int", "date"}
INVARIANTS TypeOK DecisionTakesEffect ResolutionNeverRefused
PROPERTIES ReconciledStays
