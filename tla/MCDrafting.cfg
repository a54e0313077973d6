SPECIFICATION DraftingSpec
CONSTANTS
  T = T
  c = c
  e = e
  v = v
  w = w
  NoDoc = NoDoc
  Tables = {T}
  Columns = {c, e}
  TableOf <- TableOfDef
  Rank <- RankDef
  Terms = {v, w}
  Words <- WordsDef
  Stops = {}
  MinRecurrence = 2
  Cap = 1
  Facts = {0, 1}
  Score <- ScoreDef
  Definitions = {def}
  Insufficient = Insufficient
  MaxChanges = 3
  MaxRuns = 2
INVARIANTS DraftingTypeOK
PROPERTIES DescribeCatchesUp BuildCatchesUp
CHECK_DEADLOCK FALSE
