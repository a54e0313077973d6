SPECIFICATION Spec
CONSTANTS
  T = T
  U = U
  f = f
  v = v
  k = k
  Null = Null
  NoFile = NoFile
  Others = {"float"}
  Tables = {T, U}
  Columns <- ColumnsDef
  Keys <- KeysDef
  Type <- TypeDef
  Order <- OrderDef
  Sources <- SourcesDef
  Budget = 2
  HardCap = 9
  MaxDistinct = 1
  NullHigh = 50
  NullCritical = 90
  ConstantInfo = TRUE
  MaxDeaths = 1
  MaxCommands = 3
  MaxChanges = 2
INVARIANTS TypeOK ProblemsAreQueued SummaryBacked TableProfiledAsOne OrphansAreReal
PROPERTIES RerunIsIdempotent
CHECK_DEADLOCK FALSE
