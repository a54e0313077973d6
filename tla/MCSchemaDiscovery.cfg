SPECIFICATION Spec
CONSTANTS
  A = A
  B = B
  C = C
  D = D
  X = X
  id = id
  a = a
  b = b
  c = c
  m = m
  n = n
  NoFile = NoFile
  Unnamed = Unnamed
  Tables = {A, B, C, D, X}
  Scope = {A, B, C, D}
  Names = {id, a, b, c, m, n}
  Audit = {m, n}
  Order <- OrderDef
  Naming <- NamingDef
  Schemas <- SchemasDef
  FkBudget = 2
  PkBudget = 2
  FailedMax = 5
  MinRatio = 60
  MinDistinct = 2
  DenseMax = 5
  MaxDeaths = 1
INVARIANTS RefsResolve PatternsKeepTheirFiles CatalogGrounded LinksBorneOut
PROPERTIES RerunIsIdempotent
CHECK_DEADLOCK FALSE
