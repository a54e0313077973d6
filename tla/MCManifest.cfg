SPECIFICATION Spec
CONSTANTS
  T = T
  U = U
  n = n
  p = p
  q = q
  NoFile = NoFile
  Tables = {T, U}
  Columns <- ColumnsDef
  KpiForms <- KpiFormsDef
  HierarchyForms <- HierarchyFormsDef
  Described = {T}
  Kpis = {k}
  Hierarchies = {h}
  Rules = {r}
  Procs = {p, q}
  MaxCommands = 3
  MaxMishaps = 1
INVARIANTS TypeOK CountsHonest NoPhantoms RulesWhole
CHECK_DEADLOCK FALSE
SYMMETRY Symmetry
