SPECIFICATION Spec
CONSTANTS
  c1 = c1
  c2 = c2
  t1 = t1
  t2 = t2
  x1 = x1
  x2 = x2
  g1 = g1
  g2 = g2
  NoDoc = NoDoc
  None = None
  Insufficient = x1
  Columns = {c1}
  Tabs = {t1}
  Texts = {x1, x2}
  Groundings = {g1, g2}
  MaxWrites = 3
SYMMETRY Symmetry
PROPERTIES RedraftOnlyForCause
