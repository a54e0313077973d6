SPECIFICATION FairSpec
CONSTANTS
  p1 = p1
  p2 = p2
  a1 = a1
  a2 = a2
  t1 = t1
  t2 = t2
  s1 = s1
  s2 = s2
  NoDoc = NoDoc
  Procs = {p1, p2}
  Artifacts = {a1}
  Texts = {t1, t2}
  Stamps = {s1, s2}
  Calls <- DraftCalls
  MaxMishaps = 1
INVARIANTS TypeOK TempFilesOwned PairWhole AcknowledgedSmeWorkDurable
PROPERTIES ImplementsRegister PairHeals
