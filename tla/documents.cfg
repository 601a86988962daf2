SPECIFICATION Spec
CONSTANTS
  s1 = s1  d1 = d1  d2 = d2  d3 = d3  t1 = t1  t2 = t2  a1 = a1  a2 = a2
  None = None
  Shas = {s1}
  DocIds = {d1, d2, d3}
  Txns = {t1, t2}
  Actors = {a1, a2}
  MaxRequests = 5
INVARIANTS
  BytesAccounted
PROPERTY
  OnlyStaleCascades
SYMMETRY Symmetry
CHECK_DEADLOCK FALSE
