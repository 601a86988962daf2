SPECIFICATION Spec
CONSTANTS
  t1 = t1  t2 = t2  p1 = p1  p2 = p2  a1 = a1  a2 = a2
  None = None
  Txns = {t1, t2}
  Products = {p1, p2}
  Lines = {2}
  Actors = {a1, a2}
  MaxRequests = 3
INVARIANT
  DriftIsExplained
PROPERTIES
  RewriteKeepsLines
  EditLostByPatchOnly
SYMMETRY Symmetry
CHECK_DEADLOCK FALSE
