SPECIFICATION Spec
CONSTANTS
  b1 = b1  p1 = p1  s1 = s1  s2 = s2  a1 = a1  a2 = a2  g1 = g1  g2 = g2
  None = None  Stray = Stray
  Brands = {b1}
  Products = {p1}
  Shas = {s1, s2}
  Actors = {a1, a2}
  Agents = {g1, g2}
  MaxRequests = 4
INVARIANTS
  RowsHaveBytes
  RetiredPointerHasCause
PROPERTY
  ChoiceStands
SYMMETRY Symmetry
CHECK_DEADLOCK FALSE
