SPECIFICATION Spec
CONSTANTS
  e1 = e1  e2 = e2  z1 = z1  j1 = j1  j2 = j2  a1 = a1  a2 = a2
  Tagged = Tagged  Sign = Sign  Letterhead = Letterhead  None = None
  EnNames = {e1, e2}
  ZhNames = {z1}
  Glosses = {z1}
  Answers <- GoogleAnswers
  Jobs = {j1, j2}
  Agents = {a1, a2}
  MaxRequests = 4
INVARIANTS
  LayerTwoFollowsRaw
  NameHasItsSource
PROPERTY
  OcrNameSurvives
SYMMETRY Symmetry
CHECK_DEADLOCK FALSE
