SPECIFICATION Spec
CONSTANTS
  b1 = b1  b2 = b2  hand = hand
  a1 = a1  a2 = a2
  Batches = {b1, b2}
  Outside = hand
  Txns = {1, 2, 3}
  BatchOf <- OneByHand
  Clock <- Ticks
  Facts <- LikeAndAlike
  Actors = {a1}
  Threshold = 95
  MayUpset = {"remove", "restore", "reconcile", "unreconcile", "reset", "crash", "fault",
              "relapse"}
  MaxUpsets = 2
  MaxRequests = 1
  MaxNamed = 2
INVARIANT
  EvidenceSurvives
PROPERTY
  ReconcileSettles
CHECK_DEADLOCK FALSE
