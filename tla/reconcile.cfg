SPECIFICATION Spec
CONSTANTS
  b1 = b1  b2 = b2  hand = hand
  a1 = a1  a2 = a2
  Batches = {b1, b2}
  Outside = hand
  Txns = {1, 2, 3}
  BatchOf <- TwoBatches
  Clock <- Ticks
  Facts <- LikeAndAlike
  Actors = {a1, a2}
  Threshold = 95
  MayUpset = {"reconcile", "reset", "crash", "fault"}
  MaxUpsets = 1
  MaxRequests = 1
  MaxNamed = 1
INVARIANTS
  MintedOnce
  PurchaseSurvives
  AutoNeedsIdentity
  AppliedIsGone
PROPERTY
  OverruledByOvertakenOnly
CHECK_DEADLOCK FALSE
