SPECIFICATION Spec
CONSTANTS
  b1 = b1  b2 = b2
  f1 = f1  f2 = f2  f3 = f3
  d1 = d1  d2 = d2  d3 = d3
  e1 = e1  e2 = e2
  Batches = {b1, b2}
  Ingests = {f1, f2, f3}
  Docs = {d1, d2}
  Events = {e1, e2}
  BatchOf <- TwoRequests
  DocOf <- SameBytesAgain
  EventOf <- OnePurchase
  Receipts = {d1, d2}
  Emails = {d1}
  MaxConcurrency = 1
  Misbehaviours = {"omits", "quits", "skips", "unlinked"}
  LateAgents = FALSE
  LedgerEdits = FALSE
  MaxCrashes = 0
  MaxFaults = 0
INVARIANTS
  NoDoubleCount
  DoneIsBacked
  NearDupIsLinked
CHECK_DEADLOCK FALSE
