SPECIFICATION FairSpec
CONSTANTS
  b1 = b1  b2 = b2
  f1 = f1  f2 = f2  f3 = f3
  d1 = d1  d2 = d2  d3 = d3
  e1 = e1  e2 = e2
  Batches = {b1, b2}
  Ingests = {f1, f2, f3}
  Docs = {d1, d2}
  Events = {e1, e2}
  BatchOf <- TwoRequests
  DocOf <- SameBytesTwice
  EventOf <- OnePurchase
  Receipts = {d1, d2}
  Emails = {}
  MaxConcurrency = 1
  Misbehaviours = {"omits", "quits"}
  LateAgents = TRUE
  LedgerEdits = TRUE
  MaxCrashes = 1
  MaxFaults = 0
INVARIANTS
  ExtractedIsComplete
  NoJobLost
PROPERTIES
  BatchSettles
  IngestSettles
CHECK_DEADLOCK FALSE
