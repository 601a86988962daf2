SPECIFICATION Spec
CONSTANTS
  b1 = b1  b2 = b2
  f1 = f1  f2 = f2  f3 = f3
  d1 = d1  d2 = d2  d3 = d3
  e1 = e1  e2 = e2
  Batches = {b1, b2}
  Ingests = {f1, f2, f3}
  Docs = {d1, d2}
  Events = {e1, e2}
  BatchOf <- TwoRequests
  DocOf <- SameBytesAgain
  EventOf <- OnePurchase
  Receipts = {d1, d2}
  Emails = {d1, d2}
  MaxConcurrency = 2
  Misbehaviours = {"invents"}
  LateAgents = FALSE
  LedgerEdits = FALSE
  MaxCrashes = 1
  MaxFaults = 1
INVARIANTS
  AnnouncedOnce
  DedupHasWitness
  PoolSaturated
PROPERTIES
  NeverReopened
  BatchLifecycleHolds
CHECK_DEADLOCK FALSE
