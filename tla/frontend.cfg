SPECIFICATION Spec
CONSTANTS
  k1 = k1  k2 = k2  x1 = x1  x2 = x2  r1 = r1  r2 = r2  r3 = r3
  j1 = j1  j2 = j2  c1 = c1  c2 = c2
  None = None  NoJob = NoJob
  Keys = {k1}
  Bodies = {x1, x2}
  Requests = {r1, r2}
  MaxPosts = 4
  Jobs = {j1, j2}
  Streams = {c1}
  MaxOpens = 2
  Ids = {1, 2, 3}
  Instants = {0, 1}
  Limit = 1
  MaxWrites = 2
  MaxCrashes = 1
INVARIANTS
  RepliesMatch
  RepeatsHaveCause
  EventsReachTheStream
  PagesPartition
SYMMETRY Symmetry
CHECK_DEADLOCK FALSE
