SPECIFICATION Spec
CONSTANTS
  t1 = t1  t2 = t2
  p1 = p1  p2 = p2  p3 = p3  p4 = p4
  cash = cash  miles = miles  food = food
  a1 = a1  a2 = a2
  None = None
  Txns = {t1}
  Postings = {p1, p2, p3}
  Accounts = {cash, miles, food}
  TypeOf <- ChartOfAccounts
  PointsAccounts = {miles}
  Seeded = {cash, food}
  Actors = {a1, a2}
  Amounts <- SmallAmounts
  Months = {1, 2}
  MaxRequests = 3
INVARIANTS
  PostedBalances
  ReportsAgree
  TrailTellsState
PROPERTY
  OnlyStaleDeletes
SYMMETRY Symmetry
CHECK_DEADLOCK FALSE
