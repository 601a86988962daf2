SPECIFICATION MoneySpec
CONSTANTS
  t1 = t1  w1 = w1  w2 = w2
  USD = USD  CNY = CNY  PT = PT
  Null = Null
  Purchases = {t1}
  BaseCurrency = USD
  Foreign = {CNY}
  Points = {PT}
  Receipts <- ByAgent
  Entries <- ByHand
  Spare = {9}
  HandRates = {3, 4}
  On <- Dates
  Published <- Rates
  Worths = {3, 4}
  Workers = {w1, w2}
  Scale = 6
  Attempts = 2
  FallbackDays = 1
  MaxDay = 5
  MaxPasses = 2
  MaxEdits = 1
INVARIANTS
  FrozenRatesAreFinal
  WorthItsRate
SYMMETRY Symmetry
CHECK_DEADLOCK FALSE
