SPECIFICATION FairSpec
CONSTANTS
  b1 = b1
  j1 = j1
  w1 = w1
  w2 = w2
  a1 = a1
  a2 = a2
  Jobs = {}
  Books = {b1}
  BookOf <- MCBookOf
  Workers = {w1, w2}
  Admins = {a1, a2}
  InitialStock <- MCInitialStock
  MinLevel = 2
  MaxAnswer = 2
  MaxRetries = 0
  MaxDispatches = 1
  MaxBatches = 2
  MaxArrivals = 1
  MaxFaults = 0
  None = None
CHECK_DEADLOCK FALSE
INVARIANTS
  OnePendingSafety
  StockAccounted
PROPERTIES
  ReviewsEnd
  NoOverOrder
  SafetyStillShort
