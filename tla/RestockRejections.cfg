SPECIFICATION FairSpec
CONSTANTS
  b1 = b1
  j1 = j1
  w1 = w1
  w2 = w2
  a1 = a1
  a2 = a2
  Jobs = {j1}
  Books = {b1}
  BookOf <- MCBookOf
  Workers = {w1, w2}
  Admins = {a1}
  InitialStock <- MCInitialStock
  MinLevel = 2
  MaxAnswer = 1
  MaxRetries = 1
  MaxDispatches = 2
  MaxBatches = 0
  MaxArrivals = 0
  MaxFaults = 1
  None = None
CHECK_DEADLOCK FALSE
INVARIANTS
  OneProposalPerRejection
  AnsweredOnce
PROPERTY RejectionsSettle
