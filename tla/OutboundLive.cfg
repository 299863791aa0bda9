SPECIFICATION FairSpec
CONSTANTS
  b1 = b1
  b2 = b2
  o1 = o1
  o2 = o2
  o3 = o3
  s1 = s1
  s2 = s2
  d1 = d1
  d2 = d2
  k1 = k1
  Books = {b1, b2}
  Rows = {1, 2, 3}
  Lpns = {1}
  Orders = {o2, o3}
  Deliveries = {d1, d2}
  Racks = {k1}
  Sessions = {s1, s2}
  RowBook <- MCRowBook
  RackOf <- MCRackOf
  InitialStock <- MCInitialStock
  InitialVirtual <- MCInitialVirtual
  Unpriced = {2}
  LpnBook <- MCLpnBook
  LpnGrade <- MCLpnGrade
  OrderLines <- MCOrderLines
  DeliveryBook <- MCDeliveryBook
  DeliveryQty <- MCDeliveryQty
  AutoPo = {d2}
  NewStock = NewStock
  None = None
PROPERTY TransactionsEnd
CHECK_DEADLOCK FALSE
