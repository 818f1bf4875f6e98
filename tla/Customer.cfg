SPECIFICATION SpecCustomer
CONSTANTS
  NoOne = NoOne
  Customers = {c1, c2}
  Deposits = {l1}
  Orders = {o1}
  Requests = {r1}
  Transfers = {t1}
  Screens = {m1, m2}
  Amounts = {1, 2}
  NoItem = NoItem
  Depots = {d1}
  Products = {q1, q2}
  Capacity = 2
  MaxTrucks = 2
  Quantities = {2, 3}
  Numbers = {1, 2, 3}
  Older <- OlderTaps
  MaxFailures = 2
  MaxExpected = 1
  MaxOrders = 1
INVARIANTS FreeLineIsReversed ChatHolds TapsAreHeard
PROPERTIES BooksBalanceButForStaleMerge CancelsPaidOnlyUntold
CONSTRAINT Bound
SYMMETRY Symmetry
CHECK_DEADLOCK FALSE
