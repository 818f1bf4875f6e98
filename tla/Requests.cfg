SPECIFICATION Spec
CONSTANTS
  NoOne = NoOne
  Customers = {c1, c2}
  Deposits = {l1}
  Orders = {}
  Requests = {r1, r2, r3}
  Lpg = {r1, r2}
  Need <- NeedOne
  Price <- PriceOne
  Transfers = {}
  Screens = {m1}
  Amounts = {1}
  Slots = {k1, k2, k3}
  Shelves = {1}
  Desks = {d1, d2}
PROPERTIES
  WalletSpec
  KeepsMoneyOnlyByRace
  CylindersDriftOnlyByOverlap
CONSTRAINT Bound
SYMMETRY Symmetry
CHECK_DEADLOCK FALSE
