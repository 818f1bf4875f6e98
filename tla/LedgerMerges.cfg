SPECIFICATION Spec
CONSTANTS
  o1 = o1  o2 = o2  o3 = o3  
  l1 = l1  l2 = l2
  NoOrder = NoOrder
  Orders = {o1, o2, o3}
  Lines = {l2}
  Transfers = {t1}
  Refunds = {r1, r2}
  LineAmount <- MCLineAmount
  Prices = {1}
  PfiOf <- MCPfiOf
  DesklessPfis = {}
  TransferPfi = "pfi"
  MaxSurplus = 2
INVARIANTS
  MoneySound
  LegsTogether
PROPERTIES
  GivesOnlySurplus
  ReleaseNeedsCover
  MergeKeepsTotals
CONSTRAINT MergesOnly
SYMMETRY OrderSymmetry
CHECK_DEADLOCK FALSE
