SPECIFICATION Spec
CONSTANTS
  o1 = o1  o2 = o2  o3 = o3
  l1 = l1  l2 = l2
  NoOrder = NoOrder
  Orders = {o1}
  Lines = {l1, l2}
  Transfers = {}
  Refunds = {r1}
  LineAmount <- MCLineAmount
  Prices = {1, 2}
  PfiOf <- MCPfiOf
  DesklessPfis = {}
  TransferPfi = "pfi"
  MaxSurplus = 2
PROPERTIES
  RefundNeverStranded
CHECK_DEADLOCK FALSE
