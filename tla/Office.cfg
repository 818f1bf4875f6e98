SPECIFICATION Spec
CONSTANTS
  ann = ann
  cyd = cyd
  Expenses = {e1}
  Accounts = {c1, c2}
  Staff = {ann, cyd}
  RolesOf <- Roles
  Tabs = {h1, h2}
  k1 = k1
  Orders = {o1}
  Customers = {k1}
  CustomerOf <- OfOne
  Coms = {c1, c2}
  MaxLitres = 2
  DepotRates = {0, 1}
  AgreedRates = {0, 2}
  Handlers = {h1, h2}
  x = x
  y = y
  Credits = {x, y}
  Referenced = {x}
  Worth <- Two
  Days = {1, 2}
  Files <- Exports
  Uploads = {h1, h2}
  Trucks = {c1, c2}
  Expected = 1
  Payments = {p1, p2, p3}
  Moves = {h1, h2}
INVARIANTS ExpensesHold  
PROPERTIES ClosedUnlessStale 
CONSTRAINT Bound
SYMMETRY Symmetry
CHECK_DEADLOCK FALSE
