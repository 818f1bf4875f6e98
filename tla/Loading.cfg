SPECIFICATION Spec
CONSTANTS
  o1 = o1  o2 = o2  d1 = d1
  Orders = {o1, o2, d1}
  Pickup = {o1, o2}
  Quantities = {1, 2}
  Truckloads = {1, 2}
  Payments = {0, 2}
  MaxDeclared = 2
  MaxTrucks = 2
INVARIANTS
  DepotInOrder
  
PROPERTIES
  LeftOpenOnlyByMerge
  OverfullOnlyByStaleRelease
CONSTRAINT Bound
SYMMETRY LoadingSymmetry
CHECK_DEADLOCK FALSE
