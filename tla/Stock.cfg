SPECIFICATION Spec
CONSTANTS
  o1 = o1  o2 = o2  p1 = p1  p2 = p2  e1 = e1
  NoPfi = NoPfi
  Orders = {o1, o2}
  Pfis = {p1, p2}
  Finds = {e1}
  Quantities = {1, 2}
  Tanks = {1}
  TypedStatus = {"active"}
  TypedSold = {}
  FindLitres = {1}
INVARIANTS
  FoundIsEntries
PROPERTIES
  OversoldOnlyByTyping
  CounterDriftsOnlyByStale
  SoundButForAssign
CONSTRAINT Bound
SYMMETRY StockSymmetry
CHECK_DEADLOCK FALSE
