CONSTANTS
  LastMsg = 2
  Slot = {s1, s2}
  s1 = s1
  s2 = s2
  NoSlot = NoSlot
  Instances = 1
  RetryLimit = 1
  MaxJobs = 1
  MaxFaults = 2
  Confirms = {1, 2}
  MaxAge = 0
  Payable = {1}
SPECIFICATION Spec
SYMMETRY Handlers
INVARIANTS TurnsTakeEffect RepliesSound
PROPERTIES NothingTwice
CHECK_DEADLOCK FALSE
