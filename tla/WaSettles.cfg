CONSTANTS
  LastMsg = 1
  Slot = {s1, s2}
  s1 = s1
  s2 = s2
  NoSlot = NoSlot
  Instances = 1
  RetryLimit = 0
  MaxJobs = 2
  MaxFaults = 2
  Confirms = {1}
  MaxAge = 2
  Payable = {}
SPECIFICATION Spec
PROPERTIES EverythingSettles KeepsPromise
CHECK_DEADLOCK FALSE
