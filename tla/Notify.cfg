SPECIFICATION LiveSpec
CONSTANTS
  Events = {e1}
  Keyed = {e1}
  Boxed = {e1}
  Mandatory = {}
  People = {p1, p2}
  Channels = {sms}
  Noisy = {sms}
  Reported = {sms}
  Oddities = 1
  Picked = p1
  Retries = 1
INVARIANTS
  ReachedOnce
PROPERTIES
  AnswersStand
  QueuedIsHeard
CONSTRAINT Bound
CHECK_DEADLOCK FALSE
