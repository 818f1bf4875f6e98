SPECIFICATION Spec
CONSTANTS
  NoId = NoId
  Principals = {p1}
  Ids = {s1, s2, s3}
  Calls = {k1, k2}
  MaxSecret = 1
  MaxCodes = 3
  Purposes = {auth}
  Attempts = 2
  PerWindow = 1
  Handlers = {k1, k2}
  phone = phone
  Tokens = {t1, t2}
  Handsets = {phone}
  HandsetOf <- OfPhone
  Owners = {o1, o2}
  Threshold = 2
  Posts = {k1, k2}
INVARIANTS SessionsHold  DevicesHold
PROPERTY OldPasswordEnds
CONSTRAINT Bound
SYMMETRY Symmetry
CHECK_DEADLOCK FALSE
