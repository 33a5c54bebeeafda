CONSTANTS
  c1 = c1
  w1 = w1
  st = st
  Clients = {c1}
  Workers = {w1}
  Stopper = st
  Pokers = {c1, w1, st}
  MaxCalls = 2
  Ops = 1
  RingErrors = FALSE
SPECIFICATION FairSpec
CHECK_DEADLOCK FALSE
PROPERTIES
  Delivered
  ImplementsCalls
