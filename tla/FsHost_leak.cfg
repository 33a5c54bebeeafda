CONSTANTS
  c1 = c1
  w1 = w1
  st = st
  Clients = {c1}
  Workers = {w1}
  Stopper = st
  Pokers = {c1, w1, st}
  MaxCalls = 1
  Ops = 1
  RingErrors = TRUE
SPECIFICATION Spec
CHECK_DEADLOCK FALSE
INVARIANTS
  ReturnUnblocks
