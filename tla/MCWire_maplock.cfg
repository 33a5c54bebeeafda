SPECIFICATION CacheSpec
CONSTANTS
  None = None
  t1 = t1
  t2 = t2
  u1 = u1
  u2 = u2
  w1 = w1
  c1 = c1
  c2 = c2
INVARIANT MapLockBrief
CHECK_DEADLOCK FALSE
