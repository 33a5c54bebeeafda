CONSTANTS
  t1 = t1
  t2 = t2
  k1 = k1
  s1 = s1
  s2 = s2
  s3 = s3
  NoSlot = NoSlot
  NoThread = NoThread
  Threads = {t1, t2}
  Keys = {k1}
  Slots = {s1, s2, s3}
  MaxEpoch = 2
  u1 = u1
  u2 = u2
  NoUser = NoUser
  Users = {u1, u2}
  Ids = {1, 2}
SPECIFICATION CallsSpec
CHECK_DEADLOCK FALSE
INVARIANTS
  OneMint
  RevocationHolds
  NothingKept
  Attribution
PROPERTIES
  CallsReturn
