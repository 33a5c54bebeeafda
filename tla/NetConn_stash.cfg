CONSTANTS
  None = None
  Hdr = 2
  Body = 1
  Chunk = 4
  HeaderNeed = TRUE
  PduLen = 1
  MaxSendCoalesce = 2
  MaxSendBacklog = 2
  MaxInFlight = 2
  MaxConns = 1
  MaxBytes = 4
  MaxReq = 2
  MaxPush = 0
SPECIFICATION Spec
INVARIANTS
  StashResolves
CHECK_DEADLOCK FALSE
