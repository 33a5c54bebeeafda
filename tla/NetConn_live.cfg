CONSTANTS
  None = None
  Hdr = 1
  Body = 1
  Chunk = 4
  HeaderNeed = FALSE
  PduLen = 1
  MaxSendCoalesce = 2
  MaxSendBacklog = 2
  MaxInFlight = 2
  MaxConns = 1
  MaxBytes = 2
  MaxReq = 2
  MaxPush = 0
SPECIFICATION FairSpec
PROPERTIES
  SlotFreed
  DrainEnds
CHECK_DEADLOCK FALSE
