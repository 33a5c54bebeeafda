CONSTANTS
  None = None
  Hdr = 1
  Body = 2
  Chunk = 4
  HeaderNeed = FALSE
  PduLen = 1
  MaxSendCoalesce = 2
  MaxSendBacklog = 2
  MaxInFlight = 2
  MaxConns = 2
  MaxBytes = 3
  MaxReq = 2
  MaxPush = 1
SPECIFICATION Spec
INVARIANTS
  CloseClean
  CountsExact
  BytesConserved
  OwnAnswers
  OwedBeforeClose
  NeverWedged
CHECK_DEADLOCK FALSE
