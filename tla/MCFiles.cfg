SPECIFICATION FilesSpec
CONSTANTS
  k1 = k1
  h1 = h1
  j1 = j1
  j2 = j2
  None = None
INVARIANTS
  OpsSound
  TasksWoken
  RepliesWhole
  RequestsHonest
  ListingsComplete
  CopiesWhole
  AclsExact
  ConfigKept
PROPERTIES
  ConfigReadWhole
CHECK_DEADLOCK FALSE
