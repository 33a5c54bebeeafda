CONSTANTS
  w1 = w1
  w2 = w2
  s1 = s1
  Workers = {w1, w2}
  Submitters = {s1}
  Loop = loop
  Floor = 1
  Ceiling = 2
  JobsPerWake = 2
  MaxJobs = 3
  loop = loop
SPECIFICATION FairSpec
CHECK_DEADLOCK FALSE
INVARIANTS
  PoolExact
  JobsReached
PROPERTIES
  JobTaken
  PoolReturns
