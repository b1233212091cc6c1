SPECIFICATION FairSpec
CONSTANTS
  Shards = {s1, s2}
  NoId = noid
  None = none
  Detached = detached
  MaxLog = 3
  MaxEvents = 2
  Hard = {}

  
  
PROPERTIES
  CatchesUp
  
CHECK_DEADLOCK FALSE
