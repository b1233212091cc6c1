SPECIFICATION FairSpec
CONSTANTS
  NShards = 2
  Clients = {c1, c2}
  Snapshotter = snapshotter
  Nobody = nobody
  Effects <- TwoShard
  Empty <- NoContents
  NewValue <- MCNewValue
  QueueLimit = 1
  MaxLog = 1
  MaxCrashes = 1
  CrossInExec = FALSE
  MachineCrash = TRUE
  FsyncAlways = TRUE
  IOErrors = TRUE
INVARIANTS
  
  AckedSurvives
PROPERTIES
  WriteReturns
  SnapshotEnds
CHECK_DEADLOCK FALSE
