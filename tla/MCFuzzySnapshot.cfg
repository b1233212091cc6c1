SPECIFICATION Spec
CONSTANTS
  NShards = 2
  Clients = {c1, c2}
  Snapshotter = snapshotter
  Nobody = nobody
  Effects <- AllEffects
  Empty <- NoContents
  NewValue <- MCNewValue
  QueueLimit = 1
  MaxLog = 2
  MaxCrashes = 1
  CrossInExec = FALSE
  MachineCrash = FALSE
  FsyncAlways = FALSE
  IOErrors = FALSE
SYMMETRY Interchangeable
INVARIANTS
  LiveMatchesLog
  AnchorExact
  NoCrossInWindow
  RecoveryRebuildsDataset
CHECK_DEADLOCK FALSE
