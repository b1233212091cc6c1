SPECIFICATION FairSpec
CONSTANTS
  Appenders = {a1, a2}
  Syncer = syncer
  Closer = closer
  NoThread = nobody
  Base = 0
  MaxRecords = 2
  IOErrors = TRUE
INVARIANTS
  OffsetCountsWholeRecords
  AckedWritten
  AckedForced
  CleanCloseIsDurable
  FlagsHonest
PROPERTIES
  AppendReturns
  CloseReturns
CHECK_DEADLOCK FALSE
