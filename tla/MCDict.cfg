SPECIFICATION Spec
CONSTANTS
  Keys <- MCKeys
  Vals = {1}
  Hashes <- MCHashes
  Shards = 2
  Matches <- MCMatches
  Counts = {1}
  Width = 4
  MinBuckets = 2
  ShrinkAt = 4
  EmptyBudget = 4
  ScanBudget = 2
  Batch = 1
INVARIANTS
  TablesSound
  ScanSound
CHECK_DEADLOCK FALSE
