SPECIFICATION FairSpec
CONSTANTS
  Writers = {w1, w2}
  Followers = {f1}
  MaxOffset = 3
  MaxSegs = 3
  IOErrors = TRUE
  RemoveErrors = FALSE
INVARIANTS
  LogIntact
  FollowerSafe
PROPERTY CatchesUp
CHECK_DEADLOCK FALSE
