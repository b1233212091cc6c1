CONSTANTS
  Keys = {a, b}
  Accounting = FALSE
  MaxInt = 2
  MaxStringLength = 2
  CopyMode = "loading"
  MaxNow = 2
  Elems = {1, 2}
  Deltas = {1}
  SplitReadings = FALSE
  MaxSize = 4
SYMMETRY KeySymmetry
SPECIFICATION Spec
INVARIANTS
  ReplaySafe
  KeyspaceSound
  SignalsEveryChange
