SPECIFICATION Spec
CONSTANTS
  Members = {1, 2, 3, 4}
  Long = {4}
  Scores = {1, 2}
  MaxLevel = 3
  MaxListpackEntries = 2
INVARIANTS
  StructuresAgree
  SkiplistSound
