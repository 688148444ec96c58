SPECIFICATION Spec
CONSTANTS
  NumKeys = 1
  NumLevels = 3
  MaxMemLevel = 1
  L0Trigger = 2
  MaxWrites = 3
  MaxSnapshots = 1
  Manual = {}
  Windows = {"split"}
INVARIANTS
  NewestFirst
