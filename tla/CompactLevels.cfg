SPECIFICATION Spec
CONSTANTS
  NumKeys = 3
  NumLevels = 4
  MaxMemLevel = 2
  L0Trigger = 2
  MaxWrites = 3
  MaxSnapshots = 1
  Manual = {0, 1}
  Windows = {}
INVARIANTS
  LevelsInOrder
  ReadsAreRight
