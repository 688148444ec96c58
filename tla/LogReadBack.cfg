SPECIFICATION FairSpec
CONSTANTS
  BlockSize = 8
  MapSize = 16
  PageSize = 16
  Sizes = {2, 3, 12}
  MaxRecords = 2
  Ends = {"close", "process", "machine"}
  InitialOffsets = {0, 17}
  FaultKinds = {"read", "skip"}
INVARIANTS
  OnlyWritten
  PromisedAreRead
  NoFalseAlarm
PROPERTIES
  ReaderEnds
