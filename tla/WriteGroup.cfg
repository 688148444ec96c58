SPECIFICATION FairSpec
CONSTANTS
  Thread = {t1, t2, t3}
  Kinds = {"write", "compact"}
  Sizes = {1}
  SmallBatch = 1
  MaxBatch = 3
  WriteBufferSize = 0
  kL0_CompactionTrigger = 1
  kL0_SlowdownWritesTrigger = 1
  kL0_StopWritesTrigger = 2
  MaxFaults = 2
  Null = Null
INVARIANTS
  LeaderAtFront
  FrontAwake
  AckedIffApplied
  AckedSyncIsOnDisk
  NoAckBehindFailedSync
  WaitersHaveBackground
PROPERTIES
  CallsReturn
