SPECIFICATION FairSpec
CONSTANTS
  MaxWrites = 2
  MaxFile = 7
  MaxCrashes = 2
  MaxFaults = 1
  CrashKinds = {"process", "machine"}
  CrashPoints = {}
  FaultKinds = {"create", "table", "manifest", "sync", "delete"}
INVARIANTS
  NothingLost
  ServesAcked
  LiveTablesExist
  FreshNumbers
PROPERTIES
  OpensAgain
