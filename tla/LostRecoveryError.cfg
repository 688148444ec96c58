SPECIFICATION Spec
CONSTANTS
  MaxWrites = 2
  MaxFile = 0
  MaxCrashes = 1
  MaxFaults = 1
  CrashKinds = {"process"}
  CrashPoints = {}
  FaultKinds = {"recover"}
INVARIANTS
  ServesAcked
