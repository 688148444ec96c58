SPECIFICATION Spec
CONSTANTS
  Socket = socket
  Session = session
  Upipe = {u1, u2, u3, u4}
  NULL = NULL
  Options <- MCOptions
  MaxErrors = 1
  Windows = {}
INVARIANTS
  AssertsHold
  NoDanglingPipe
  LingerLosesNothing
  NoLostActivation
PROPERTIES
  WholeMessages
  SessionEnds
CHECK_DEADLOCK FALSE
