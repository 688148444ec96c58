SPECIFICATION Spec
CONSTANTS
  Socket = {s1, s2}
  Root = s1
  Listener = listener
  Accepted = accepted
  Connected = connected
  Connecter = {c1, c2}
  io1 = io1
  io2 = io2
  IoThreads = {io1, io2}
  Plan <- MCPlan
  Windows = {}
  NULL = NULL
INVARIANTS
  AssertsHold
  NoCommandToTheDead
  ChildrenFirst
PROPERTIES
  TermReturns
CHECK_DEADLOCK FALSE
