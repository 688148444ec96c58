SPECIFICATION FairSpec
CONSTANTS
  Threads = {t1, t2, t3, t4, t5}
  MaxCount = 5
INVARIANTS
  HandshakeIsClean
PROPERTIES
  KeepsPromise
  SignalsReturn
CHECK_DEADLOCK FALSE
