SPECIFICATION Spec
CONSTANTS
  N = 2
  Chunk = {a1, a2, a3, a4}
  NULL = NULL
  Sender = {s1, s2}
  Reader = reader
  MaxSends = 3
INVARIANTS
  WokenHasCommand
  NoSenderInside
  ChunksAreOwned
PROPERTIES
  ImplementsChannel
CHECK_DEADLOCK FALSE
