CONSTANTS
  Conns = {c1, c2}
  Timer = Timer
  NULL = NULL
  KO = KO
  BufferSize = 4
  Scarce = TRUE
  MaxChunks = 1
  MaxTicks = 0
  MaxSignals = 2
SPECIFICATION Spec
INVARIANTS TypeOK ChunksWhole OwnLineInReply
PROPERTIES LostLockIsForever StopsUnlessLost
CHECK_DEADLOCK FALSE
