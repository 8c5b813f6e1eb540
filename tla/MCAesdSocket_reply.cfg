CONSTANTS
  Conns = {c1, c2}
  NULL = NULL
  x = x
  y = y
  nl = nl
  seek = seek
  back = back
  far = far
  bad = bad
  Bytes = {x, y, nl, seek, back, far, bad}
  NL <- nl
  Malformed = Malformed
  SeekArgs <- MCSeekArgs
  Requests <- MCRequests
  Windows <- MCOne
  MaxOps = 2
  Uint32 = 16
  BufferSize = 4
  MaxFds = 5
  MaxSignals = 0
SPECIFICATION Spec
INVARIANTS ReplyIsSnapshot OwnLineIsLast
PROPERTIES WorkersFinish WaitingAreAccepted
CHECK_DEADLOCK FALSE
