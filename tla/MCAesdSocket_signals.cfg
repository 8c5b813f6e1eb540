CONSTANTS
  Conns = {c1}
  NULL = NULL
  x = x
  y = y
  nl = nl
  seek = seek
  back = back
  far = far
  bad = bad
  Bytes = {x, y, nl, seek, back, far, bad}
  NL <- nl
  Malformed = Malformed
  SeekArgs <- MCSeekArgs
  Requests <- MCAllRequests
  Windows <- MCUsed
  MaxOps = 2
  Uint32 = 16
  BufferSize = 4
  MaxFds = 3
  MaxSignals = 2
SPECIFICATION Spec
INVARIANT TypeOK
PROPERTIES StopsAfterSignal WorkersFinish
CHECK_DEADLOCK FALSE
