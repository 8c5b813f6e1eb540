CONSTANTS
  Conns = {c1}
  NULL = NULL
  x = x
  y = y
  nl = nl
  seek = seek
  back = back
  far = far
  bad = bad
  Bytes = {x, y, nl, seek, back, far, bad}
  NL <- nl
  Malformed = Malformed
  SeekArgs <- MCSeekArgs
  Requests <- MCLines
  Windows <- MCUsed
  MaxOps = 2
  Uint32 = 16
  BufferSize = 4
  MaxFds = 6
  MaxSignals = 0
SPECIFICATION Spec
PROPERTY SendFailuresAreLocal
CHECK_DEADLOCK FALSE
