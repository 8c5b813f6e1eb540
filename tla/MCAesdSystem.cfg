CONSTANTS
  MaxOps = 2
  Blocks = {b1, b2, b3, b4}
  NULL = NULL
  Workers = {w1, w2}
  Outsiders = {o}
  Files = {w1, w2, o}
  x = x
  nl = nl
  Bytes <- MCBytes
  NL <- nl
  FREE = FREE
  Payloads <- MCPayloads
  Counts = {3}
  Offsets = {0}
  SeekOffsets = {1}
  Uint32 = 16
  MaxPending = 2
  MaxPos = 6
  BufferSize = 3
SPECIFICATION SystemSpec
INVARIANTS WorkersNeverContend AnswerIsSnapshot
SYMMETRY Symmetry
VIEW View
CHECK_DEADLOCK FALSE
