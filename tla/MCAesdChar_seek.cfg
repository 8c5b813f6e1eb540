CONSTANTS
  MaxOps = 3
  Blocks = {b1, b2, b3, b4, b5}
  NULL = NULL
  Files = {f1}
  x = x
  nl = nl
  Bytes <- MCBytes
  NL <- nl
  FREE = FREE
  Payloads <- MCPayloads
  Counts = {1, 3}
  Offsets <- MCOffsets
  SeekOffsets = {0, 1, 15}
  Uint32 = 16
  MaxPending = 3
  MaxPos = 7
SPECIFICATION Spec
INVARIANTS FindIsStreamIndex SeekFindsSlot SeekEndIsEndUntilFull
SYMMETRY Symmetry
VIEW View
CHECK_DEADLOCK FALSE
