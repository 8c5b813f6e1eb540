CONSTANTS
  MaxOps = 2
  Blocks = {b1, b2, b3, b4}
  NULL = NULL
  Files = {f1}
  x = x
  nl = nl
  Bytes <- MCBytes
  NL <- nl
  FREE = FREE
  Payloads <- MCPayloads
  Counts = {1, 3}
  Offsets <- MCOffsets
  SeekOffsets = {0, 1, 15}
  Uint32 = 16
  MaxPending = 2
  MaxPos = 6
SPECIFICATION Spec
INVARIANT SeekIsToWriteCommand
SYMMETRY Symmetry
CHECK_DEADLOCK FALSE
