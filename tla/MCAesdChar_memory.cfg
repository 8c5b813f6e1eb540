CONSTANTS
  MaxOps = 2
  Blocks = {b1, b2, b3, b4}
  NULL = NULL
  Files = {f1, f2}
  x = x
  nl = nl
  Bytes <- MCBytes
  NL <- nl
  FREE = FREE
  Payloads <- MCPayloads
  Counts = {1, 3}
  Offsets <- MCOffsets
  SeekOffsets = {0, 1, 15}
  Uint32 = 16
  MaxPending = 3
  MaxPos = 6
SPECIFICATION Spec
INVARIANTS TypeOK BufferShape BlocksOwnedOnce SizesMatch ReaderBlockLive WriterUpToDate StoredLines
PROPERTIES NoNewLeak ReadDeliversWindow ImplementsLog PoisonedForever
SYMMETRY Symmetry
VIEW View
CHECK_DEADLOCK FALSE
