CONSTANTS
  MaxOps = 2
  Blocks = {b1, b2, b3, b4}
  NULL = NULL
  Files = {f1, f2}
  x = x
  nl = nl
  Bytes <- MCBytes
  NL <- nl
  FREE = FREE
  Payloads <- MCPayloads
  Counts = {3}
  Offsets = {}
  SeekOffsets = {}
  Uint32 = 16
  MaxPending = 2
  MaxPos = 6
  MaxLoads = 2
SPECIFICATION ModuleSpec
INVARIANTS NodeHasDriver NodeReachesDriver LoadedHasNode
PROPERTY UnloadLosesPartialOnly
SYMMETRY Symmetry
VIEW View
CHECK_DEADLOCK FALSE
