CONSTANTS
  Pids = {1, 2, 3, 4}
  First = 1
  Texts = {t}
  MaxCalls = 3
SPECIFICATION Spec
INVARIANTS TrueMeansRan OneCaller TextOnce
CHECK_DEADLOCK FALSE
