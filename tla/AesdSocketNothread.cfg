CONSTANTS
  MaxFds = 4
  MaxConns = 3
  Signals = {SIGINT, SIGTERM}
  Failures = {"listen", "accept", "malloc", "fopen"}
SPECIFICATION Spec
INVARIANTS CleanupClosesOwn FreedOnce
PROPERTIES LostPortShutsOut ServesAgain SignalEnds
CHECK_DEADLOCK FALSE
