SPECIFICATION CrisisSpec
CONSTANTS
  Requests = {r1, r2}
  PoolSize = 2
  None = None
  BoardWindow = 2
  CriticalShown = 1
CHECK_DEADLOCK FALSE
INVARIANTS BoardShowsItsSectors
