SPECIFICATION Spec
CONSTANTS
  Calls = {c1}
  Requests = {r1, r2, r3, r4}
  Incidents = {i1, i2}
  Dispatchers = {d1}
  Kinds <- Lifecycles
  PoolSize = 2
  MaxRestarts = 0
  None = None
SYMMETRY CallSymmetry
CHECK_DEADLOCK FALSE
PROPERTIES StatusMovesAlongLifecycle
