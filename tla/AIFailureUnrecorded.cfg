SPECIFICATION AISpec
CONSTANTS
  Requests = {r1, r2}
  PoolSize = 2
  None = None
  Providers = {"mock"}
  AIBodies <- TextAndCall
  MaxCallChanges = 0
CHECK_DEADLOCK FALSE
INVARIANTS EveryCallIsAudited
