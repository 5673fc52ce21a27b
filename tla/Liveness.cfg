SPECIFICATION LivenessSpec
CONSTANTS
  Units = {u1}
  Ops = {o1, o2}
  Payloads <- Messages
  Flights = {f1, f2}
  Patched <- Nobody
  Awaiting = TRUE
  MaxReboots = 1
  MaxRestarts = 1
  Nothing = Nothing
  Calls = {c1}
  Requests = {r1, r2, r3}
  Incidents = {i1}
  Dispatchers = {d1}
  PoolSize = 2
CHECK_DEADLOCK FALSE
PROPERTIES RequestsFinish QueueDrains
