SPECIFICATION RequestsSpec
CONSTANTS
  r1 = r1
  r2 = r2
  r3 = r3
  r4 = r4
  i1 = i1
  i2 = i2
  o1 = o1
  o2 = o2
  o3 = o3
  f1 = f1
  f2 = f2
  Calls = {c1}
  Requests = {r1, r2, r3, r4}
  Incidents = {i1, i2}
  Dispatchers = {d1}
  Kinds <- Contending
  PoolSize = 2
  MaxRestarts = 0
  None = None
  Units = {u1}
  Ops = {o1, o2, o3}
  Payloads <- Messages
  Flights = {f1, f2}
  Patched <- Nobody
  Awaiting = FALSE
  MaxReboots = 1
  Nothing = Nothing
SYMMETRY RequestsSymmetry
CHECK_DEADLOCK FALSE
INVARIANTS StampsAgree LinksAgree AttachIsDurable AppliedPerLife QueueInOrder
PROPERTIES StatusChangeIsLogged
