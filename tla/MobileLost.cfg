SPECIFICATION SyncSpec
CONSTANTS
  Units = {u1}
  Ops = {o1, o2, o3}
  Payloads <- Messages
  Flights = {f1, f2, f3}
  Patched <- Nobody
  Awaiting = FALSE
  MaxReboots = 0
  Nothing = Nothing
SYMMETRY PhoneSymmetry
CHECK_DEADLOCK FALSE
INVARIANTS NothingLost
