SPECIFICATION FairSpec
CONSTANTS
  u1 = u1
  u2 = u2
  i1 = i1
  i2 = i2
  Units = {u1, u2}
  Incidents = {i1, i2}
  Scenarios <- Exercises
  UnitLists <- Crews
  Deadline <- Deadlines
  Required <- Needs
  FalseAlarms = {i2}
  Norm = 1
  Durations = {2, None}
  StepSeconds = 1
  Advances = {2}
  MaxTime = 5
  MaxIterations = 6
  None = None
INVARIANTS TypeOK WorldAgrees NothingIsMissed
PROPERTIES SettledIsFinal StopReports
