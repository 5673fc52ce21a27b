SPECIFICATION InfraSpec
CONSTANTS
  Instances = {"i1", "i2"}
  Operator = "op"
  Targets = {"minus one", "base"}
  MaxOrders = 1
  MaxCrashes = 1
  Askers = {"a1", "a2"}
  None = None
  Lookups = {"route", "geocode", "reverse", "search", "figures"}
  Questions <- SomeQuestions
  Canonical <- StreetTypesDropped
  Life = 1
  Room = 1
  MaxDelay = 1
  Channels = {"c1", "c2", "c3"}
  Nobody = Nobody
  Mutations = {"m1", "m2"}
  Statuses = {"s1", "s2", "s3"}
  Crew = {"u1", "u2"}
  Missing = Missing
  MaxOthers = 1
  MaxEntries = 2
  MaxTries = 2
CHECK_DEADLOCK FALSE
INVARIANTS SchemaIsSound CacheIsSound ChannelIsOwned ViewAgrees
PROPERTIES InstancesComeUp RecoveryIsSeen WorkspaceCatchesUp
