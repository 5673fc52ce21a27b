SPECIFICATION ServicesSpec
CONSTANTS
  Requests = {r1, r2, r3}
  PoolSize = 2
  None = None
  Earlier = Earlier
  Updates <- SomeUpdates
  Targets <- SomeTargets
  Started <- SomeStarted
  Cards <- SomeCards
  UnitLists <- SomeUnitLists
  Vehicle = v1
  People = {p1}
  Ghost = ghost
  Incidents = {i1}
  BoardWindow = 2
  CriticalShown = 1
  Older = Older
  LinkLists <- SomeLists
  RuleBodies <- SomeRuleBodies
  Roles = {"chief", "clerk"}
  Permissions = {"crisis.command"}
  AdminBodies <- SomeAdminBodies
  Providers = {"mock"}
  AIBodies <- SomeAIBodies
  MaxCallChanges = 2
  Askers = {"q1", "q2"}
  Nothing = Nothing
  Units = {"u1", "u2", "u3"}
  UnitRows <- SomeUnitRows
  RuleContents <- SomeContents
  Asks <- SomeAsks
  Capabilities = {"pump", "ladder"}
  DefaultRadius = 5
  MaxDistance = 10
  CandidateLimit = 3
  ExcludedCodes = {}
  MaxChanges = 1
SYMMETRY Symmetry
CHECK_DEADLOCK FALSE
INVARIANTS TypesOK CardIsConsistent ResourcesAgree CommandIsConsistent VersionsAgree SettingsAgree SuggestionIsSound CompositionIsSound
PROPERTIES ChangeIsAudited ResourceStepsHold  RuleStepsHold AdminStepsHold LatestNeverGoesBack
