SPECIFICATION AllSpec
CONSTANTS
  Parts = {"vault"}
  Missing = Missing
  Invalid = Invalid
  MaxQuarantine = 2
  MaxLaunches = 2
  MaxSessions = 5
  RecoveryScenarios <- MCScenarios
  PipelineScenarios <- PipelineMCScenarios
  Attempts = {0, 1}
  PipelineSlots = {0, 1}
  Pages = 2
  MaxRetries = 1
  MaxArtifacts = 3
  VaultScenarios <- AllScenarios
  VaultSlots = {0, 1, 2, 3, 4, 5}
  Newest = 2
  Daily = 1
  Weekly = 1
  MaxKept = 4
  DaysPerWeek = 2
  TimePerDay = 2
  Budget = 4
  Scenarios <- MaintenanceMCScenarios
  Identities = {1, 2}
  Quiet = 1
  Interval = 2
  MaxTime = 2
  MaxRequests = 5
INVARIANTS RestoresTheChosen
