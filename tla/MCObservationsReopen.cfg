SPECIFICATION AllSpec
CONSTANTS
  Parts = {"benefits"}
  Scopes = {1}
  Lots = {1, 2}
  Defaults <- MCDefaults
  MaxLots = 2
  MaxChanges = 8
  MaxDeliveries = 4
  KeptChanges = 1
  KeptDeliveries = 0
  BenefitPage = 2
  MaxScopes = 2
  MaxOverviewLots = 3
  FreshFor = 1
  StaleFor = 2
  PageSize = 1
  Histories <- MCHistories
  Observations <- MCObservations
  Profiles = {{1, 3}, {2}}
  MaxSamples = 4
  MaxHistory = 2
  SoftSamples = 1
  MaxWindows = 2
  Windows <- MCWindows
  Answers <- MCAnswers
  QuotaDays <- MCDays
  LastTime = 3
  Page = 2
  Commits <- MCCommit
  Features <- MCFeatures
  Alias <- MCAlias
  ShallowCut = {1}
  MaxDays = 2
  MaxPaths = 3
  MaxRepositories = 2
  MaxAssociations = 2
  IdOrder <- MCIdOrder
  Repo <- MCRepo
  RepoOf <- MCRepoOf
  Hints <- MCHints
  Scripts <- MCScripts
  GitDays <- GitMCDays
  MaxSlots = 2
  MaxHeads = 1
  UsageAnswer <- MCUsage
  GitLastTime = 4
  FirstDay = 1
  LastDay = 4
INVARIANTS ArchiveReopens
