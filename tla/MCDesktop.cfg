SPECIFICATION FairAllSpec
CONSTANTS
  Parts = {"window"}
  MaxRequestId = 12
  NoDeadline = NoDeadline
  NoPermit = NoPermit
  NoPending = NoPending
  Absent = None
  Budgets <- MCBudgets
  Presets = {7, 30}
  Rows = {0}
  Reports <- MCReports
  Changing = {"usage", "quota"}
  MaxNow = 4
  Exclusive = {"Restore"}
  Retryable = {"Backup"}
  Replaceable = {"UpdatePresentation"}
  Plain = {"Backup"}
  Payloads = {"p", "q"}
  MaxRequests = 3
  MaxCalls = 1
  Scopes = {1}
  Lots = {1, 2}
  Defaults <- MCDefaults
  MaxLots = 2
  MaxChanges = 8
  MaxDeliveries = 8
  KeptChanges = 8
  KeptDeliveries = 8
  Page = 2
  MaxScopes = 2
  MaxOverviewLots = 4
  FreshFor = 1
  StaleFor = 2
  PageSize = 1
  Observations <- MCObservations
  Profiles = {{1}, {3}}
  Days <- MCDays
  Retry = 1
  Last = 4
INVARIANTS ShownIsCoherent
PROPERTIES WindowSettles
