SPECIFICATION FairAllSpec
CONSTANTS
  Parts = {"queries", "migration"}
  Minute = 1
  Hour = 2
  Catalog <- Prices
  Million = 10
  MaxMicros = 1000
  ConflictMicros = 1
  MaxOverrides = 2
  Offset <- LocalOffset
  DayHours = 3
  WeekDays = 2
  Rank <- Ranks
  MaxItems = 2
  MaxKeys = 3
  Days <- AllDays
  Versions <- EventVersions
  Limit = 1
  PageSize = 1
  Openers = {"live", "other"}
  Archives <- MCArchives
  Faults = 1
INVARIANTS RollupsAreExact AnswersAreExact UpgradeIsSafe
PROPERTIES UpgradeEnds
