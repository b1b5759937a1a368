SPECIFICATION FairAllSpec
CONSTANTS
  Parts = {"worker", "scheduler", "live"}
  MaxRequestId = 2
  NoDeadline = NoDeadline
  NoPermit = NoPermit
  NoPending = NoPending
  Deadlines <- SomeDeadlines
  MaxNow = 2
  Submitter <- TwoSubmitters
  Outcomes = {"Completed"}
  MaxSuperseded = 3
  NoResult = NoResult
  Scenarios <- TwoScenarios
  s1 = s1
  s2 = s2
  Callers <- OneCaller
  Owner = theOwner
  Quiet = 1
  HealthyPoll = 3
  DegradedPoll = 2
  HintHorizon = 1
  SchedulerMaxNow = 2
  Budgets <- Plainly
  c1 = c1
  Paths <- TwoPaths
  Rescan = Rescan
  MaxChangedPaths = 1
  LiveScenarios <- Progressing
  p1 = p1
  p2 = p2
PROPERTIES RequestsSettle HintsServed ChangesApplied PauseAndShutdownEnd
