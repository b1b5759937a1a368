SPECIFICATION AllSpec
CONSTANTS
  Parts = {"admission", "worker", "scheduler", "live"}
  MaxRequestId = 3
  NoDeadline = NoDeadline
  NoPermit = NoPermit
  NoPending = NoPending
  Deadlines <- SomeDeadlines
  MaxNow = 2
  Submitter <- TwoSubmitters
  Outcomes = {"Completed"}
  MaxSuperseded = 3
  NoResult = NoResult
  Scenarios <- TwoScenarios
  s1 = s1
  s2 = s2
  Callers <- OneCaller
  Owner = theOwner
  Quiet = 1
  HealthyPoll = 3
  DegradedPoll = 2
  HintHorizon = 1
  SchedulerMaxNow = 2
  Budgets <- ThreeBudgets
  c1 = c1
  Paths <- TwoPaths
  Rescan = Rescan
  MaxChangedPaths = 1
  LiveScenarios <- Disturbed
  p1 = p1
  p2 = p2
INVARIANTS CoalescingCovers IdsAreFresh WorkerAccounts SchedulerIsTimely LiveIsSound
PROPERTIES CancellationIsExact ImplementsSingleFlight ImplementsHintLatch PauseAdmitsNothing
