SPECIFICATION ContextSpec
CONSTANTS
  w1 = w1
  UpdateEvery = 1
  DiaryWindow = 1
  SessionsPerSummary = 2
  InjectSessions = 1
  Ingesters <- OneIngester
  RecentRows = 2
  MaxTurns = 8
  MaxLacking = 0
  MaxRuns = 5
INVARIANTS
  ContextTypeOK
  DrainedFoldLosesNothing
  ContextIsComplete
CHECK_DEADLOCK FALSE
