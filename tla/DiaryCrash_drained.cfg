SPECIFICATION CrashFairSpec
CONSTANTS
  w1 = w1
  w2 = w2
  UpdateEvery = 2
  DiaryWindow = 1
  SessionsPerSummary = 1
  InjectSessions = 1
  Ingesters <- TwoIngesters
  MaxTurns = 4
  MaxLacking = 1
  MaxRuns = 3
PROPERTIES
  FullBatchFolds
CHECK_DEADLOCK FALSE
