SPECIFICATION CrashSpec
CONSTANTS
  w1 = w1
  w2 = w2
  UpdateEvery = 1
  DiaryWindow = 1
  SessionsPerSummary = 2
  InjectSessions = 1
  Ingesters <- OneIngester
  MaxTurns = 8
  MaxLacking = 0
  MaxRuns = 4
INVARIANTS
  DrainedCountIsExact
CHECK_DEADLOCK FALSE
