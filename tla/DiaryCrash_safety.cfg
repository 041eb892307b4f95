SPECIFICATION CrashSpec
CONSTANTS
  w1 = w1
  w2 = w2
  UpdateEvery = 1
  DiaryWindow = 1
  SessionsPerSummary = 2
  InjectSessions = 1
  Ingesters <- OneIngester
  MaxTurns = 6
  MaxLacking = 1
  MaxRuns = 4
INVARIANTS
  OnlyNewestIsOpen
  CrashFoldedPrefix
  CrashFoldBatchIsNext
PROPERTIES
  SessionsOnlyGrow
CHECK_DEADLOCK FALSE
