SPECIFICATION WaitingSpec
CONSTANTS
  f = f
  g = g
  w1 = w1
  w2 = w2
  h1 = h1
  h2 = h2
  Sentences <- TwoSentences
  Features <- SomeFeatures
  IncludeAssistant = TRUE
  Interactions <- Statements
  Priorities <- NoPriority
  Scopes = {"none", "a"}
  Writers <- TwoWriters
  Hosts <- OneHost
  MaxTopK = 2
  CacheSize = 1
  MaxRows = 2
SYMMETRY WriterSymmetry
INVARIANTS
  TypeOK
  OneRowPerFact
  HeldInEveryScope
  CacheIsFresh
  BestAreKept
  ForgottenStaysGone
PROPERTIES
  ForgetIsRelevant
CHECK_DEADLOCK FALSE
