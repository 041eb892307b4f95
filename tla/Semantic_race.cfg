SPECIFICATION Spec
CONSTANTS
  f = f
  g = g
  w1 = w1
  w2 = w2
  h1 = h1
  h2 = h2
  Sentences <- OneSentence
  Features <- SomeFeatures
  IncludeAssistant = FALSE
  Interactions <- Repetitions
  Priorities <- AnyPriority
  Scopes = {"none"}
  Writers <- OneWriter
  Hosts <- OneHost
  MaxTopK = 1
  CacheSize = 1
  MaxRows = 2
INVARIANTS
  CacheIsFresh
CHECK_DEADLOCK FALSE
