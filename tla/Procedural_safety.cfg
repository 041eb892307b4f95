SPECIFICATION Spec
CONSTANTS
  tone = tone
  persona = persona
  w1 = w1
  w2 = w2
  Directives <- OneDirective
  Ingesters <- TwoIngesters
  MaxInteractions = 3
  MaxRuns = 2
SYMMETRY Interchangeable
INVARIANTS
  TypeOK
  NoDirectiveLost
  BridgeStaysDown
CHECK_DEADLOCK FALSE
