SPECIFICATION Spec
CONSTANTS
  h1 = h1
  h2 = h2
  Kinds = {"session", "summary"}
  Registered = {"session"}
  Targets = {"a", "b"}
  Hosts <- TwoHosts
  MaxJobs = 3
  MaxDrains = 2
SYMMETRY HostSymmetry
INVARIANTS
  TypeOK
  DoneIsAppliedOnce
  AuxCountIsHonest
PROPERTIES
  SettledForGood
  ImplementsMailbox
CHECK_DEADLOCK FALSE
