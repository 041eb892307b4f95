SPECIFICATION Spec
CONSTANTS
  h1 = h1
  h2 = h2
  Hosts <- TwoHosts
  MaxWorkingTurns = 3
  MaxInteractions = 3
  MaxRuns = 2
  Cost <- MixedCost
  HistoryMaxTurns = 4
  ConfigBudget <- TokensByDefault
  Budgets <- SmallBudgets
SYMMETRY HostSymmetry
INVARIANTS
  TypeOK
  NoPipelineAfterClose
  ConsolidatorsIsolated
  HistoryIsLongestAffordable
  SourcesAgree
CHECK_DEADLOCK FALSE
