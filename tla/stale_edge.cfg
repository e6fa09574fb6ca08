SPECIFICATION Tier1Spec
CONSTANTS
  Programs <- MCPrograms
  SampledGraphs <- MCSampled
  A2ADetection = TRUE
  MaxFaults = 1
  Replies <- MCReplies
  MaxPosts = 2
  MaxRemaps = 2
  CostBudget = 6
  MinInputNumbers = 2
INVARIANTS
  NothingInvented
CHECK_DEADLOCK FALSE
