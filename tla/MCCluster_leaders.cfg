SPECIFICATION FairSpec
CONSTANTS
  NodeCount = 2
  ElectionRate = 1
  MaxConcurrentNodeCount = 1
  MaxRootStateCount = 2
  ResetCount <- NoResets
  ResetIncludingSideEffectsCount <- NoResets
  OptimizationEnabled = TRUE
  StartBlockNumber = 1
  MaxBlockNumber = 0
  MaxCrashes = 2
  MaxLapses = 2
  RoundTime = 1
  MaxSetups = 2
  FollowOverlaps = FALSE
CHECK_DEADLOCK FALSE
INVARIANTS
  ActiveBeforeElection
PROPERTIES
  EventuallyOneLeader
