SPECIFICATION Spec
CONSTANTS
  NodeCount = 3
  ElectionRate = 1
  MaxConcurrentNodeCount = 1
  MaxRootStateCount = 2
  ResetCount <- NormalThenDangerous
  ResetIncludingSideEffectsCount <- OnlyTheLast
  OptimizationEnabled = FALSE
  StartBlockNumber = 1
  MaxBlockNumber = 2
  MaxCrashes = 2
  MaxLapses = 0
  RoundTime = 0
  MaxSetups = 1
  FollowOverlaps = FALSE
CHECK_DEADLOCK FALSE
INVARIANTS
  TypeOK
  IndexMatchesCursors
  SideEffectsOncePerReset
PROPERTIES
  ResetsAreRecordedLast
