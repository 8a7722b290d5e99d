SPECIFICATION Spec
CONSTANTS
  Main = Main
  Side = Side
  ChainIds = {Main, Side}
  ChainsInOrder <- TwoChains
  ContractAddresses <- BothPools
  InitialAddresses <- BothPools
  ChunkSize = 5
  PureHandlers <- MCPureHandlers
  Logs <- TwoPoolsLogs
  Forks <- ForkAt2
  InitialBlockNumber = 1
  MaxBlockNumber = 3
  MaxReorgDepth = 2
  MaxReorgs = 1
  LastReorgHeight = 3
  MaxBlocksBetweenPasses = 2
  MaxBlocksMidPass = 1
  MaxCrashes = 1
  PruningEnabled = TRUE
  PruneNBlocksAway = 1
  PruneInterval = 0
  PassDurations <- Quick
  MinConfirmationCount = 1
  BlocksPerBatch = 2
INVARIANTS
  CursorCoverage
PROPERTIES
  ImplementsFeed
