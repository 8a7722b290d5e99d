SPECIFICATION Spec
CONSTANTS
  Main = Main
  Side = Side
  ChainIds = {Main}
  ChainsInOrder <- OneChain
  ContractAddresses <- PoolTokenRetired
  InitialAddresses <- PoolAndRetired
  ChunkSize = 1
  PureHandlers <- MCPureHandlers
  Logs <- PoolAndTokenLogs
  Forks <- ForkAt2
  InitialBlockNumber = 3
  MaxBlockNumber = 5
  MaxReorgDepth = 2
  MaxReorgs = 2
  LastReorgHeight = 4
  MaxBlocksBetweenPasses = 2
  MaxBlocksMidPass = 1
  MaxCrashes = 1
  PruningEnabled = TRUE
  PruneNBlocksAway = 3
  PruneInterval = 60
  PassDurations <- QuickOrSlow
  MinConfirmationCount = 2
  BlocksPerBatch = 2
INVARIANTS
  TypeOK
  BlockAtomic
  MirrorsServedBlock
PROPERTIES
  ReorgRowsAreReal
  ConfirmationMirrorsProvider
  ChangesAnnounced
  PruningRetainsRecent
