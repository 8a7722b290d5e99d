SPECIFICATION Spec
CONSTANTS
  ChainsInOrder <- TwoChains
  StateTables <- Balances
  IngestionRate = 2
  PruneInterval = 5
  PruneNBlocksAway = 2
  MaxBlockNumber = 5
  MaxCrashes = 1
PROPERTIES
  StaleRowsPruned
