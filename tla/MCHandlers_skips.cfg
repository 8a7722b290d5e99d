SPECIFICATION Spec
CONSTANTS
  Main = Main
  Side = Side
  ChainIds = {Main}
  ContractAddresses <- PoolAndToken
  Id <- MCId
  ChunkSize = 1
  Events <- WithToken
  PureAbis <- MCPureAbis
  SideEffectAbis <- MCSideEffectAbis
  StateTables <- Balances
  TableOf <- MCTableOf
  MaxBlockNumber = 3
  MaxReorgs = 1
  MaxCrashes = 0
  MinConfirmationCount = 2
  BlocksPerBatch = 2
INVARIANTS
  NoEventSkipped
