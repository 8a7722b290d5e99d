SPECIFICATION FairSpec
CONSTANTS
  Main = Main
  Side = Side
  ChainIds = {Main, Side}
  ContractAddresses <- BothPools
  Id <- MCId
  ChunkSize = 1
  Events <- TwoPools
  PureAbis <- MCPureAbis
  SideEffectAbis <- NoAbis
  StateTables <- NoTables
  TableOf <- MCTableOf
  MaxBlockNumber = 2
  MaxReorgs = 2
  MaxCrashes = 1
  MinConfirmationCount = 2
  BlocksPerBatch = 4
PROPERTIES
  ReorgsEventuallyHandled
