SPECIFICATION Spec
CONSTANTS
  Main = Main
  Side = Side
  ChainIds = {Main}
  ContractAddresses <- MainToken
  Events <- AliceEvents
  StateTables <- OnlyBalances
  KindOf <- Kinds
  MaxBlockNumber = 3
  MaxReorgs = 1
  MaxCrashes = 0
  MaxPrunes = 1
  MinConfirmationCount = 2
  BlocksPerBatch = 2
CHECK_DEADLOCK FALSE
INVARIANTS
  ViewIsNewestVersion
