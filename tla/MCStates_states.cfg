SPECIFICATION Spec
CONSTANTS
  Main = Main
  Side = Side
  ChainIds = {Main, Side}
  ContractAddresses <- Tokens
  Events <- BothTokens
  StateTables <- BalancesAndStakes
  KindOf <- Kinds
  MaxBlockNumber = 3
  MaxReorgs = 1
  MaxCrashes = 0
  MaxPrunes = 1
  MinConfirmationCount = 2
  BlocksPerBatch = 3
CHECK_DEADLOCK FALSE
INVARIANTS
  TypeOK
  ViewsMatchHandled
PROPERTIES
  ReorgsStayOnChain
