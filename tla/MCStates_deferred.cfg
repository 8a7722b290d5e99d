SPECIFICATION FairSpec
CONSTANTS
  Main = Main
  Side = Side
  ChainIds = {Main, Side}
  ContractAddresses <- Tokens
  Events <- BalanceAndSupply
  StateTables <- BalancesAndSupply
  KindOf <- Kinds
  MaxBlockNumber = 3
  MaxReorgs = 0
  MaxCrashes = 1
  MaxPrunes = 1
  MinConfirmationCount = 2
  BlocksPerBatch = 2
CHECK_DEADLOCK FALSE
INVARIANTS
  ViewsMatchHandled
  DeferredMutationsKept
PROPERTIES
  DeferredEventuallyApplied
