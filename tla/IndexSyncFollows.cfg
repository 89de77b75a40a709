SPECIFICATION FairSpec
CONSTANTS
  TxsOf <- Mined
  FirstChain <- First
  Forks = {0, 1}
  StartHeight = 1
  MaxReorgDepth = 2
  BulkBatch = 2
  HashBatch = 3
  MaxHeight = 5
  MaxEvents = 2
  MaxRequests = 2
  None = None
INVARIANTS
  StoreIsChain
  FatalOnlyIfDeep
  ViewIsOneChain
  ServedIsIndexed
PROPERTIES
  CatchesUp
CHECK_DEADLOCK FALSE
