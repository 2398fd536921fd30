SPECIFICATION Spec
CONSTANTS
  LastRound = 3
  TxCount <- MCTxCount
  LookupLimit = 2
  PaginationLimit = 3
  MaxFaults = 1
  Undefined = Undefined
INVARIANT HeaderHasParentHash
