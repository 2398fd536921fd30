SPECIFICATION Spec
CONSTANTS
  Undefined = Undefined
  Null = Null
  NoFilter = NoFilter
  CharAt <- MCCharAt
  Handlers <- MCHandlers
  ProjectSize = 2
  Transactions <- MCTransactions
  Chains <- MCChains
INVARIANTS
  TypeOK
  NothingMissed
  NothingUseless
