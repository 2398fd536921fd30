SPECIFICATION Spec
CONSTANTS
  Undefined = Undefined
  Null = Null
  NoFilter = NoFilter
  CharAt <- MCCharAt
  Manifests <- DocumentedManifests
  Transactions <- MCTransactions
INVARIANT DocumentedFiltersAccepted
