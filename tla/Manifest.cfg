SPECIFICATION Spec
CONSTANTS
  Undefined = Undefined
  Null = Null
  NoFilter = NoFilter
  CharAt <- MCCharAt
  Manifests <- MCManifests
  Transactions <- MCTransactions
INVARIANTS
  TypeOK
  NothingIgnored
  LikeWithLike
  ThrowsOnlyUnchecked
