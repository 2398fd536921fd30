SPECIFICATION Spec
CONSTANTS
  Undefined = Undefined
  Null = Null
  NoFilter = NoFilter
  CharAt <- MCCharAt
  Projects <- MCProjects
  ChainBlocks <- MCBlocks
  Templates <- MCTemplates
  MaxDataSources = 4
INVARIANTS
  TypeOK
  CallsExact
  DynamicHandlesApplOnly
