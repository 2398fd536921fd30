SPECIFICATION Spec
CONSTANTS
  Undefined = Undefined
  Null = Null
  NoFilter = NoFilter
  CharAt <- MCCharAt
  Projects <- UntypedProjects
  ChainBlocks <- MCBlocks
  Templates <- MCTemplates
  MaxDataSources = 1
INVARIANT FilterNeverThrows
