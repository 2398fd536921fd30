SPECIFICATION Spec
CONSTANTS
  e1 = e1
  e2 = e2
  d1 = d1
  d2 = d2
  Endpoints = {e1, e2}
  ChainId = ChainId
  OtherHash = OtherHash
  Empty = Empty
  NaN = NaN
  Networks <- MCNetworks
  Requests = {r1}
  MaxRound = 2
  MaxFaults = 0
  MaxAttempts = 2
  Enums = {enum1, enum2}
  MaxCleanFaults = 2
  DictionaryEndpoints = {d1, d2}
  NoDictionary = NoDictionary
  Situations <- MCSituations
INVARIANTS
  TypeOK
  UsedWhenReady
  DictionariesKept
  CleanWhenDone
  LeftoversRegistered
PROPERTY
  StartSettles
