SPECIFICATION ConnSpec
CONSTANTS
  e1 = e1
  e2 = e2
  Endpoints = {e1, e2}
  ChainId = ChainId
  OtherHash = OtherHash
  Empty = Empty
  NaN = NaN
  Networks <- MCNetworks
  Requests = {r1}
  MaxRound = 3
  MaxFaults = 2
  MaxAttempts = 3
INVARIANTS
  ConnTypeOK
  OneChain
  FinalizedExists
  ExitForCause
PROPERTIES
  RequestsEnd
  ImplementsApiService
CHECK_DEADLOCK FALSE
