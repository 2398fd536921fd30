SPECIFICATION Spec
CONSTANTS
  j1 = j1
  j2 = j2
  Jobs = {j1, j2}
  Batches <- GapBatches
  MaxRound = 4
  MaxFaults = 1
  MaxAttempts = 4
  Hashes <- MCHashes
  Hash <- MCHash
  NoBlock = NoBlock
  NoHash = NoHash
  NoResult = NoResult
INVARIANTS
  TypeOK
  WaitsForPendingRound
  AttemptsBounded
  DeliveredAsAsked
  ExclusiveBlocks
PROPERTIES
  EveryJobAnswered
  ImplementsBlockFeed
