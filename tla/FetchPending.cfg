SPECIFICATION Spec
CONSTANTS
  j1 = j1
  j2 = j2
  Jobs = {j1, j2}
  Batches <- GapBatches
  MaxRound = 4
  MaxFaults = 0
  MaxAttempts = 3
  Hashes <- MCHashes
  Hash <- MCHash
  NoBlock = NoBlock
  NoHash = NoHash
  NoResult = NoResult
PROPERTY WaitGivesHash
