SPECIFICATION FairSpec
CONSTANTS
  h1 = h1
  h2 = h2
  Threads = {h1, h2}
  Chunks = 2
  ChunkSize = 3
  BlockSize = 2
  Lookback = 0
  MaxSlices = 2
  Ranges <- SmallRanges
  MaxWrites = 3
  Faults = {"slice", "timeout", "cancel"}
INVARIANTS TypeOK LastWriteWins SlicesAttended
PROPERTIES CommitsInOrder Drains
