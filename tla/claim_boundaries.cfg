SPECIFICATION ChunkSpec
CONSTANTS
  MaxSeq = 1
  MaxSize = 2
  Sessions = {TRUE}
  MaxCrashes = 0
  MaxFaults = 1
  MinChunk = 1
  AvgChunk = 2
  MaxChunk = 3
INVARIANTS ReproducesCuts
CHECK_DEADLOCK FALSE
