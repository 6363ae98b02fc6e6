SPECIFICATION FairGapSpec
CONSTANTS
  MaxSeq = 1
  MaxSize = 1
  Sessions = {TRUE}
  MaxCrashes = 1
  MaxFaults = 2
INVARIANTS GapInv GivesUpRightly
PROPERTIES GapCloses
\* Every segment is full, every crash and fault used up: the system stops.
CHECK_DEADLOCK FALSE
