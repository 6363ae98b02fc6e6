SPECIFICATION FairSpec
CONSTANTS
  MaxSeq = 1
  MaxSize = 2
  Sessions = {TRUE}
  MaxCrashes = 0
  MaxFaults = 0
PROPERTIES ModifiedIsHandled
\* Every segment is full, every crash and fault used up: the system stops.
CHECK_DEADLOCK FALSE
