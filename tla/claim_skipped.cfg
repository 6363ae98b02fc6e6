SPECIFICATION FairSpec
CONSTANTS
  MaxSeq = 2
  MaxSize = 1
  Sessions = {TRUE}
  MaxCrashes = 0
  MaxFaults = 0
PROPERTIES SkippedIsHandled
\* Every segment is full, every crash and fault used up: the system stops.
CHECK_DEADLOCK FALSE
