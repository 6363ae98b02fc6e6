SPECIFICATION SupervisedSpec
CONSTANTS
  MaxSeq = 1
  MaxSize = 1
  Sessions = {TRUE}
  MaxCrashes = 1
  MaxFaults = 0
PROPERTIES SealedIsAnnounced
\* Every segment is full, every crash and fault used up: the system stops.
CHECK_DEADLOCK FALSE
