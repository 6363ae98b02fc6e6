SPECIFICATION FairSpec
CONSTANTS
  MaxSeq = 2
  MaxSize = 1
  Sessions = {TRUE}
  MaxCrashes = 1
  MaxFaults = 0
INVARIANTS TypeOK LedgerCovered SealedIsFinal NoneLeftBelow
PROPERTIES CreatedSealsLower
\* Every segment is full, every crash used up: the system stops.
CHECK_DEADLOCK FALSE
