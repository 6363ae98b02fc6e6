SPECIFICATION SupervisedSpec
CONSTANTS
  MaxSeq = 1
  MaxSize = 2
  Sessions = {TRUE, FALSE}
  MaxCrashes = 1
  MaxFaults = 1
INVARIANTS SealsFinal IInv PlanOmitsNothing
PROPERTIES FeedSpec RestartSealsClosed NoUnseal
\* Every segment is full, every crash and fault used up: the system stops.
CHECK_DEADLOCK FALSE
