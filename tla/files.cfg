SPECIFICATION Spec
CONSTANTS
  Files = {a, x}
  Layouts = {{}, {x}}
  BatchSize = 2
  Excluded = {x}
  Text = {x}
  Sessions = {TRUE, FALSE}
  MaxLen = 2
  MaxChanges = 2
  MaxCrashes = 1
  MaxFaults = 1
INVARIANTS FilesInv PresentIsSent AbsentIsForgotten ScanIsComplete PanicsOnlyOnVanished
\* No change is left, the queue is empty and the window has passed: the daemon waits.
CHECK_DEADLOCK FALSE
