SPECIFICATION FairSpec
CONSTANTS
  Dirs = {d, e}
  ConfigDirs = {d}
  LongNames = {e}
  Clients = {c}
  Backends = {"inotify", "fanotify"}
  MaxCommands = 3
  MaxEvents = 1
  MaxCrashes = 1
INVARIANTS DirsInv SettledAgrees ListSeesAcknowledged
PROPERTIES FiltersOnlyRemoved ListIsAnswered AddTakesEffect
