SPECIFICATION FairSpec
CONSTANTS
  Paths <- AllPaths
  Dirs <- AllDirs
  Matching <- MatchingFiles
  Existing <- Trees
  Loads <- DirAndFile
  Busy <- MatchingFiles
  MaxInputs = 3
  MaxEvents = 1
  MaxStops = 1
  WatcherMayFail = TRUE
CHECK_DEADLOCK FALSE
INVARIANTS
  ClientInSync
  OnlyRequestedFiles
PROPERTIES
  ChangesAreProcessed
  StopReturns
