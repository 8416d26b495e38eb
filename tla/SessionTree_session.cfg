CONSTANTS
  Worker = {w}
  w = w
  AutoCompact = TRUE
  Overlaps = FALSE
  MaxMessages = 3
  MaxEntries = 5
  MaxSubmissions = 3
  MaxCrashes = 1
SPECIFICATION Spec
CHECK_DEADLOCK FALSE
INVARIANTS
  ThreadMirrorsPath
  NothingLost
  ClearedStaysCleared
 
