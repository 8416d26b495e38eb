CONSTANTS
  Worker = {}
  AutoCompact = TRUE
  Overlaps = TRUE
  MaxMessages = 2
  MaxEntries = 4
  MaxSubmissions = 2
  MaxCrashes = 0
SPECIFICATION Spec
CHECK_DEADLOCK FALSE
INVARIANTS
  ClearedStaysCleared
