CONSTANTS
  Worker = {w}
  w = w
  AutoCompact = TRUE
  Overlaps = TRUE
  MaxMessages = 2
  MaxEntries = 5
  MaxSubmissions = 2
  MaxCrashes = 1
SPECIFICATION Spec
CHECK_DEADLOCK FALSE
PROPERTY
  WritersImplemented
