CONSTANTS
  Worker = {w}
  w = w
  AutoCompact = FALSE
  Overlaps = FALSE
  MaxMessages = 2
  MaxEntries = 4
  MaxSubmissions = 2
  MaxCrashes = 0
SPECIFICATION Spec
CHECK_DEADLOCK FALSE
PROPERTY
  FailedResetRestores
