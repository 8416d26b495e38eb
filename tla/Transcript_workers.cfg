\* A worker's turn begins and ends beside the main agent's.
CONSTANTS
  Main = "main"
  Source = {"main", "w"}
  c1 = c1
  Call = {c1}
  MaxBlocks = 5
  MaxTurnsSeen = 1
  MaxClears = 0
  Backpressure = FALSE
  Heights = {3}
SPECIFICATION TranscriptSpec
INVARIANT EventsAccepted
CHECK_DEADLOCK FALSE
