\* Components of the terminal interface, each in a small instance of its own.
CONSTANTS
  Part = {"transcript", "output", "replies", "approvals", "composer", "cards", "stream", "agents",
          "status"}
  Main = "main"
  Source = {"main"}
  c1 = c1
  Call = {c1}
  MaxBlocks = 4
  MaxTurnsSeen = 2
  MaxClears = 1
  Backpressure = FALSE
  Heights = {3, 5}
  Skips = 1
  Recovers = 1
  StallTicks = 1
  MaxBehind = 3
  MaxReplies = 1
  MaxChangesSeen = 2
  MaxTicks = 2
  MaxCodes = 3
  Host = {m, w}
  Tool = {x, y}
  MaxActions = 2
  MaxRaised = 2
  MaxPicks = 1
  MaxUnready = 1
  MaxMoves = 1
  Letter = {"a", "["}
  Payload <- PasteTexts
  MaxText = 7
  MaxPastes = 2
  MaxEdits = 2
  MaxSent = 1
  Straddling = FALSE
  TaskCall = {k1}
  RowName = {"Scout"}
  MaxItems = 2
  MaxTaskRuns = 2
  MaxOthers = 1
  Agent = {g1, g2}
  MaxCalls = 3
  MaxParallel = 2
  MaxPieces = 1
  MaxAborts = 1
  MaxWorkers = 3
  MaxNews = 3
  MaxKeys = 3
  Abandoned = {2}
  Place = {p1, p2}
  FirstPlace = p1
  p1 = p1
  p2 = p2
  Folder = {f1, f2}
  FirstFolder = f1
  f1 = f1
  f2 = f2
  Configured = {{"git"}, {"session"}, {"pr"}, {"tokens"}}
  Layouts <- RowLayouts
  Columns = {9, 30, 60, 100}
  CellsOf <- SegmentCells
  Divider = 3
  GaugeCells = 24
  BoxFrom = 100
  MaxReads = 2
  MaxPlaceMoves = 2
  MaxDrifts = 1
  MaxCounted = 1
SPECIFICATION Spec
INVARIANTS TypeOK ScreenSound InputSound CardsSound
CHECK_DEADLOCK FALSE
