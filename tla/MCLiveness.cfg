\* Liveness: one run, and a run with the run it spawns, with one permit; the prompt queue; an
\* MCP connection.
CONSTANTS
  a = a  b = b  m1 = m1  Main = Main  Nobody = Nobody
  Run = {a, b}
  Msg = {m1}
  Advisor = {}
  MaxConcurrency = 1
  MaxLiveRuns = 2
  MaxDepth = 2
  QueueLimit = 2
  Budget = 1
  Grace = 1
  Deadlines = TRUE
  Aborting = TRUE
  Branching = TRUE
  MaxStarts = 1
  MaxPrompts = 3
  Command = {2}
  MaxResults = 1
  MaxExits = 1
  t1 = t1
  ToolCall = {t1}
  MaxLoads = 2
  MaxOutages = 1
SPECIFICATION LiveSpec
PROPERTIES QueueServed AbortSettles QueueDrains Reconnects
CHECK_DEADLOCK FALSE
