\* A run cancelled before its task has run at all.
CONSTANTS
  a = a   Main = Main  Nobody = Nobody
  Run = {a}
  Msg = {}
  Advisor = {}
  MaxConcurrency = 1
  MaxLiveRuns = 2
  MaxDepth = 1
  QueueLimit = 2
  Budget = 1
  Grace = 1
  Deadlines = FALSE
  Aborting = TRUE
  Branching = FALSE
  MaxStarts = 1
SPECIFICATION Spec
INVARIANT AbortedTaskSettles
CHECK_DEADLOCK FALSE
