\* A run interrupted by a message while its turn is opening or closing.
CONSTANTS
  a = a  m1 = m1  Main = Main  Nobody = Nobody
  Run = {a}
  Msg = {m1}
  Advisor = {}
  MaxConcurrency = 1
  MaxLiveRuns = 2
  MaxDepth = 1
  QueueLimit = 2
  Budget = 1
  Grace = 1
  Deadlines = FALSE
  Aborting = FALSE
  Branching = FALSE
  MaxStarts = 1
SPECIFICATION Spec
INVARIANT InterruptSteers
CHECK_DEADLOCK FALSE
