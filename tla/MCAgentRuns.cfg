\* One run with everything that can happen to it; a run and the run it spawns: cascades, blocking
\* children, one permit.
CONSTANTS
  a = a  b = b  m1 = m1  m2 = m2  m3 = m3  Main = Main  Nobody = Nobody
  Run = {a, b}
  Msg = {m1, m2, m3}
  Advisor = {}
  MaxConcurrency = 1
  MaxLiveRuns = 2
  MaxDepth = 2
  QueueLimit = 2
  Budget = 1
  Grace = 1
  Deadlines = TRUE
  Aborting = TRUE
  Branching = TRUE
  MaxStarts = 2
SPECIFICATION ScenarioSpec
INVARIANTS TypeOK TurnsBounded BudgetDescends OneLoop ResultOnce ReasonFirst DeadlineArmed
  NoSilentLoss
PROPERTIES FinalStays NoTurnAfterEnd
SYMMETRY AnyText
CHECK_DEADLOCK FALSE
