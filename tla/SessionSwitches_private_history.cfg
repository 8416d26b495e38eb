\* history_model is looked at when an agent is built for the first prompt only.
CONSTANTS
  Provider = {"p", "q"}
  MaxSessions = 2
  MaxSeeds = 2
  MaxAnswers = 2
  MaxCommands = 1
  MaxCrashes = 0
  Accidents = TRUE
SPECIFICATION SwitchSpec
INVARIANT HistoryFits
CHECK_DEADLOCK FALSE
