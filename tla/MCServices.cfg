\* Components without common state, each in a small instance of its own.
CONSTANTS
  Part = {"hub", "queue", "compaction", "shell", "mcp", "memory", "files", "tokens", "advisor",
          "rules", "switches", "plugins", "review", "settings", "hooks", "opening", "replica",
          "logins", "pages", "usage"}
  User = User
  Nobody = Nobody
  Peer = {p}
  HubCall = {h1, h2}
  MailLimit = 2
  MaxPosts = 4
  MaxYields = 1
  MaxRestarts = 1
  MaxPrompts = 3
  Command = {2, 3}
  MaxResults = 1
  MaxExits = 1
  Threshold = 4
  KeepRecent = 2
  MaxSize = 2
  MaxSaid = 5
  MaxSummaries = 3
  ShellCall = {b1, b2, b3}
  ToolCall = {t1}
  MaxLoads = 2
  MaxOutages = 1
  MaxIds = 1
  Place = {"global", "workspace", "inner"}
  Editor = {e1, e2}
  MaxWrites = 4
  Line = {"a", "b"}
  MaxLen = 2
  MaxSnapshots = 1
  MaxChanges = 2
  Asker <- ThreeThreads
  MaxLogins = 2
  MaxAccess = 3
  MaxDeaths = 1
  MaxTurns = 3
  MaxResets = 1
  Rule = {r1, r2}
  Once = Once
  RepeatGap = {0, 1, Once}
  MaxRuleTurns = 2
  MaxFailures = 1
  MaxForgets = 1
  Provider = {"p", "q"}
  MaxSessions = 2
  MaxSeeds = 2
  MaxAnswers = 2
  MaxCommands = 3
  MaxCrashes = 1
  Accidents = FALSE
  Discovered <- CandidateLists
  KeptStates = {"b"}
  MaxLater = 2
  Diffs <- SmallDiffs
  Limits <- SmallLimits
  MaxReviewers = 2
  Dir <- SmallTree
  StartedIn <- StartDir
  Role = {"@smol", "@slow"}
  ModelName = {"default", "u", "p"}
  Users <- SmallUsers
  Projects <- SmallProjects
  Environs <- SmallEnvirons
  Argvs <- SmallArgvs
  Availabilities <- SmallOutages
  MaxStarts = 2
  MaxMoves = 1
  HookCall = {"w", "x"}
  WriteCall = {"w"}
  HookLists <- SmallHooks
  MaxMarks = 2
  MaxReruns = 1
  Opener = {o1, o2}
  OldSession = {"s", "t"}
  OldStates <- SmallOldStates
  MaxTurnsMade = 2
  MaxKills = 1
  MaxStored = 2
  MaxRemote = 2
  MaxRefusals = 2
  LoginIds = {"one", "two"}
  ModesOf <- TheModes
  BaseInterval = 1
  Backoff = 1
  Timeout = 4
  MaxRequests = 2
  LineKind <- SmallLines
  MaxLines = 4
  PageLines = 3
  HeadLines = 1
  TailLines = 1
  ByteBudget = 6
  Gutter = 1
  MaxTouched = 1
  MaxRewrites = 2
  MaxRequested = 2
  MaxReporters = 2
  MaxReports = 2
  UseSession = {1, 2}
  MaxUsed = 1
  MaxOccasions = 1
  MaxLooks = 1
SPECIFICATION Spec
INVARIANTS TypeOK HubSound PromptsAccounted CutsSound NothingLeftRunning OneConnection EditsSound
  LoginKept NothingSkipped RulesSpeakOnce HistoryReady ExtensionsSound ReviewsSound SettingsSound
  StoresSound LoginsSound
PROPERTIES SummaryFits SwitchUndone
CHECK_DEADLOCK FALSE
