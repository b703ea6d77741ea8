INIT Init
NEXT Next
CONSTANTS
  Callers = {r1, r2, r3}
  BusSessions = {s1}
  Nobody = Nobody
  MaxMessages = 9
  MaxLoadedRounds = 2
  MaxWindowRounds = 3
  MinRecentRounds = 1
  Chats = {c1}
  Distillers = {sweeper, backlog}
  Summaries = {e1}
  Statements = {t1, t2}
  Keys = {k1}
  MaxAttempts = 1
  Absent = Absent
  People = {u1, u2}
  Erasable = {u1}
  NoOwner = NoOwner
  MaxLines = 1
  Names = {u1, u2}
  Unclaimed = Unclaimed
  Logins = {l1, l2}
  LoginLimit = 1
  MaxRequests = 1
  Fetches = {f1, f2}
  Lookups = {k1}
  Sources = 2
  MaxVersion = 2
  Nothing = Nothing
  Threads = {t1, t2}
  Feeds = 2
  MaxLinks = 2
  Free = Free
  Owners = {u1}
  Labels = {n1, n2}
  Writers = {w1, w2}
  MaxConfigs = 2
  MaxEdits = 2
  MaxSecond = 0
  NoConfig = NoConfig
  Dialogs = {d1, d2}
  Asks = {q1, q2}
  NoDialog = NoDialog
  MaxSends = 2
  TracedRuns = {q1, q2}
  MaxEmits = 2
  SpanTasks = {k1, k2}
  MainTask = m0
  MaxSpans = 3
  MaxBlocks = 2
  NoTrace = NoTrace
  Residents = {quote, help}
  ShelfCaps = {0, 1, 2, 3, 4}
  Lazies = {spawn, web, kline, funds}
  Spawn = spawn
  Companions = {web}
  MaxActivations = 5
  GuardCalls = {1, 2, 3, 4}
  Prints = {p1, p2}
  RepeatLimit = 3
  Loops = {l1, l2}
  Talks = {c1, c2}
  MaxTalks = 1
  Reports = {1, 2}
  Desks = {d1}
  Topics = {t1, t2}
  Bodies = {b1, b2}
  TornBody = TornBody
  NoBody = NoBody
  Jobs = {1, 2, 3}
  Data = {a, b}
  MaxEntries = 2
  MaxCites = 3
  PlanSteps = {1}
  MaxPlans = 2
  MaxRounds = 3
  MaxMishaps = 1
  MaxDays = 5
  MinRows = 3
  MaxDepth = 3
  MaxWindow = 3
  MaxTrials = 1
  PoolAsks <- MCPoolAsks
  ValuationAsks <- MCValuationAsks
  Scores = {1, 2}
  Stocks = {k1, k2, k3}
  MaxStocks = 3
  Groups = 2
  Rebalance = 2
  NewsEvery = 2
  Missing = Missing
  Budgets = {3, 6}
  Default = 9
  TrimRows = 2
  ColumnCap = 2
  GroupRows = 2
  Stretch = 2
  MaxTableRows = 3
INVARIANTS
  PartsTypeOK
  HistoryIsAccountedFor
  MemoriesMatchTheirSource
  PurgeIsExact
  LegacyDataArrives
  RowsMatchFiles
  RefusalsHaveCause
  ServedIsCurrent
  PanelTellsTheTurn
  MessagesAreOfTheShown
  TraceTellsTheRun
  CallsAreRememberedTrue
  SubAgentsAreReportedTrue
  ResearchIsKept
  BacktestIsHonest
  ResultsTellTheirExtent
PROPERTIES
  AnswersReachTheirWaiters
CHECK_DEADLOCK FALSE
