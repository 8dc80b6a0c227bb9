\* The orders of one intent under two requests that may overlap; small sets for each
\* of the other machines.
SPECIFICATION PlatformSpec
CONSTANTS
  x = x
  y = y
  t = t
  u = u
  n1 = n1
  n2 = n2
  n3 = n3
  Intents = {i1}
  Drafts = {d1, d2}
  Workers = {w1, w2}
  Shapes <- TwoShapes
  TargetQtys = {1}
  MaxQty = 10
  MaxNotional = 10
  IntentMaxAge = 0
  ExpireAges = {0}
  MaxTime = 1
  NoIntent = NoIntent
  Listing <- TradeOrder
  Foreign = {y}
  Quotes = {2, 3}
  Capital = 20
  MaxPositions = 2
  WeightCap <- TwoThirds
  CostModel <- Costs
  Frequency = "monthly"
  MonthLength = 2
  LastBar = 4
  TrainDays = {0, 2, 3}
  TestDays = {0, 1, 2}
  StepDays = {1, 2, 3}
  Ratios = {0, 70, 100}
  LastDate = 12
  Moves <- RuleMoves
  Positions = {3, 50, 96}
  Volumes = {0, 12, 15}
  Counts = {0, 3, 5}
  Priorities = {1, 4}
  Missing = Missing
  RegimeBand = 1
  RegimeBand5 = 2
  MomentumBand = 2
  ExtensionMove = 8
  HighPosition = 95
  LowPosition = 5
  StrongNews = 5
  StrongVolume = 15
  StrongPriority = 4
  MediumNews = 3
  MediumVolume = 12
  MaxLag = 3
  LastTarget = 8
  NewsTickers = {t, u}
  Articles = {n1, n2, n3}
  Site <- TwoSites
  Sends <- ProviderNews
  NewsPermits = 2
  MaxRequests = 2
  DaySpans = {7, 30}
  WideSpan = 30
  BriefTickers = {1, 2, 3}
  Snapshots <- FourSnapshots
  InMaster = {1, 2}
  HistoryOnly = {3}
  MirrorTags = {{}, {"HELD"}, {"RECENTLY_TRADED", "WATCHED"}}
  NewsCounts = {0, 1, 2}
  ScanLimit = 2
  NewsTop = 2
  SectionTop = 1
  UnmappedTop = 1
  GuardTickers = {t, u}
  Protected = {t}
  Keys = {n1, n2}
  RunIds = {x, y}
  Closes = {2, 4}
  SplitRatios <- TwoForOne
  Dividends = {1}
  LastSession = 2
  MaxActions = 2
SYMMETRY Symmetry
INVARIANTS
  TypeOK
  ApprovedHasTimestamp
  DraftedIffHasDraft
  OneCleanActiveDraft
  ConfidenceIsEarned
  LimitsAreTold
  ArticlesOnce
  PagesOwnUp
  HistoryAgrees
  ProductionIsDeclared
  RunRowTells
  RerunIsSafe
  WindowsAgree
PROPERTIES
  SettledStaysSettled
  LifecycleSpec
  NavIsEarned
  OverdraftIsCosts
CHECK_DEADLOCK FALSE
