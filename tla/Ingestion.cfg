\* Two account syncs that may overlap, one reader, one change of the book; and
\* three runs of two price jobs over four days.
SPECIFICATION IngestionSpec
CONSTANTS
  BrokerTickers = {a, b}
  Sessions = {s1, s2}
  NoSession = NoSession
  Requests = {r1}
  MaxTrades = 1
  j1 = j1
  j2 = j2
  Slots = {j1, j2}
  KindsOf <- KindsOfRuns
  Universe <- TwoTickers
  ProtectedTickers <- OneProtected
  Lookback = 1
  BootstrapDays = 3
  StaleAfter = 1
  FirstBar = 3
  FirstDay = 4
  LastDay = 7
  MaxUnread = 1
  MaxRuns = 3
  NumInstruments = 3
SYMMETRY Symmetry
INVARIANTS
  SnapshotsTypeOK
  HeldTogether
  WholeSync
  Supersedes
  SuccessIsStored
  HolesHaveCause
  LookbackHeals
  DuplicateHasCause
PROPERTIES
  FreshIsTrue
  CountedIsStored
CHECK_DEADLOCK FALSE
