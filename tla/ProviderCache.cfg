\* One permit per page; the clock spans a TTL, a budget and a call.
SPECIFICATION Spec
CONSTANTS
  a1 = a1  a2 = a2  detail = detail  A = A  mu = mu  nok = nok
  Calls = {a1, a2, detail}
  Pages = {A}
  Symbols = {mu, nok}
  NumFlights = 3
  PageOf <- MCPageOf
  SymbolOf <- MCSymbolOf
  NoPage = NoPage
  NoSymbol = NoSymbol
  Permits = 1
  Ttl = 2
  CallLimit = 1
  Budget = 2
  MaxTime = 3
CHECK_DEADLOCK FALSE
INVARIANTS
  TypeOK
  LossHasCause
  CompleteOrMarked
PROPERTIES
  FreshOrMarked
  StaleWins
  EverythingEnds
