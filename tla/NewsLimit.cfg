\* One request for two tickers.
SPECIFICATION NewsSpec
CONSTANTS
  t = t
  u = u
  n1 = n1
  NewsTickers = {t, u}
  Articles = {n1}
  Site <- OneSite
  Sends <- SameNewsSent
  NewsPermits = 2
  MaxRequests = 1
INVARIANT OkMeansNoLimit
CHECK_DEADLOCK FALSE
