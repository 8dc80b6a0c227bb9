\* Everything is sold between two syncs.
SPECIFICATION SnapshotsSpec
CONSTANTS
  BrokerTickers = {a, b}
  Sessions = {s1, s2}
  NoSession = NoSession
  Requests = {r1}
  MaxTrades = 1
SYMMETRY Symmetry
CHECK_DEADLOCK FALSE
INVARIANT
  ClosedDropOut
