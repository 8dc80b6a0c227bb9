\* One position bought on the first date and held.
SPECIFICATION BacktestSpec
CONSTANTS
  x = x
  Listing <- OneListed
  Foreign = {x}
  Quotes = {500, 501}
  Capital = 10000
  MaxPositions = 1
  WeightCap <- Quarter
  CostModel <- DefaultCosts
  Frequency = "monthly"
  MonthLength = 30
  LastBar = 2
INVARIANT HonestAfterCosts
CHECK_DEADLOCK FALSE
