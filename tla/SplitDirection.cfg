SPECIFICATION AdjustedSpec
CONSTANTS
  Closes = {2, 4}
  SplitRatios <- TwoForOne
  Dividends = {1}
  LastSession = 2
  MaxActions = 2
INVARIANT SplitIsContinuous
CHECK_DEADLOCK FALSE
