\* Two runs of a job over one key.
SPECIFICATION JobsSpec
CONSTANTS
  k1 = k1
  r1 = r1
  r2 = r2
  Keys = {k1}
  RunIds = {r1, r2}
INVARIANT RerunAddsNothing
CHECK_DEADLOCK FALSE
