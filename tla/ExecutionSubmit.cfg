\* Submitting a draft that is approved and passes every check.
SPECIFICATION Spec
CONSTANTS
  Intents = {i1}
  Drafts = {d1}
  Workers = {w1}
  Shapes <- MCOneShape
  TargetQtys = {1}
  MaxQty = 10
  MaxNotional = 10
  IntentMaxAge = 1
  ExpireAges = {1}
  MaxTime = 2
  NoIntent = NoIntent
PROPERTY
  CleanApprovedSubmits
