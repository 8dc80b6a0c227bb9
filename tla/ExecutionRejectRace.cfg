\* approve_draft and reject_draft overlap on one draft.
SPECIFICATION Spec
CONSTANTS
  Intents = {i1}
  Drafts = {d1}
  Workers = {w1, w2}
  Shapes <- MCOneShape
  TargetQtys = {1}
  MaxQty = 10
  MaxNotional = 10
  IntentMaxAge = 1
  ExpireAges = {1}
  MaxTime = 2
  NoIntent = NoIntent
PROPERTY
  RejectionIsFinal
