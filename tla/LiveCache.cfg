\* Two tabs polling one endpoint; the clock spans two TTL windows.
SPECIFICATION Spec
CONSTANTS
  Clients = {c1, c2}
  Keys = {positions}
  Tasks = {t1, t2}
  Configured <- MCConfigured
  Floor <- MCFloor
  NoTask = NoTask
  NoKey = NoKey
  MaxTries = 2
  MaxTime = 4
INVARIANTS
  TypeOK
  SingleFlight
  CallsAllowed
  NoTimeTravel
PROPERTY
  EveryRequestEnds
