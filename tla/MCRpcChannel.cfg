CONSTANTS
  c1 = c1
  c2 = c2
  Callers <- MCCallers
  MaxId = 2
  MaxGen = 2
SPECIFICATION Spec
CONSTRAINT FirstCallIsC1
CHECK_DEADLOCK FALSE
INVARIANTS
  OwnResponse
  WaitingIsReachable
  PendingIsOwned
PROPERTIES
  KeepsPromise
  CallReturns
