CONSTANTS
  Events = {e1}
  Actionable = {e1}
  Endpoints = {p1}
  Remote = {p1}
  Workers = {w1, w2}
  Handlers = {h1}
  MaxRows = 3
  MaxDeliveryAttempts = 2
  MaxInterrupts = 1
  None = None
SPECIFICATION FairSpec
INVARIANTS
  TypeOK
  EveryEventIsFannedOut
  SuccessWasAcknowledged
  ActsAgainOnlyInOverlap
PROPERTY EveryEventSettles
