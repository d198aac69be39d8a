CONSTANTS
  Openings = {o1}
  Values = {v1, v2}
  Requests = {q1, q2}
  MaxRequests = 5
  None = None
SPECIFICATION Spec
SYMMETRY Symmetry
CHECK_DEADLOCK FALSE
INVARIANTS
  TypeOK
  DisplayIsRecent
  VerifiedIsBacked
  NeverGrantedMeansNone
