CONSTANTS
  Photos <- SomePhotos
  Requests = {q1, q2, q3}
  MaxRequests = 6
  None = None
SPECIFICATION Spec
SYMMETRY Symmetry
CHECK_DEADLOCK FALSE
INVARIANTS
  TypeOK
  ReadyMatchesObject
  RefusalHasACause
