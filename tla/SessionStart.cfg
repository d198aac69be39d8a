CONSTANTS
  Keys = {k1, k2}
  Bodies = {b1, b2}
  Requests = {q1, q2}
  Tokens = {t1}
  Devices = {d1, d2}
  MaxSessions = 3
  MaxFailures = 2
  None = None
  NotFound = NotFound
SPECIFICATION Spec
SYMMETRY Symmetry
INVARIANTS
  TypeOK
  AnswersAgree
  DuplicateNeedsLateFailure
  OneDevicePerToken
