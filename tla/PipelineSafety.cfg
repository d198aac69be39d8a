CONSTANTS
  Sessions = {s1}
  Workers = {w1, w2}
  Requests = {q1, q2}
  Runs = {r1, r2}
  Contents = {good, blank}
  Verifiable = {good, blank}
  Readable = {good}
  Reportable <- EveryReport
  Driver = "fs"
  Files = 2
  MaxCaptures = 1
  MaxAttempts = 2
  MaxFaults = 2
  MaxCrashes = 1
  Torn = Torn
  None = None
SPECIFICATION Spec
SYMMETRY Symmetry
INVARIANTS
  TypeOK
  AtMostOnePlan
  PlanIsLinked
  NoEventBeforeCommit
  PlanIsFromVerifiedBytes
  OneWorkerPerJob
  SubmittedOnce
  SucceededJobSettledSession
PROPERTIES
  RawIsImmutable
  ImplementsLifecycle
