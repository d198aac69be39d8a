CONSTANTS
  Sessions = {s1}
  Workers = {w1, w2}
  Requests = {q1}
  Runs = {r1, r2}
  Contents = {good, broken}
  Verifiable = {good}
  Readable = {good}
  Reportable <- ClientReports
  Driver = "fs"
  Files = 2
  MaxCaptures = 2
  MaxAttempts = 2
  MaxFaults = 1
  MaxCrashes = 0
  Torn = Torn
  None = None
SPECIFICATION FairSpec
PROPERTY EverySubmissionSettles
