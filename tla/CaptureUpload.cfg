CONSTANTS
  one = one
  two = two
  twoToo = twoToo
  three = three
  Versions = {one, two, twoToo, three}
  PartsOf <- Sizes
  MaxParts = 3
  Requests = {q1, q2}
  MaxAttempts = 3
  None = None
SPECIFICATION Spec
SYMMETRY Symmetry
CHECK_DEADLOCK FALSE
INVARIANTS
  TypeOK
  UploadedWasHeldWhole
  MismatchHasACause
