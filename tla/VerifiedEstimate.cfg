CONSTANTS
  Editors = {e1}
  Import <- SomeImport
  Reported <- NoneReported
  Sizes = {"36in", "30in"}
  MaxEdits = 3
  MaxRevisions = 3
  MaxClient = 1
  MaxInFlight = 2
  None = None
SPECIFICATION Spec
SYMMETRY Symmetry
CHECK_DEADLOCK FALSE
INVARIANT VerifiedIsMeasured
