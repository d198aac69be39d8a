CONSTANTS
  Editors = {e1, e2}
  Import <- SomeImport
  Reported <- NoneReported
  Sizes = {"36in"}
  MaxEdits = 2
  MaxRevisions = 3
  MaxClient = 1
  MaxInFlight = 2
  None = None
SPECIFICATION Spec
SYMMETRY Symmetry
CHECK_DEADLOCK FALSE
INVARIANTS
  PreviewIsHonest
  NoticeIsTrue
  VerifiedHasProvenance
