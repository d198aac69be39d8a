CONSTANTS
  Segments <- SomeSegments
  Widths <- SomeWidths
  MaxSurfaces = 5
SPECIFICATION CaptureSpec
CHECK_DEADLOCK FALSE
INVARIANTS
  BoundaryIsTheRing
  DisplaysAgree
