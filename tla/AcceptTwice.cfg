CONSTANTS
  Revisions = {r1, r2}
  Root = r1
  Savers = {e1}
  Acceptors = {a1, a2}
  None = None
SPECIFICATION Spec
SYMMETRY Symmetry
INVARIANT AtMostOneAccepted
