CONSTANTS
  Revisions = {r1, r2, r3, r4}
  Root = r1
  Savers = {e1, e2}
  Acceptors = {a1, a2}
  None = None
SPECIFICATION Spec
SYMMETRY Symmetry
INVARIANTS
  TypeOK
  LinearLineage
  NoLostEdit
  AuthorityPersists
PROPERTY ImplementsHistory
