SPECIFICATION Spec
CONSTANTS
  Msg = {m1, m2}
  Keep = 1
  MaxCopies = 2
  MaxFiles = 2
  None = None
SYMMETRY Symmetry
INVARIANTS
  NothingDeleted
