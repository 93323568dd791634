SPECIFICATION Spec
CONSTANTS
  Msg = {m1, m2}
  Keep = 1
  MaxCopies = 3
  MaxFiles = 3
  None = None
SYMMETRY Symmetry
INVARIANTS
  FoldedIsKept
  OneDatabase
  LastGoodKept
PROPERTIES
  CopiedBeforeForgotten
