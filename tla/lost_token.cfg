SPECIFICATION Spec
CONSTANTS
  Host = {here, there}
  Chat = {alice}
  Alias = {x, y}
  Thread = {t1, t2}
  None = None
  MaxCalls = 4
  MaxBoots = 0
SYMMETRY Symmetry
INVARIANT
  TokensSaved
