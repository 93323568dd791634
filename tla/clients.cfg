SPECIFICATION FairSpec
CONSTANTS
  Id = {1, 2, 3, 4}
  Mine = {1, 3}
  ToMe = {1, 2}
  Limit = 1
  None = None
  Together <- Pairs
  PageSize = 1
  MaxLost = 2
  MaxDies = 1
CHECK_DEADLOCK FALSE
INVARIANTS
  WalkComplete
PROPERTIES
  EventuallyShown
  EveryMessageLogged
