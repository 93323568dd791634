SPECIFICATION Spec
CONSTANTS
  Key = {alice}
  Thread = {t1, t2, t3}
  Capacity = 3
  Refill = 1
  Cost = {1, 2}
  MaxClock = 5
SYMMETRY Symmetry
INVARIANTS
  NeverOverspends
  NeverInDebt
