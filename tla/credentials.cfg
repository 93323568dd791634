SPECIFICATION Spec
CONSTANTS
  Chat = {alice}
  Client = {c1, c2}
  Thread = {t1, t2}
  None = None
  MaxInvites = 1
  MaxSignIns = 1
  MaxLapses = 2
  MaxCalls = 3
SYMMETRY Symmetry
INVARIANTS
  GrantedOnly
  DeadIsRefused
  AliveIsServed
  ReplayFails
PROPERTIES
  DiesForAReason
