SPECIFICATION FairSpec
CONSTANTS
  Chat = {alice}
  Label = {}
  Peer = {carol}
  MsgId = {m1, m2, m3, m4}
  BlobId = {b1,b2,b3}
  Sha = {s1}
  Thread = {t1, t2}
  Main = main
  None = None
  Workload = {"send", "read", "peer", "archive", "inline", "retain", "poll", "revoke"}
  Apart = {}
  MaxTo = 1
  MaxBlobs = 0
  Exposed <- Everyone
  PageSize = 1
  Window = TRUE
  MaxBoots = 2
  MaxServed = 3
PROPERTIES
  EventHeard
  EveryRequestAnswered
