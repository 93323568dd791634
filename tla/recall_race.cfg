SPECIFICATION Spec
CONSTANTS
  Chat = {alice, bob}
  Label = {}
  Peer = {}
  MsgId = {m1, m2, m3}
  BlobId = {}
  Sha = {}
  Thread = {t1, t2}
  Main = main
  None = None
  Workload = {"send", "read", "unsend", "edit"}
  Apart = {}
  MaxTo = 1
  MaxBlobs = 0
  Exposed <- Everyone
  PageSize = 2
  Window = FALSE
  MaxBoots = 1
  MaxServed = 3
SYMMETRY Symmetry
PROPERTIES
  ReadIsFinal
