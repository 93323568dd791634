SPECIFICATION Spec
CONSTANTS
  Chat = {alice, bob}
  Label = {}
  Peer = {}
  MsgId = {m1, m2}
  BlobId = {b1, b2, b3}
  Sha = {s1}
  Thread = {t1, t2}
  Main = main
  None = None
  Workload = {"upload", "retain"}
  Apart = {}
  MaxTo = 1
  MaxBlobs = 0
  Exposed <- Everyone
  PageSize = 2
  Window = FALSE
  MaxBoots = 1
  MaxServed = 3
SYMMETRY Symmetry
INVARIANTS
  BytesKept
