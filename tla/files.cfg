SPECIFICATION Spec
CONSTANTS
  Chat = {alice, bob}
  Label = {}
  Peer = {carol}
  MsgId = {m1, m2, m3}
  BlobId = {b1, b2, b3}
  Sha = {s1}
  Thread = {t1, t2}
  Main = main
  None = None
  Workload = {"upload", "send", "peer", "download", "retain", "poll", "read", "unsend", "edit", "revoke", "gc"}
  Apart <- Turns
  MaxTo = 1
  MaxBlobs = 1
  Exposed <- Everyone
  PageSize = 1
  Window = TRUE
  MaxBoots = 2
  MaxServed = 3
SYMMETRY Symmetry
INVARIANTS
  TypeOK
  AttachedAsAsked
  OwnAttachments
  BytesKept
  ServedWhole
  NoStrandedAttachment
PROPERTIES
  NewEventsAreAhead
  NothingSkipped
  LadderUp
  ReadIsFinal
  KeepsContract
