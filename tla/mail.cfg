SPECIFICATION Spec
CONSTANTS
  Chat = {alice, bob}
  Label = {planning}
  Peer = {}
  MsgId = {m1, m2, m3}
  BlobId = {}
  Sha = {}
  Thread = {t1, t2}
  Main = main
  None = None
  Workload = {"send", "read", "unsend", "edit", "open", "close", "revoke", "retain", "gc"}
  Apart = {}
  MaxTo = 2
  MaxBlobs = 0
  Exposed <- Everyone
  PageSize = 1
  Window = FALSE
  MaxBoots = 1
  MaxServed = 3
SYMMETRY Symmetry
INVARIANTS
  Isolation
  DeliveredAsAsked
  MailAnnounced
  ReceiptGiven
  WithdrawalAnnounced
  LabelDeclared
  NoStrandedDelivery
PROPERTIES
  ForgottenForAReason
