SPECIFICATION Spec
CONSTANTS
  a = a
  b = b
  t1 = t1
  t2 = t2
  t3 = t3
  Peer = {a, b}
  Tid = {t1, t2, t3}
  NoTid = NoTid
  NoPeer = NoPeer
  FileLen <- AllLong
  HasRemove = TRUE
  Env = {"cancel", "reject", "backpressure", "write-error", "close-error"}
SYMMETRY PeerSymmetry
INVARIANTS
  EndsAgree
  NoOrphanStream
  NoSenderStuck
CHECK_DEADLOCK FALSE
