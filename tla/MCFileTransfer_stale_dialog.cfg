SPECIFICATION Spec
CONSTANTS
  a = a
  b = b
  t1 = t1
  t2 = t2
  t3 = t3
  Peer = {a, b}
  Tid = {t1}
  NoTid = NoTid
  NoPeer = NoPeer
  FileLen <- OneLong
  HasRemove = TRUE
  Env = {"cancel"}
SYMMETRY PeerSymmetry
INVARIANTS
  NoPartialLeft
CHECK_DEADLOCK FALSE
