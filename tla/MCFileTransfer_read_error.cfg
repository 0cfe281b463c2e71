SPECIFICATION FairSpec
CONSTANTS
  a = a
  b = b
  t1 = t1
  t2 = t2
  t3 = t3
  Peer = {a, b}
  Tid = {t1}
  NoTid = NoTid
  NoPeer = NoPeer
  FileLen <- OneLong
  HasRemove = TRUE
  Env = {"read-error"}
PROPERTIES
  ReceiveEnds
CHECK_DEADLOCK FALSE
