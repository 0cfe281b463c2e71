SPECIFICATION FairSpec
CONSTANTS
  a = a
  b = b
  t1 = t1
  t2 = t2
  t3 = t3
  Peer = {a, b}
  Tid = {t1, t2}
  NoTid = NoTid
  NoPeer = NoPeer
  FileLen <- AllLong
  HasRemove = TRUE
  Env = {"reject", "backpressure", "write-error", "close-error"}
PROPERTIES
  SentIsSettled
  ReceiveEnds
CHECK_DEADLOCK FALSE
