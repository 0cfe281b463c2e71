SPECIFICATION Spec
CONSTANTS
  a = a
  b = b
  t1 = t1
  t2 = t2
  t3 = t3
  Peer = {a, b}
  Tid = {t1, t2}
  NoTid = NoTid
  NoPeer = NoPeer
  FileLen <- OneLong
  HasRemove = FALSE
  Env = {"cancel", "reject", "backpressure", "read-error", "write-error", "close-error", "channel-loss", "late-handshake"}
INVARIANTS
  TypeOK
  HeaderMatchesChunk
  FilesHaveOnePlace
PROPERTIES
  DeliversWholeFiles
  SavedIsFinal
CHECK_DEADLOCK FALSE
