SPECIFICATION Spec
CONSTANTS
  a = a
  b = b
  Peer = {a, b}
  MaxConnections = 4
  MaxDrops = 1
  MaxBreaks = 1
INVARIANTS
  TypeOK
  ChannelsPair
  Recoverable
  NoneStuck
  RecordsMeet
  AnswerMeetsItsOffer
SYMMETRY PeerSymmetry
CHECK_DEADLOCK FALSE
