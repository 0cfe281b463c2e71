SPECIFICATION FairSpec
CONSTANTS
  a = a
  b = b
  Peer = {a, b}
  MaxChannels = 2
  MaxCleanups = 1
  MaxChats <- TwoAndNone
INVARIANTS
  TypeOK
  KeyExchangeFirst
  RefusedForAReason
PROPERTIES
  DeliversInOrder
  HandshakeCompletes
CHECK_DEADLOCK FALSE
