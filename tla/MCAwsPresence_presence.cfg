SPECIFICATION FairSpec
CONSTANTS
  p1 = p1
  p2 = p2
  c1 = c1
  c2 = c2
  Peer = {p1, p2}
  Conn = {c1, c2}
  Pages <- OneOrTwo
  NoPeer = NoPeer
  NoConn = NoConn
INVARIANTS
  TypeOK
  OnlineIsReachable
  OneIsTold
PROPERTIES
  NoGhosts
CHECK_DEADLOCK FALSE
