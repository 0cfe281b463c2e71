SPECIFICATION Spec
CONSTANTS
  a = a
  b = b
  s1 = s1
  s2 = s2
  s3 = s3
  Peer = {a, b}
  Socket = {s1, s2, s3}
  MaxFaults = 2
  NoPeer = NoPeer
  NoSocket = NoSocket
  MAX_PEERS = 4
SYMMETRY PageSymmetry
INVARIANTS
  TypeOK
  OneSocketPerPeer
  ConnectedIsListed
  RegistryIsCurrent
  ViewsConverge
CHECK_DEADLOCK FALSE
