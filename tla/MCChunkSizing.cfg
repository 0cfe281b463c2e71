SPECIFICATION Spec
CONSTANTS
  FileSizes <- BoundaryFileSizes
  MessageSizes <- BoundaryMessageSizes
INVARIANTS
  TypeOK
  ChunksFit
  Coverage
PROPERTIES
  LoopEnds
CHECK_DEADLOCK FALSE
