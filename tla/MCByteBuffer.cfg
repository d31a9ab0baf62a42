SPECIFICATION Spec
CONSTANTS
  SingleCapacity = 3
  Addr = {a1, a2, a3, a4, a5, a6}
  NoAddr = NoAddr
  Contract <- AllOps
  MaxWritten = 8
  MaxSize = 8
INVARIANTS
  TypeOK
  ChunkOwnership
  ReadableAccounting
  StreamIntact
  CallResumesInStep
PROPERTIES
  ImplementsByteQueue
CHECK_DEADLOCK FALSE
