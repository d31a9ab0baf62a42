SPECIFICATION Spec
CONSTANTS
  SingleCapacity = 3
  Addr = {a1, a2, a3, a4, a5, a6}
  NoAddr = {a1, a2, a3, a4, a5, a6}
  Pipes = {p1, p2}
  Sizes = {1, 2, 4}
  Room = 4
  MaxPackets = 3
  MaxEdits = 3
INVARIANTS
  TypeOK
  PacketsConserved
  SentInOrder
  EveryByteCounted

  
CHECK_DEADLOCK FALSE
