SPECIFICATION Spec
CONSTANTS
  SingleCapacity = 3
  Addr = {a1, a2, a3, a4, a5, a6}
  NoAddr = NoAddr
  Pipes = {p1}
  Sizes = {1}
  Room = 4
  MaxPackets = 3
  MaxEdits = 0
INVARIANTS
  StreamReachesSocket
CHECK_DEADLOCK FALSE
