SPECIFICATION FairSpec
CONSTANTS
  Base = 2
  MaxGroups = 4
  Modulus = 16
  Packets <- SomePackets
  MaxPackets = 3
  MaxPipes = 1
  MaxReadSize = 5
INVARIANTS
  TypeOK
  PacketsInOrder
  NoFalseError
  InnerPipesSeeWholeFrames
PROPERTIES
  EveryPacketHandled
CHECK_DEADLOCK FALSE
