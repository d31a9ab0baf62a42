SPECIFICATION Spec
CONSTANTS
  Base = 2
  MaxGroups = 4
  Modulus = 16
  Packets <- SomePackets
  MaxPackets = 2
  MaxPipes = 0
  MaxReadSize = 5
INVARIANTS
  ConformingPeerStaysConnected
CHECK_DEADLOCK FALSE
