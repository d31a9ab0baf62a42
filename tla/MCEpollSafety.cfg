SPECIFICATION Spec
CONSTANTS
  Conns = {c1, c2, c3}
  Fds = {f1, f2}
  None = None
  Acceptors = {t1}
  MaxEvents = 2
  MaxInbox = 1
  Blocking = {c3}
  Interference = {"fin", "close"}
SYMMETRY Connections
INVARIANTS
  TypeOK
  NoUseAfterFree
  DescriptorOwnership
