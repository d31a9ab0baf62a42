SPECIFICATION Spec
CONSTANTS
  Conns = {c1, c2}
  Fds = {f1, f2}
  None = None
  Acceptors = {t1, t2}
  MaxEvents = 1
  MaxInbox = 1
  Blocking = {}
  Interference = {}
SYMMETRY Connections
INVARIANTS
  NoUseAfterFree
