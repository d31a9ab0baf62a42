SPECIFICATION FairSpec
CONSTANTS
  Conns = {c1, c2}
  Fds = {f1, f2}
  None = None
  Acceptors = {t1}
  MaxEvents = 2
  MaxInbox = 2
  Blocking = {c2}
  Interference = {"fin", "close"}
PROPERTIES
  DataServed
  PeerGoneReaped
