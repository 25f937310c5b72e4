SPECIFICATION CsSpec
CONSTANTS
  k1 = k1
  k2 = k2
  k3 = k3
  Slot = {1, 2}
  Client = {k1, k2, k3}
  NoFd = NoFd
  nevents = 2
INVARIANTS ConnectionsAgree PostedForItsConn
PROPERTY BacklogServed
