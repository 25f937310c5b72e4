SPECIFICATION SafetySpec
CONSTANTS
  Conn = {c1}
  NoConn = NoConn
  MaxTask = 2
  QueueSize = 2
  InCap = 2
  OutCap = 2
  EpollCtlFails = TRUE
  UnknownCmd = TRUE
INVARIANTS   TimersRight
PROPERTY ImplementsContract
