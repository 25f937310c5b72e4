SPECIFICATION Spec
CONSTANTS
  Conn = {c1}
  NoConn = NoConn
  MaxTask = 2
  QueueSize = 2
  InCap = 1
  OutCap = 1
  EpollCtlFails = FALSE
  UnknownCmd = TRUE
INVARIANT AnswersArmed
PROPERTIES  ReadingResumes
