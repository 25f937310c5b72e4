SPECIFICATION StartupSpec
CONSTANTS
  N = 2
  Tries = 2
  PROCESSES_MAX = 2
  MaxStarts = 3
  MaxForks = 3
  MaxPairs = 3
  MaxTime = 4
  MAX_RESTART_NUM = 1
INVARIANTS SocketsSound ListenersFirst ChildrenAccounted QuitRespawnsOnce
PROPERTY MasterEnds
CHECK_DEADLOCK FALSE
