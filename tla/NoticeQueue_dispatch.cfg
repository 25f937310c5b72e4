SPECIFICATION Spec
CONSTANTS
  p1 = p1
  p2 = p2
  Producer = {p1}
  QueueSize = 1
  QueueOf <- MCQueueOf
  PipeCap = 2
  ReadSize = 2
  MaxPush = 2
  RegisterFirst = TRUE
INVARIANT NoLostWakeup
