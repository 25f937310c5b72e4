SPECIFICATION Spec
CONSTANTS
  p1 = p1
  p2 = p2
  Producer = {p1, p2}
  QueueSize = 2
  QueueOf <- MCQueueOf
  PipeCap = 3
  ReadSize = 2
  MaxPush = 3
  RegisterFirst = FALSE
INVARIANT NoLostWakeup
PROPERTY DeliversEveryTask
