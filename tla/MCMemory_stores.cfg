SPECIFICATION MemorySpec
CONSTANTS
  HDR = 1
  Arena = 14
  MinSize = 2
  MaxSize = 8
  Factor = 2
  LINK = 1
  ItemMin = 1
  ItemMax = 4
  SlabFactor = 1
  MgrSize = 2
  W = 64
  Sizes = {1, 2, 4}
  PoolSize = 10
  POOL_T = 4
  POOL_DATA_T = 2
  LARGE_T = 2
  ALIGN = 2
  AllocSizes = {1, 3}
  MaxBlocks = 2
  Node = {n1, n2, n3, n4}
  SENTINEL = SENTINEL
  MaxSizes = {1, 2}
  MinSizes = {0, 1}
  Threads = {t1, t2, t3}
  Blocks = {b1, b2}
  NB = 2
INVARIANTS StoresSound  HalfLifeSound MbSafe
PROPERTIES ImplementsHeap LockReleased
CHECK_DEADLOCK FALSE
