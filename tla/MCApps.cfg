CHECK_DEADLOCK FALSE
CONSTANTS
  Contents = {a, b}
  CoarseMax = 2
  FineMax = 2
  NThreads = 2
  PerQueue = 1
  Batch = 2
  AnchorBatch = 1
  QDepth = 1
  PoolSize = 2
  Nproc = 2
  ChunkSize = 3
  Kmin = 2
  Kmax = 2
  CenterSize = 6
  Iter = 3
  SP = 1
  SbWorkers = {w1, w2}
  RingCap = 2
  GenMax = 3
  CountMax = 3
  LcProcs = 2
  LcPerServer = 1
  LcWork = 2
  CnThreads = {1, 2}
  CnMoves = 2
  SwMaxThreads = 3
  SwMaxSwaptions = 7
SPECIFICATION Spec
INVARIANTS
  SerialResults BarriersShared ClusteringExact EventsCounted 

  
