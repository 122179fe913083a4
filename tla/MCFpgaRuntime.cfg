SPECIFICATION FairSpec
CONSTANTS
  a1 = a1
  a2 = a2
  t1 = t1
  t2 = t2
  ArraySize = 2
  PoolSize = 6
  Align = 2
  Addresses = {a1, a2}
  Tensors = {t1, t2}
  BufferDepth = 6
  WindowSize = 6
  RowLimit = 4
  BlockLimit = 3
  Requests <- AllRequests
  MaxCalls = 2
  Faults <- AllFaults
  ReloadAnytime = FALSE
INVARIANTS
  TypeOK
  ProductIsOwn
  HealthyRunsDeliver
  WeightsPacked
  ChannelsFreeAtStart
PROPERTY
  EveryRunReturns
CHECK_DEADLOCK FALSE
