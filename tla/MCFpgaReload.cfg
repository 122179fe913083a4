SPECIFICATION Spec
CONSTANTS
  a1 = a1
  a2 = a2
  t1 = t1
  t2 = t2
  ArraySize = 2
  PoolSize = 6
  Align = 2
  Addresses = {a1, a2}
  Tensors = {t1, t2}
  BufferDepth = 6
  WindowSize = 6
  RowLimit = 4
  BlockLimit = 3
  Requests <- TwoRequests
  MaxCalls = 2
  Faults = {}
  ReloadAnytime = TRUE
INVARIANT
  ProductIsOwn
CHECK_DEADLOCK FALSE
