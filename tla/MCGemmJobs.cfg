SPECIFICATION FairSpec
CONSTANTS
  ArraySize = 2
  InputDepth = 8
  OutputDepth = 6
  NoWord <- MCNoWord
  Shapes <- MCShapes
  Jobs = 2
  SettleClocks = 1
INVARIANTS
  TypeOK
  ResultBeatsExact
  NothingLeftInAccumulators
  AccumulatorReadIsFresh
  WeightsStationary
  ReplayNeverStalls
  ConfigFrozen
  StatusTruthful
  Scheduled
PROPERTIES
  ResultHeld
  ImplementsService
  EveryJobCompletes
