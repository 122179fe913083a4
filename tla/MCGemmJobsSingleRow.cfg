SPECIFICATION Spec
CONSTANTS
  ArraySize = 2
  InputDepth = 8
  OutputDepth = 6
  NoWord <- MCNoWord
  Shapes <- MCSingleRow
  Jobs = 1
  SettleClocks = 1
INVARIANTS
  OnlyConfiguredBeats
