SPECIFICATION Spec
CONSTANTS
  DataWidth = 3
  RowIndexWidth = 1
  AccumWidth = 8
  ArrayRows = 2
  MaxKBlocks = 3
  MaxShift = 10
  Pow2 <- MCPow2
CHECK_DEADLOCK FALSE
INVARIANTS
  TypeOK
  ExactDotProduct
  ResultRounded
