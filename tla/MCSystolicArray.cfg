SPECIFICATION Spec
CONSTANTS
  ArrayRows = 2
  ArrayCols = 3
  Features <- MCFeatures
  Weights <- MCWeights
  Rows <- MCRows
  Tiles <- MCTiles
  Bubble <- MCBubble
  NoTile <- MCNoTile
INVARIANTS
  TypeOK
  PartialSumsExact
