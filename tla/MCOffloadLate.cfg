SPECIFICATION Spec
CONSTANTS
  NThreads = 2
  Products = 1
  Boards <- MCBoards
INVARIANTS
  FallbackDeterministic
