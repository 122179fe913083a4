SPECIFICATION FairSpec
CONSTANTS
  NThreads = 3
  Products = 2
  Boards <- MCBoards
INVARIANTS
  TypeOK
  ProductsRight
  ThreadsTogether
  IInv
PROPERTIES
  AllThreadsFinish
