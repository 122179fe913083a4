SPECIFICATION Spec
CONSTANTS
  Users = {u1, u2}
  BufSize <- BufferSizes
  MaxLoads = 1
SYMMETRY UserSymmetry
INVARIANTS
  TypeOK
  NothingLeaks
  MappingsStayBacked
  InfoIsTrue
CHECK_DEADLOCK FALSE
