SPECIFICATION Spec
CONSTANTS
  Items = {a, b}
  Unrenderable = {b}
  Blank = Blank
  Threads = {t1, t2}
  NoThread = NoThread
  MaxLength = 3
  MaxCalls = 2
  MaxBatch = 1
  Careless = TRUE
  RetainAll = TRUE
  EarlyCalls = TRUE
  Concurrent = TRUE
CHECK_DEADLOCK FALSE
INVARIANT HandlesMatchDom
SYMMETRY ThreadSymmetry
