SPECIFICATION Spec
CONSTANTS
  Items = {a, b}
  Unrenderable = {}
  Blank = Blank
  Threads = {t1, t2}
  NoThread = NoThread
  MaxLength = 3
  MaxCalls = 2
  MaxBatch = 2
  Careless = FALSE
  RetainAll = FALSE
  EarlyCalls = FALSE
  Concurrent = FALSE
CHECK_DEADLOCK FALSE
INVARIANTS
  TypeOK
  DomShowsItems
SYMMETRY ThreadSymmetry
