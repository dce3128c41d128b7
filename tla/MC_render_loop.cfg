SPECIFICATION FairSpec
CONSTANTS
  Threads = {t1, t2}
  Renderer = t1
  Values = {1, 2, 3}
  BadValues = {2}
  CleanUpInBlock = FALSE
  Concurrent = FALSE
  MaxSets = 4
CHECK_DEADLOCK FALSE
INVARIANTS
  TypeOK
  Redrawn
  CreatorsAreCleanedUp
  OneLoopAtATime
PROPERTY RenderingEnds
