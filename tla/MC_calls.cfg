SPECIFICATION FairSpec
CONSTANTS
  Bodies = {b1, b2}
  Quotable = {b1}
  Threads = {t1, t2}
  PageThread = t1
  Concurrent = FALSE
  Throws = TRUE
  LongTrip = TRUE
  MaxRecorded = 2
  MaxCalls = 3
CHECK_DEADLOCK FALSE
INVARIANTS
  TypeOK
  FunctionsAreThere
  PageComesAlive
PROPERTY ResultArrives
