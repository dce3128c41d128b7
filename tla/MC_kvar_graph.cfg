SPECIFICATION ClosingSpec
CONSTANTS
  Threads = {t1}
  KVars <- Names
  ValuesOf <- Held
  InitialValues <- Start
  Listeners <- Graph
  Function <- Mappings
  Backward <- Unmappings
  Throws <- ThrowsOn
  Settable = {"a", "b", "c", "p"}
  Closable = {"a", "b", "c", "p", "m", "n", "q"}
  Concurrent = FALSE
  MaxSets = 2
INVARIANTS
  Settled
  ToldLast
  NoneOutlives
  NoReentry
PROPERTY ClosedIsCutOff
CHECK_DEADLOCK FALSE
