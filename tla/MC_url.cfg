SPECIFICATION UrlFairSpec
CONSTANTS
  Threads = {t1}
  Paths = {home, away}
  Queries = {"none", "some"}
  Redirects = FALSE
  KVars <- UrlKVars
  ValuesOf <- UrlValues
  InitialValues <- UrlInitialValues
  Listeners <- UrlListeners
  Function <- UrlFunction
  Backward <- UrlBackward
  Throws <- UrlThrows
  Settable = {}
  Closable = {}
  Concurrent = FALSE
  MaxSets = 3
CHECK_DEADLOCK FALSE
INVARIANTS
  UrlTypeOK
  UrlAgrees
PROPERTIES
  PopstatesAreNotPushed
  PageFollows
