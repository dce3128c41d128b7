SPECIFICATION Spec
CONSTANTS
  Threads = {t1}
  MaxSends = 0
  NSockets = 2
  Capacity = 1
  MaxEvents = 0
  MaxKeepalives = 0
  MaxExpiries = 0
  HalfOpen = TRUE
CHECK_DEADLOCK FALSE
INVARIANT ConnectedIsInstalled
