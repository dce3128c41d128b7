SPECIFICATION Spec
CONSTANTS
  Threads = {t1, t2}
  MaxSends = 1
  NSockets = 3
  Capacity = 2
  MaxEvents = 2
  MaxKeepalives = 0
  MaxExpiries = 0
  HalfOpen = FALSE
CHECK_DEADLOCK FALSE
INVARIANTS
  ConnectedIsInstalled
  ReadOnlyOnce
  ReadCachingIsInHandOff
  EventsInOrder
SYMMETRY ThreadSymmetry
