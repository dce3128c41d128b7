SPECIFICATION Spec
CONSTANTS
  Threads = {t1}
  MaxSends = 2
  NSockets = 3
  Capacity = 1
  MaxEvents = 0
  MaxKeepalives = 0
  MaxExpiries = 0
  HalfOpen = TRUE
CHECK_DEADLOCK FALSE
INVARIANTS
  TypeOK
  NothingLostWhileUp
PROPERTY FeedSpec
