SPECIFICATION FairSpec
CONSTANTS
  Threads = {t1}
  MaxSends = 2
  NSockets = 2
  Capacity = 1
  MaxEvents = 0
  MaxKeepalives = 1
  MaxExpiries = 1
  HalfOpen = FALSE
CHECK_DEADLOCK FALSE
INVARIANT OpenSocketIsClosable
PROPERTIES
  NothingWaitsForever
  
  ExpiredClientReloads
