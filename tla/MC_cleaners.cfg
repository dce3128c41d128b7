SPECIFICATION Spec
CONSTANTS
  MaxMade = 7
  CleanersThrow = TRUE
  CleanersRedraw = FALSE
CHECK_DEADLOCK FALSE
INVARIANTS
  TypeOK
  PromisesAreKept
  NothingIsLeft
  OneRoundIsShown
