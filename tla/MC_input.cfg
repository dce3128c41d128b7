SPECIFICATION FairSpec
CONSTANTS
  Letters = {a, b}
  MaxLen = 3
  Texts <- ShortTexts
  Undefined = undefined
  MaxTyped = 2
  MaxWrites = 1
CHECK_DEADLOCK FALSE
INVARIANTS
  TypeOK
  Agrees
PROPERTIES
  KeystrokesArrive
  AgreesAgain
