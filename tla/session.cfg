\* A thread's script of up to MaxCalls calls, contexts changed on the way.
CONSTANTS
  DECDPUN = 3
  DECNUMDIGITS = 69
  MaxDigits = 9
  MaxCalls = 3
  Numbers <- MCNumbers
  Contexts <- MCContexts
  Operations <- MCOperations
  Settings <- MCSettings
  Kinds <- MCKinds
  Strings <- MCStrings
  Numerals <- MCTexts
  Texts <- MCTexts
SPECIFICATION Spec
CHECK_DEADLOCK FALSE
INVARIANTS
  TypeOK
  ResultFitsContext
  InexactIsFull
PROPERTIES
  NeverRaises
  StatusIsSticky
