\* One call on the representation of every number or pair of numbers.
CONSTANTS
  DECDPUN = 2
  DECNUMDIGITS = 69
  MaxDigits = 8
  MaxCalls = 1
  Numbers <- MCNumbers
  Contexts <- MCContexts
  Operations <- MCOperations
  Settings = {}
  Kinds = {}
  Strings = {}
  Numerals <- MCNumerals
  Texts = {}
SPECIFICATION MCSpec
CHECK_DEADLOCK FALSE
INVARIANTS
  OrderIsExact
  NextIsNeighbour
  NormalizeIsCanonical
  DigitsAreMoved
  ScaleBIsRounded
  LogicalIsDigitwise
  ToIntegralIsRounded
  FMAIsFused
  StringIsRounded
  StringRoundTrip
  TextFitsBuffer
  ClassMatchesPlus
