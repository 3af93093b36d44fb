\* One arithmetic call on every two operands, in every mode.
CONSTANTS
  DECDPUN = 3
  DECNUMDIGITS = 69
  MaxDigits = 9
  MaxCalls = 1
  Numbers <- MCNumbers
  Contexts <- MCContexts
  Operations <- MCOperations
  Settings = {}
  Kinds = {}
  Strings = {}
  Numerals = {}
  Texts = {}
SPECIFICATION MCSpec
CHECK_DEADLOCK FALSE
INVARIANTS
  CorrectlyRounded
  QuantizeIsExact
  QuotientIsExact
  RemainderIdentity
  ModIsFloored
  SqrtIsRounded
  PowerWithinUlp
