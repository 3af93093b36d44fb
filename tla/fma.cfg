\* fma against the manual: only the final result is rounded.
CONSTANTS
  DECDPUN = 2
  DECNUMDIGITS = 69
  MaxDigits = 14
  MaxCalls = 1
  Numbers <- MCFactors
  Contexts <- MCThreeDigits
  Operations <- MCFused
  Settings = {}
  Kinds = {}
  Strings = {}
  Numerals = {}
  Texts = {}
SPECIFICATION Spec
CHECK_DEADLOCK FALSE
INVARIANTS
  FMARoundsOnce
