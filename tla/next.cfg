\* nextplus and nextminus against the manual: the closest value.
CONSTANTS
  DECDPUN = 2
  DECNUMDIGITS = 69
  MaxDigits = 8
  MaxCalls = 1
  Numbers <- MCTiniest
  Contexts <- MCBase
  Operations <- MCNext
  Settings = {}
  Kinds = {}
  Strings = {}
  Numerals = {}
  Texts = {}
SPECIFICATION Spec
CHECK_DEADLOCK FALSE
INVARIANTS
  NextIsClosest
