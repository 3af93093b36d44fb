\* Power against its comment: at most one unit of the last place in error.
CONSTANTS
  DECDPUN = 3
  DECNUMDIGITS = 69
  MaxDigits = 14
  MaxCalls = 1
  Numbers <- MCInverted
  Contexts <- MCThreeDigits
  Operations <- MCPowers
  Settings = {}
  Kinds = {}
  Strings = {}
  Numerals = {}
  Texts = {}
SPECIFICATION Spec
CHECK_DEADLOCK FALSE
INVARIANTS
  OverflowIsLarge
