\* decimal32 in full, the others for numbers of few digits, packed decimals.
CONSTANTS
  DECDPUN = 3
  Formats = {"DECIMAL32", "DECIMAL64", "DECIMAL128"}
  Numbers <- MCNumbers
  Encodings <- MCEncodings
  Packings <- MCPackings
  Numerals <- MCNumerals
  Rounds <- MCRounds
  Lengths = {2, 5}
  MaxDigits = 8
  MaxCalls = 2
SPECIFICATION MCSpec
CHECK_DEADLOCK FALSE
INVARIANTS
  EncodingIsRounded
  EncodingIsFaithful
  PackedRoundTrip
