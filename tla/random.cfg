\* Random numbers against decNumber.h: as many digits as they say.
CONSTANTS
  DECDPUN = 2
  Dividends <- MCNumerators
  Divisors <- MCDenominators
  Precisions = {1, 2, 4}
  Factors <- MCFactors
  FASTDIGS = 4
  FASTBASE = 10000
  FASTLAZY = 2
  AccMax = 240000000
  RingSize = 4
  Lag1 = 1
  Lag2 = 2
  Lag3 = 3
  WordBits = 16
  Words <- MCWords
  NUMDIGITS = 9
  Requests <- MCRequests
  MaxWords = 5
SPECIFICATION UnitsSpec
CHECK_DEADLOCK FALSE
INVARIANTS
  RandomHasItsDigits
