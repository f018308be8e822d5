\* Every pair with reserves up to 8 and units up to 3, every secret of up to four
\* bytes in blocks of two, every request in every order of its parameters.
CONSTANTS
  QuoteUnit = 2
  BlockSize = 2
  Byte = {0, 1, 2, 3}
  MaxReserve = 8
  MaxUnit = 3
  MaxAmount = 3
  MaxText = 4
SPECIFICATION CalcSpec
INVARIANTS LimitsBoundPrice SecretsSurvive RequestWellFormed
CHECK_DEADLOCK FALSE
