\* The paths of BuyEth and SellEth on pairs of either kind.
CONSTANTS
  QuoteUnit = 2
  BlockSize = 2
  Byte = {0}
  MaxReserve = 4
  MaxUnit = 2
  MaxAmount = 1
  MaxText = 1
SPECIFICATION CalcSpec
INVARIANT PathPaidToObtained
CHECK_DEADLOCK FALSE
