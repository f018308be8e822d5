\* Binance closes the stream.
CONSTANTS
  BnPrices = {1, 2}
  Units = 1
  Cap = 1
  MaxTickers = 1
  MaxQuotes = 1
  MaxPings = 0
SPECIFICATION LoopSpec
INVARIANT ServerCloseIsFatal
CHECK_DEADLOCK FALSE
