\* Two tickers beyond what the channel holds; pairs with less than a whole unit.
CONSTANTS
  BnPrices = {1, 2}
  Units = 2
  Cap = 1
  MaxTickers = 3
  MaxQuotes = 2
  MaxPings = 1
SPECIFICATION LoopFairSpec
INVARIANTS TradeNeedsBothQuotes TradesOnMarket
PROPERTIES BnPriceFollows PingAnswered
CHECK_DEADLOCK FALSE
