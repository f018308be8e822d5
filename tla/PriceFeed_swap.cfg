\* One pair; with a subscription, or without.
CONSTANTS
  MaxPairs = 1
  WsPairs = 1
  Cap = 2
  FeedFaults = {}
  Torn = Torn
  MaxTrades = 1
  MaxTicks = 0
SPECIFICATION FeedSpec
INVARIANT QuotesAreSnapshots
CHECK_DEADLOCK FALSE
