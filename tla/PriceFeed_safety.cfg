\* One to three pairs without a subscription, one with a subscription that may
\* break; a block may be taken back and a request may fail.
CONSTANTS
  MaxPairs = 3
  WsPairs = 1
  Cap = 2
  FeedFaults = {"gap", "reorg", "rpc"}
  Torn = Torn
  MaxTrades = 1
  MaxTicks = 1
SPECIFICATION FeedFairSpec
INVARIANTS FeedTypeOK PollQuotesAreSnapshots LimitNotOlderThanQuote BacklogBound
PROPERTIES StartupCompletes Converges
CHECK_DEADLOCK FALSE
