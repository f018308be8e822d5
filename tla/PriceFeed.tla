------------------------------ MODULE PriceFeed ------------------------------
(***************************************************************************)
(* How the price of a pair reaches the trading loop.  conf.Pairs is shared *)
(* without a lock by three goroutines: the poller (queryReserves, first    *)
(* run by Mainloop itself) replaces the two reserves of each pair and      *)
(* sends a quote; the log handler (subscribeEvents, handleLog) takes a     *)
(* copy of the pair, whose reserves are pointers to the same numbers, and  *)
(* sends a quote; main (cmd/arbitrage/main.go) takes quotes from the       *)
(* channel, trades, and reads the reserves itself to limit the slippage.   *)
(*                                                                         *)
(* Every trade on the chain moves the same amounts, so a reserve is known  *)
(* by the number of trades it includes; Torn is a number read while it is  *)
(* written.  Each trade logs Sync (the new reserves), then Swap (the       *)
(* amounts); liquidity that is added or taken counts as a trade here and   *)
(* logs Sync, then Mint or Burn.  Binance's half of the loop is left out:  *)
(* main may trade on any quote.                                            *)
(***************************************************************************)
EXTENDS Naturals, Sequences

CONSTANTS
  MaxPairs,   \* bound: a configuration has 1..MaxPairs pairs
  WsPairs,    \* bound: and 1..WsPairs when it has a WsUrl
  Cap,        \* capacity of bboCh (128)
  FeedFaults, \* "gap": the subscription may break; "reorg": a block may be taken back;
              \* "rpc": a request that ends the process when it fails may fail
  Torn,       \* not a number of trades
  MaxTrades,  \* bound: trades of others on a pair
  MaxTicks    \* bound: trades of main, and trades that are taken back, together

ASSUME FeedAssumption ==
  /\ MaxPairs \in Nat \ {0} /\ Cap \in Nat \ {0}
  /\ WsPairs \in Nat
  /\ FeedFaults \subseteq {"gap", "reorg", "rpc"}
  /\ Torn \notin Nat
  /\ MaxTrades \in Nat /\ MaxTicks \in Nat

VARIABLES
  nPairs,      \* len(conf.Pairs)
  ws,          \* the configuration has a WsUrl
  chain,       \* trades of each pair in the latest block
  undone,      \* trades that were taken back
  res0, res1,  \* the numbers conf.Pairs[p].Reserve0 and .Reserve1 point to
  poller,      \* "sleep", "store0", "store1", "quote" or "send"
  pi,          \* the pair it is at
  got,         \* the reserves of all pairs it fetched, and when: epoch
  pq,          \* the quote it is sending
  subscribed,  \* there is a subscription
  logs,        \* logs on their way
  handler,     \* "wait", "copy1", "swap0", "swap0w", "swap1", "swap1w", "quote" or "send"
  hlog,        \* the log it handles
  h0, h1,      \* its copies: [own |-> FALSE] is the pair's number, otherwise v is its own
  hold,        \* the number it is about to overwrite
  hq,          \* the quote it is sending
  ch,          \* bboCh
  main,        \* "startup", "approving", "loop", "buy0", "buy1" or "trade"; "down": log.Fatal
  price,       \* the last quote main took; its epoch is counted in stale and not kept
  limit,       \* the reserves its slippage limit was computed from
  epoch,       \* trades main has finished
  stale,       \* quotes from before the last of them it took since
  late         \* logs that were not turned into quotes when that one ended

pollVars  == <<poller, pi, got, pq>>
logVars   == <<handler, hlog, h0, h1, hold, hq>>
mainVars  == <<main, price, limit, epoch, stale, late>>
resVars   == <<res0, res1>>
wsVars    == <<subscribed, logs>>
confVars  == <<nPairs, ws>>
chainVars == <<chain, undone>>
feedVars  == <<confVars, chainVars, resVars, pollVars, wsVars, logVars, ch, mainVars>>

Pairs  == 1..nPairs
Value  == Nat \cup {Torn}
Quote  == [r0 : Value, r1 : Value, pair : Nat, epoch : Nat]
Kinds  == {"Sync", "Swap", "Other"}  \* "Other" is Burn, Mint or Transfer
Log    == [pair : Pairs, n : Nat, kind : Kinds, epoch : Nat]
Copy   == [own : BOOLEAN, v : Value]
NoQuote == [r0 |-> 0, r1 |-> 0, pair |-> 0, epoch |-> 0]
NoLog   == [pair |-> 1, n |-> 0, kind |-> "Sync", epoch |-> 0]
NothingGot == [r |-> [p \in Pairs |-> 0], epoch |-> 0]
NoLimit == [r0 |-> 0, r1 |-> 0]
Alias  == [own |-> FALSE, v |-> 0]
Own(v) == [own |-> TRUE, v |-> v]

FeedTypeOK ==
  /\ nPairs \in 1..MaxPairs /\ ws \in BOOLEAN
  /\ chain \in [Pairs -> 0..MaxTrades] /\ undone \in 0..MaxTicks
  /\ res0 \in [Pairs -> Value] /\ res1 \in [Pairs -> Value]
  /\ poller \in {"sleep", "store0", "store1", "quote", "send"}
  /\ pi \in Pairs
  /\ got \in [r : [Pairs -> Nat], epoch : Nat]
  /\ pq \in Quote
  /\ subscribed \in BOOLEAN
  /\ logs \in Seq(Log)
  /\ handler \in {"wait", "copy1", "swap0", "swap0w", "swap1", "swap1w", "quote", "send"}
  /\ hlog \in Log /\ h0 \in Copy /\ h1 \in Copy
  /\ hold \in Value /\ hq \in Quote
  /\ ch \in Seq(Quote)
  /\ main \in {"startup", "approving", "loop", "buy0", "buy1", "trade", "down"}
  /\ price \in Quote /\ limit \in [r0 : Value, r1 : Value]
  /\ epoch \in 0..MaxTicks /\ stale \in Nat /\ late \in Nat

FeedInit ==
  /\ ws \in BOOLEAN
  /\ nPairs \in 1..MaxPairs /\ (ws => nPairs <= WsPairs)
  /\ undone = 0
  /\ chain = [p \in Pairs |-> 0]
  /\ res0 = chain /\ res1 = chain
  /\ poller = "sleep" /\ pi = 1 /\ got = NothingGot /\ pq = NoQuote
  /\ subscribed = FALSE /\ logs = <<>>
  /\ handler = "wait" /\ hlog = NoLog
  /\ h0 = Alias /\ h1 = Alias /\ hold = 0 /\ hq = NoQuote
  /\ ch = <<>>
  /\ main = "startup" /\ price = NoQuote /\ limit = NoLimit
  /\ epoch = 0 /\ stale = 0 /\ late = 0

-----------------------------------------------------------------------------
(* The chain and the node (external). *)

\* A log is as old as the block it is of, however long it then waits.
Logged(p, n, kind) ==
  LET log(k) == [pair |-> p, n |-> n, kind |-> k, epoch |-> epoch]
  IN  IF subscribed THEN << log("Sync"), log(kind) >> ELSE <<>>

Trade(p) ==
  /\ chain[p] + undone < MaxTrades
  /\ chain' = [chain EXCEPT ![p] = @ + 1]
  /\ \E kind \in {"Swap", "Other"} : logs' = logs \o Logged(p, chain'[p], kind)
  /\ UNCHANGED <<confVars, undone, resVars, pollVars, subscribed, logVars, ch, mainVars>>

\* The block of the last trade is taken back: its logs are sent again with their
\* removed flag, which handleLog does not look at (326), so it is left out here.
Reorg(p) ==
  /\ "reorg" \in FeedFaults /\ chain[p] > 0
  /\ epoch + undone < MaxTicks /\ main \notin {"buy0", "buy1", "trade"}
  /\ chain' = [chain EXCEPT ![p] = @ - 1]
  /\ undone' = undone + 1
  /\ logs' = logs \o Logged(p, chain[p], "Swap")
  /\ UNCHANGED <<confVars, resVars, pollVars, subscribed, logVars, ch, mainVars>>

\* The subscription breaks: what it had not delivered is lost.
Break ==
  /\ "gap" \in FeedFaults /\ subscribed
  /\ subscribed' = FALSE /\ logs' = <<>>
  /\ UNCHANGED <<confVars, chainVars, resVars, pollVars, logVars, ch, mainVars>>

-----------------------------------------------------------------------------
(* Variants of the actions below with a plausible bug, to show what the       *)
(* properties of this module detect.                                          *)

\* Reserve1 from a second request instead of the same one.
Store1_Refetched ==
  /\ poller = "store1"
  /\ res1' = [res1 EXCEPT ![pi] = chain[pi]]
  /\ poller' = "quote"
  /\ UNCHANGED <<confVars, chainVars, res0, pi, got, pq, wsVars, logVars, ch, mainVars>>

\* The bug of docs/03: the pair is a clone.
Store1_Clone ==
  /\ poller = "store1"
  /\ poller' = "quote"
  /\ UNCHANGED <<confVars, chainVars, resVars, pi, got, pq, wsVars, logVars, ch, mainVars>>

\* One pair too many.
PollSend_PastEnd ==
  /\ poller = "send" /\ Len(ch) < Cap
  /\ ch' = Append(ch, pq)
  /\ \/ pi <= nPairs /\ pi' = pi + 1 /\ poller' = "store0" /\ main' = main
     \/ pi > nPairs /\ pi' = 1 /\ poller' = "sleep" /\ main' = "approving"
  /\ UNCHANGED <<confVars, chainVars, resVars, got, pq, wsVars, logVars, price,
                 limit, epoch, stale, late>>

\* A channel without a limit.
PollSend_NeverBlocks ==
  /\ poller = "send"
  /\ ch' = Append(ch, pq)
  /\ \/ pi < nPairs /\ pi' = pi + 1 /\ poller' = "store0" /\ main' = main
     \/ /\ pi = nPairs /\ pi' = 1 /\ poller' = "sleep"
        /\ main' = IF main = "startup" THEN "approving" ELSE main
  /\ UNCHANGED <<confVars, chainVars, resVars, got, pq, wsVars, logVars, price,
                 limit, epoch, stale, late>>

\* The slippage limit from what the last trade was limited by.
ReadLimit_Kept ==
  /\ \/ main = "buy0" /\ main' = "buy1"
     \/ main = "buy1" /\ main' = "trade"
  /\ UNCHANGED <<confVars, chainVars, resVars, pollVars, wsVars, logVars, ch, price,
                 limit, epoch, stale, late>>

-----------------------------------------------------------------------------
(* queryReserves, called by Mainloop and then by its goroutine. *)

\* A BatchCall that fails in the loop is printed and tried again: nothing changes.
Polling == main \notin {"approving", "down"}

Fetch ==
  /\ Polling /\ poller = "sleep"
  /\ got' = [r |-> chain, epoch |-> epoch]
  /\ pi' = 1 /\ poller' = "store0"
  /\ UNCHANGED <<confVars, chainVars, resVars, pq, wsVars, logVars, ch, mainVars>>

\* pair.Reserve0 = reserve.Reserve0: a copy of the pair keeps the old number.
Store0 ==
  /\ poller = "store0"
  /\ res0' = [res0 EXCEPT ![pi] = got.r[pi]]
  /\ h0' = IF handler # "wait" /\ hlog.pair = pi /\ ~h0.own THEN Own(res0[pi]) ELSE h0
  /\ poller' = "store1"
  /\ UNCHANGED <<confVars, chainVars, res1, pi, got, pq, wsVars, handler, hlog, h1, hold, hq,
                 ch, mainVars>>

Store1 ==
  /\ poller = "store1"
  /\ res1' = [res1 EXCEPT ![pi] = got.r[pi]]
  /\ h1' = IF handler \notin {"wait", "copy1"} /\ hlog.pair = pi /\ ~h1.own
             THEN Own(res1[pi]) ELSE h1
  /\ poller' = "quote"
  /\ UNCHANGED <<confVars, chainVars, res0, pi, got, pq, wsVars, handler, hlog, h0, hold, hq,
                 ch, mainVars>>

\* pair.Bbo() reads the numbers of the pair.
PollQuote ==
  /\ poller = "quote"
  /\ pq' = [r0 |-> res0[pi], r1 |-> res1[pi], pair |-> pi,
            epoch |-> got.epoch]
  /\ poller' = "send"
  /\ UNCHANGED <<confVars, chainVars, resVars, pi, got, wsVars, logVars, ch, mainVars>>

\* u.bboCh <- bbo blocks while the channel is full; then the next pair, or the
\* query returns, to Mainloop the first time.
PollSend ==
  /\ poller = "send" /\ Len(ch) < Cap
  /\ ch' = Append(ch, pq)
  /\ pq' = NoQuote
  /\ \/ /\ pi < nPairs /\ pi' = pi + 1 /\ poller' = "store0"
        /\ UNCHANGED <<got, main>>
     \/ /\ pi = nPairs /\ pi' = 1 /\ poller' = "sleep"
        /\ got' = NothingGot
        /\ main' = IF main = "startup" THEN "approving" ELSE main
  /\ UNCHANGED <<confVars, chainVars, resVars, wsVars, logVars, price, limit, epoch, stale, late>>

-----------------------------------------------------------------------------
(* subscribeEvents and handleLog; the goroutine runs from Mainloop's approvals *)
(* on.                                                                         *)

Subscribe ==
  /\ ws /\ main \notin {"startup", "down"} /\ ~subscribed /\ handler = "wait"
  /\ subscribed' = TRUE
  /\ UNCHANGED <<confVars, chainVars, resVars, pollVars, logs, logVars, ch, mainVars>>

\* A log is received and the pair copied, its two pointers one after the other.
TakeLog ==
  /\ handler = "wait" /\ logs # <<>>
  /\ hlog' = Head(logs) /\ logs' = Tail(logs)
  /\ h0' = Alias /\ handler' = "copy1"
  /\ UNCHANGED <<confVars, chainVars, resVars, pollVars, subscribed, h1, hold, hq, ch, mainVars>>

CopyPair ==
  /\ handler = "copy1" /\ hlog.kind # "Other"
  /\ h1' = Alias
  /\ handler' = IF hlog.kind = "Sync" THEN "quote" ELSE "swap0"
  /\ UNCHANGED <<confVars, chainVars, resVars, pollVars, wsVars, hlog, h0, hold, hq, ch, mainVars>>

\* The pair was copied for the price that is printed; no quote is sent.
PrintOther ==
  /\ handler = "copy1" /\ hlog.kind = "Other"
  /\ handler' = "wait" /\ h0' = Alias /\ hlog' = NoLog
  /\ UNCHANGED <<confVars, chainVars, resVars, pollVars, wsVars, h1, hold, hq, ch, mainVars>>

Copy0 == IF h0.own THEN h0.v ELSE res0[hlog.pair]
Copy1 == IF h1.own THEN h1.v ELSE res1[hlog.pair]

\* A number is written where the handler's pointer leads.
Write0(v) ==
  \/ h0.own /\ h0' = Own(v) /\ res0' = res0
  \/ ~h0.own /\ h0' = h0 /\ res0' = [res0 EXCEPT ![hlog.pair] = v]
Write1(v) ==
  \/ h1.own /\ h1' = Own(v) /\ res1' = res1
  \/ ~h1.own /\ h1' = h1 /\ res1' = [res1 EXCEPT ![hlog.pair] = v]

\* pair.Reserve0.Sub, .Add in place, and the same for Reserve1: a reader in
\* between sees a torn number.
Swap0 ==
  /\ \/ handler = "swap0" /\ hold' = Copy0 /\ Write0(Torn) /\ handler' = "swap0w"
     \/ handler = "swap0w" /\ hold' = 0 /\ Write0(hold + 1) /\ handler' = "swap1"
  /\ UNCHANGED <<confVars, chainVars, res1, pollVars, wsVars, hlog, h1, hq, ch, mainVars>>

Swap1 ==
  /\ \/ handler = "swap1" /\ hold' = Copy1 /\ Write1(Torn) /\ handler' = "swap1w"
     \/ handler = "swap1w" /\ hold' = 0 /\ Write1(hold + 1) /\ handler' = "quote"
  /\ UNCHANGED <<confVars, chainVars, res0, pollVars, wsVars, hlog, h0, hq, ch, mainVars>>

\* The quote of the copy: for Sync its reserves have been set to the log's.
LogQuote ==
  /\ handler = "quote"
  /\ hq' = [r0 |-> IF hlog.kind = "Sync" THEN hlog.n ELSE Copy0,
            r1 |-> IF hlog.kind = "Sync" THEN hlog.n ELSE Copy1,
            pair |-> hlog.pair, epoch |-> hlog.epoch]
  /\ handler' = "send"
  /\ UNCHANGED <<confVars, chainVars, resVars, pollVars, wsVars, hlog, h0, h1, hold, ch, mainVars>>

LogSend ==
  /\ handler = "send" /\ Len(ch) < Cap
  /\ ch' = Append(ch, hq)
  /\ handler' = "wait" /\ hq' = NoQuote
  /\ h0' = Alias /\ h1' = Alias /\ hlog' = NoLog
  /\ UNCHANGED <<confVars, chainVars, resVars, pollVars, wsVars, hold, mainVars>>

-----------------------------------------------------------------------------
(* main. *)

\* Mainloop's approvals are done: its goroutine starts to poll and main to
\* take quotes.
Loop ==
  /\ main = "approving"
  /\ main' = "loop"
  /\ UNCHANGED <<confVars, chainVars, resVars, pollVars, wsVars, logVars, ch, price, limit,
                 epoch, stale, late>>

\* A quote is taken; the spread may be wide enough to trade.
Take ==
  /\ main = "loop" /\ ch # <<>>
  /\ price' = [Head(ch) EXCEPT !.epoch = 0] /\ ch' = Tail(ch)
  /\ stale' = IF Head(ch).epoch < epoch THEN stale + 1 ELSE stale
  /\ main' \in {"loop"} \cup (IF epoch + undone < MaxTicks THEN {"buy0"} ELSE {})
  /\ UNCHANGED <<confVars, chainVars, resVars, pollVars, wsVars, logVars, limit, epoch, late>>

\* BuyEth reads the reserves of the first pair, not the quote's, for its limit.
ReadLimit ==
  /\ \/ main = "buy0" /\ limit' = [limit EXCEPT !.r0 = res0[1]] /\ main' = "buy1"
     \/ main = "buy1" /\ limit' = [limit EXCEPT !.r1 = res1[1]] /\ main' = "trade"
  /\ UNCHANGED <<confVars, chainVars, resVars, pollVars, wsVars, logVars, ch, price,
                 epoch, stale, late>>

\* onTick returns, minutes later.
TradeDone ==
  /\ main = "trade"
  /\ main' = "loop" /\ epoch' = epoch + 1 /\ stale' = 0
  /\ limit' = NoLimit
  /\ late' = Len(logs) + (IF handler = "wait" THEN 0 ELSE 1)
  /\ UNCHANGED <<confVars, chainVars, resVars, pollVars, wsVars, logVars, ch, price>>

-----------------------------------------------------------------------------
\* A log.Fatal ends the process with all its goroutines: at the first query's
\* BatchCall, at a pair's reserves that do not come or cannot be unpacked, at a
\* dial or subscription that fails, at a log that cannot be unpacked.
Dies ==
  /\ "rpc" \in FeedFaults
  /\ \/ main = "startup" /\ poller = "sleep"
     \/ poller = "store0"
     \/ ws /\ main \notin {"startup", "down"} /\ ~subscribed /\ handler = "wait"
     \/ handler = "copy1"
  /\ main' = "down" /\ price' = NoQuote /\ limit' = NoLimit
  /\ res0' = [p \in Pairs |-> 0] /\ res1' = [p \in Pairs |-> 0]
  /\ poller' = "sleep" /\ pi' = 1 /\ got' = NothingGot /\ pq' = NoQuote
  /\ subscribed' = FALSE /\ logs' = <<>>
  /\ handler' = "wait" /\ hlog' = NoLog
  /\ h0' = Alias /\ h1' = Alias /\ hold' = 0 /\ hq' = NoQuote
  /\ ch' = <<>>
  /\ stale' = 0 /\ late' = 0
  /\ UNCHANGED <<confVars, chainVars, epoch>>

-----------------------------------------------------------------------------
Poller     == Fetch \/ Store0 \/ Store1 \/ PollQuote \/ PollSend
LogHandler == TakeLog \/ CopyPair \/ PrintOther \/ Swap0 \/ Swap1 \/ LogQuote \/ LogSend
Main       == Loop \/ Take \/ ReadLimit \/ TradeDone

FeedNext ==
  \/ \E p \in Pairs : Trade(p) \/ Reorg(p)
  \/ Break \/ Subscribe
  \/ Poller \/ LogHandler \/ Main
  \/ Dies

FeedSpec == FeedInit /\ [][FeedNext]_feedVars

\* No goroutine is starved; each runs whenever it is not blocked.
FeedFairSpec ==
  FeedSpec /\ WF_feedVars(Poller) /\ WF_feedVars(LogHandler) /\ WF_feedVars(Main)

-----------------------------------------------------------------------------
(* Properties. *)

Snapshot(q) == q.r0 = q.r1 /\ q.r0 \in 0..(chain[q.pair] + undone)

\* The quotes main decides on are prices the pair had: both reserves of one block.
QuotesAreSnapshots ==
  \A i \in 1..Len(ch) : Snapshot(ch[i])

\* Without a subscription they are, though the poller stores the two reserves one
\* after the other and blocks may be taken back meanwhile.
PollQuotesAreSnapshots == ~ws => QuotesAreSnapshots

\* Without a subscription, and while no block is taken back, the limit of a trade
\* is computed from reserves that are at least as recent as the quote that
\* triggered it, though the poller may be between its two stores.
LimitNotOlderThanQuote ==
  ~ws /\ undone = 0 /\ main = "trade" /\ price.pair = 1
    => limit.r0 >= price.r0 /\ limit.r1 >= price.r1

\* After a trade, main takes at most as many quotes from before its end as the
\* channel holds, the poller has fetched and logs were left to turn into quotes: it
\* then decides on fresh ones.  Without a subscription these are Cap + nPairs; with
\* one, every log that waited behind a handler blocked on the channel adds one.
BacklogBound == stale <= Cap + nPairs + late /\ (~ws => late = 0)

\* A start that no log.Fatal ends gets to the loop exactly when the first query's
\* quotes fit the channel, which nobody reads yet; with more pairs it hangs.
StartupHangs == (nPairs > Cap) => [](main \in {"startup", "down"})
StartupCompletes == ((nPairs <= Cap) => <>(main \in {"loop", "down"})) /\ StartupHangs

\* When others stop trading, the shared reserves and the price main has become
\* those of the chain and remain so, whatever the handler did to them before: logs
\* that were lost with the subscription, counted twice, or applied though their
\* block was taken back are all repaired by the poller, unless the process has died.
Converges ==
  (nPairs <= Cap) =>
    <>[]( \/ /\ \A p \in Pairs : res0[p] = chain[p] /\ res1[p] = chain[p]
             /\ nPairs = 1 => price.r0 = chain[1] /\ price.r1 = chain[1]
          \/ main = "down")

\* "避免 pair 发生克隆导致无法修改原数据" (docs/03): a change to a pair is made to
\* conf.Pairs and not to a clone of it, so once the reserves of a Sync log are
\* set the shared ones are at least as recent.
SyncReachesPair ==
  handler = "send" /\ hlog.kind = "Sync" => res0[hlog.pair] >= hlog.n

=============================================================================
