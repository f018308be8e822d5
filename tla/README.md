# A TLA+ model of the arbitrage client

The repository is a Go program that buys a gas coin (FTM, "ETH" in the code) on
a Uniswap V2 pair when it is cheaper there than at Binance, sells the same
amount on margin at Binance, sends what it bought to Binance and repays the
margin debt with it. This directory holds TLA+ modules for the parts of it that
have state, configurations that check them with TLC, and proofs checked by TLAPS.

## 1. The system

| part | source | state it keeps | operations | who calls it |
|---|---|---|---|---|
| account and its transactions | `exchange/uniswap.go` 45-109 and the tail of every operation | `u.nonce`, a cache of the account's nonce; on the stack the transaction in flight | sign, `SendTransaction`, `u.nonce += 1`, `WaitMined` | main goroutine only |
| broker start-up | 111-199 | position in the pairs' tokens | allowance, approve, wait, fatal exits | `main` |
| operations | 465-738 | none of their own | `BuyEth`, `SellEth`, `TransferEth`, `Swap`, (`DeployContract` panics) | `onTick`, small commands |
| price feed | 231-401, `config/config.go` 49-91 | `conf.Pairs` with two `*big.Int` each, the channel `bboCh` | `queryReserves`, `subscribeEvents`, `handleLog`, `Price`, `Bbo` | poller and log goroutines write, main reads |
| balance poller | 403-463 | `u.Eth`, `u.Usdc`, `u.gasPrice` | `queryBalanceGasPrice` | its own goroutine; main reads |
| trading loop | `cmd/arbitrage/main.go` | `uniPrice`, `bnPrice`, where `onTick` is | `select`, `onTick` | - |
| Binance REST | `exchange/binance.go` 39-236, 441-456 | listen key, `Assets` (printed only) | `req`, `PostMarginOrder`, `Repay`, `Spot2Margin`, ... | `onTick` |
| Binance market data | 290-434 | none; sends to a channel | `publicWsMainLoop` | its own goroutine |
| swap arithmetic | 501-538, 569-594, 637-658 | none | amounts, limits, paths | the operations |
| configuration, keys | `config/config.go`, `utils/aes.go`, `uniswap.go` 49-71, 201-229 | none after the start | decode, decrypt, derive | `main` |
| price demo | `cmd/uniswap_get_price_demo` | its own pairs | query once, then Sync and Swap logs; watched streams | a command of its own |
| contract bindings | `exchange/bindings/*.go` | iterators and watch goroutines of twelve events | `FilterX`, `Next`, `Close`, `WatchX`, `Unsubscribe` | the demo; the methods' wrappers: the broker |
| SwapHelper, other commands, foundry template, tests | | none | | |

The parts meet in three ways: by calls (main into the broker and the Binance
client, one goroutine, each call blocking), by two channels of quotes, and by
memory shared without a lock (`conf.Pairs`, `u.Usdc`, `u.gasPrice`). Outside are
the node with its transaction pool, the chain, and Binance. Nothing is stored on
disk: after a restart everything known comes from the chain.

What is hard about it:

* **Faults and retries.** An answer of `SendTransaction` may be lost although
  the node took the transaction, or the request may arrive after the client gave
  up. The code returns the error and keeps its nonce.
* **Restarts.** Most failures end the process (`log.Fatalln`); the next process
  meets what the one before left: pending transactions, a half-done hedge,
  deposits on their way.
* **Partial failure.** The two legs of a trade are on two systems; one may have
  happened when the other fails.
* **Shared memory.** A poll replaces two pointers one after the other, a log
  handler copies the pair and changes the numbers in place, main reads them.
* **Staleness.** While `onTick` trades for a minute the channel fills with quotes;
  balances and nonces are caches.
* **Waiting.** `WaitMined` has no deadline; the quote channels block when full,
  also before anybody reads them; a watcher may have an event in hand that nobody
  reads while its caller waits for it to end.
* **Numbers.** Prices are quotients of truncated reserves, 0, infinite or NaN at
  the edges; limits are floats cut to integers.

What makes each part correct:

* account: at most one transaction pending, no hole in the nonces, the cache
  never far from the chain, a stale cache is harmless until the restart that
  heals it;
* start-up: every token approved exactly as often as needed, before any
  operation; it ends; it does not hang on the quote channel;
* trading loop: no trade before both prices are known, nor on a spread that Binance's
  present price does not give, when nothing newer is on its way; never short, never
  long by more than a bounded number of lots; what is at Binance is covered by what
  is owed there; trades end;
* price feed: quotes are prices the pair really had; a trade's limit is at least
  as fresh as the quote that triggered it; the number of stale decisions after a
  trade is bounded; the shared reserves become right again after any disturbance;
* Binance's feed: its last price reaches main, its pings are answered, its end is
  noticed (it is not, see section 6);
* bindings: what was asked for arrives, in order and without a hole, an iterator
  ends with everything or with an error, calls return, a broken subscription is
  reported;
* price demo: its reserves are off by at most a swap and never drift; it ends when
  a part of its sources does;
* arithmetic, secrets, requests: errors of prices and limits are bounded, a path goes
  from what is paid to what is obtained (it does not always, see section 6), secrets
  survive, what is signed is what is sent.

`PROJECT.json` lists the hazards, each at its line, with the properties about it.

## 2. The modules

    HedgeBook            abstract: what the arbitrage promises, as books
       ^ implements (BookSpec, proved)
    Arbitrage  ---- EXTENDS ---->  UniWallet  <---- EXTENDS ---- UniBroker, MCUniBroker
    (onTick, Binance's ledger)     (account,                     (start-up, operations;
                                    node, chain)                  implements WalletSpec)
    TradingLoop   select and spread, Binance's stream, bnBboCh
    PriceFeed     poller, log handler, bboCh, main's reads
    PriceDemo     the command that follows prices by logs
    LogDelivery          abstract: what a stream of logs promises its caller
       ^ implements (DeliverySpec, proved)
    EventStreams  FilterX and WatchX of the bindings
    SwapMath, KeyFormat, BinanceRest  <---- EXTENDS ---- Calculations

    XProofs extends X and holds its theorems (UniBrokerProofs and ArbitrageProofs
    also extend UniWalletProofs).

### UniWallet

One account, one process, one node. `phase` is where the current operation is
(`idle`, `sending`, `waiting`, or `down`: no process), `nonce` is `u.nonce`,
`cur` the transaction it signed. `Send`, `SendOk`, `SendErr` and `WaitMined` are
the four places where every operation of the code can be; `NewUniBroker` reads
the chain's nonce; `Exit` is `log.Fatalln`, a panic or a crash. The node is
external: `wire` holds requests on their way, `pool` the pending transactions,
`mined` what is in blocks. `NodeAccept` replaces a pending transaction of the same
nonce or refuses it (both happen, depending on the gas price), and refuses a
nonce that is used up. Transactions carry a ghost id, so two with the same
content and nonce are distinct.

The environment's faults are a constant: `refuse`, `lost`, `late`, `drop`,
`crash`, and for `Arbitrage` also `revert` and `slow`. Each run says which it allows.

### UniBroker

Extends `UniWallet` with `Mainloop`: `pc` and `idx` are its place in the walk
through `Token0, Token1` of each pair. `AskAllowance` reads the allowance at the
latest block, `Approve`, `ApproveSent`, `ApproveMined` send and wait for the
approval, `ApproveRefused`, `QueryFails` and a failed status lead to `Fatal`.
After `Serve` any operation may run, one at a time. `WalletSpec` is a property of
it: seen through the wallet's variables every step is one of `UniWallet` or a
stutter.

### Arbitrage and HedgeBook

`at` is where the main goroutine is in `onTick`, from its asset check on. Amounts
are lots of 12 FTM and of the USDC that buys one. `usdc`, `eth`, `transit` are the
account's balances and deposits on their way, `spot`, `free`, `debt` Binance's
ledger. Every request to Binance may be refused, or executed with its answer lost.
`PollBalance` refreshes `seen` (`uni.Usdc`) at any moment, including between the
trade and the next check. The process may be started again after any exit, with
whatever the exit left. `HedgeBook` forgets where lots are: it only knows lots
owned, lots owed and the number of starts, and allows to buy while fewer than one
lot per start is unhedged, to sell only what was bought, and to repay. `BookSpec`
says that `Arbitrage` keeps these books.

### TradingLoop

What `Arbitrage` leaves out of main, and Binance's half of the prices. `main` is in
the two requests of `BnBroker.Mainloop`, in the `select`, in a trade, or gone. A
price of the chain is the quotient of two small numbers of whole units, as `Price`
computes it, so that 0, infinity and NaN are prices like others; 0 also is "no
quote yet", as in the code. The reader is the goroutine of `publicWsMainLoop`: it
takes frames from `wire`, and blocks in `SendTicker` while `bnCh` is full, which it
is during a trade. `ReadPing` and `ReadFails` follow what gorilla's `ReadMessage`
does: it answers pings itself, and returns a close frame as an error, so the cases
of the `switch` for both are never reached. `GetPosition` parses the amounts of the
account's assets, a failure of which ends the process; the assets it keeps are read by
nobody, so they are no state here. A trade is one step, `TradeOver`, whose
inside is `Arbitrage`; quotes of the chain are any, what they can be is `PriceFeed`.

### PriceFeed

The three goroutines at the grain at which Go may interleave them: the poller
stores `Reserve0` and `Reserve1` in two steps; the handler copies the pair's two
pointers in two steps and then changes the numbers in place, a number being
`Torn` between its two arithmetic operations; main reads the two reserves in two
steps when `BuyEth` computes its limit. A handler's copy keeps pointing at the
shared number until the poller replaces it, after which the copy owns the old
one (`h0`, `h1`). A reserve is represented by how many trades it includes: every
trade moves the pair by the same amount, which is enough to tell a mixed, doubled
or torn value from a price of one block. A trade logs Sync and then Swap, as the
pair contract does; liquidity that is added or taken moves the reserves alike and logs
Sync and then one of the events (`"Other"`) that `PrintOther` copies the pair for and
prints. `Reorg` takes a block back and sends its logs again, with the
flag that the handler does not look at. `Dies` is `log.Fatal` in any of the three: a
first query that fails, reserves that do not come, a dial or subscription that fails, a
log that does not unpack. A later query that fails is printed and tried again, which
changes nothing. `epoch`, `stale` and `late` are ghosts about main's trades: `epoch`
counts those that ended; a quote has the epoch in which the poller fetched it, or in
which the block of its log was made, however long the log waited in the subscription
for a handler that was blocked on the channel; `stale` counts the quotes of earlier
epochs that main took; `late` is how many logs were not yet turned into quotes when the
last trade ended.

### PriceDemo

The same abstraction of reserves, for the command that queries them once and then
lives on logs: `at` walks through the query, the dialling, the subscription and
the two watched streams of each pair, any of which may fail and end the process,
and then handles logs. `synced` is a ghost: what the pair's last Sync said. Two entries
of the demo's table (main.go:180 and 194) have the same address: Go keeps the later, so
the table has one pair less than it lists, and that pair gets the later entry's name.

### EventStreams and LogDelivery

abigen writes the same machine for every event; only names and indexed arguments
differ. The module has one machine and an event `ev`, chosen at the start from
twelve definitions (`PairSwap`, `Erc20Transfer`, ...). Such a definition consists
of what the event's text has of its own, the order of its topics and of the rules
passed to `FilterLogs` and `WatchLogs`, and is mapped to the lines that say these: the
event's declaration, `FilterX` and the rules of `WatchX`. The machine's actions are
mapped to the text of `Swap`; the same text of the other eleven events is not mapped. The source
(go-ethereum's goroutine and its channel of 128 logs) and the caller are external.
`asked` is a ghost: the logs the caller meant, by the names of the arguments.
`LogDelivery` forgets the channels and goroutines: it knows what was asked for, what was
delivered, whether the stream was stopped (closed by the caller, or broken off in a
watch) and whether it is open, has ended or has failed. A log is delivered when it is
the next one and unpacks; a stream ends when everything was delivered or it was stopped;
it fails at a log that does not unpack or when stopped; after either nothing comes.
`DeliverySpec` says that `EventStreams` does this, iterators and watches alike.

### SwapMath, KeyFormat, BinanceRest, Calculations

The first is the arithmetic as operators on integers: `Price` as an exact quotient with
its truncations, the demo's `priceFloat` without them, the calls `Swap` makes of the
pair, the limits, paths and the needless division of `BuyEth` and `SellEth`. A limit
computed from a price that is no number may be any integer. The pair's check of `x*y` is
an external operator (`PairGives`), in terms of the tokens paid into the pair; the coins
that `Swap` sends with its transaction are none. `KeyFormat` has padding and its inverse
around a cipher that is a bijection. `BinanceRest` has the parameters of each request as
a function, and `req` as a machine that walks them in any order, adds a timestamp and
signs. `Calculations` makes one specification of the three: a task is chosen, and
calculated.

### What corresponds to what

`PROJECT.json` maps every definition to its lines. Handlers are whole: for
example `PollSend` is the channel send together with the loop's advance or the
return of `queryReserves`, and `HedgeOk` the order with its automatic borrowing.
Variants named `X_Something` of a definition `X` are that definition with a plausible
bug; no specification uses them; they are there to see that each property
notices something.

## 3. The runs

| run | specification | bounds and faults | shows |
|---|---|---|---|
| `broker_safety` | `BrokerFairSpec` | two pairs that share a token, 7 transactions, 3 starts; every fault | `ApprovedOnce`, `OperationsNeedAllowance`, `StartupEnds`, implements `WalletSpec`; and of the account `AtMostOneUnmined`, `NoNonceGap`, `CacheLagsByAtMostOne`, `WedgedUntilRestart` |
| `wallet_gaspaid` | `WalletSpec` | 3 transactions, 2 starts; lost answers | violated, see section 6 |
| `arbitrage_safety` | `ArbitrageFairSpec` | 3 lots, 6 transactions, 3 starts; every fault | `ExposureBound`, `UnhedgedStaysOnChain`, `DebtBound`, `TransfersAreFunded`, `RetryIsSafe` (of the account), `TradeEnds`, implements `HedgeBook` |
| `feed_safety` | `FeedFairSpec` | 1 to 3 pairs without a subscription, 1 with one; channel of 2; lost logs, a block taken back, fatal requests | `PollQuotesAreSnapshots`, `LimitNotOlderThanQuote`, `BacklogBound`, `StartupCompletes`, `Converges` |
| `feed_sync`, `feed_swap` | `FeedSpec` | 1 pair, subscription | violated, see section 6 |
| `loop_safety` | `LoopFairSpec` | 3 tickers, 2 quotes, 1 ping, channels of 1, up to 2 whole units | `TradeNeedsBothQuotes`, `TradesOnMarket`, `BnPriceFollows`, `PingAnswered` |
| `loop_close` | `LoopSpec` | 1 ticker, 1 quote | violated, see section 6 |
| `streams` | `StreamFairSpec` | each event, 2 addresses, 2 logs, channel of 1 | `OrderKept`, `CompleteOrError`, implements `LogDelivery`, `CallsReturn`, `BreakIsReported` |
| `demo` | `DemoFairSpec` | 2 pairs, 2 changes each, 1 taken back | `DriftBounded`, `CatchesUp`, `EndedStreamEndsDemo` |
| `calculations` | `CalcSpec` | reserves up to 8, units up to 3, amounts up to 3; secrets up to 4 bytes in blocks of 2; all requests | `LimitsBoundPrice`, `SecretsSurvive`, `RequestWellFormed` |
| `calc_paths` | `CalcSpec` | reserves up to 4, units up to 2, amounts of 1 | violated, see section 6 |

The type invariant of the feed is checked in its run; all type invariants are proved.
Deadlock is not checked: the bounds, an exit without another start, a quiet chain and a
calculation that is done stop the system.

**Bounds.** `MaxTx` and `MaxStarts` bound a behaviour's transactions and starts.
An anomaly of the account takes one transaction whose answer is lost, one that
meets it, and a restart; three starts let a process meet the leftovers of one
that met leftovers. In `broker_safety` seven transactions are the approvals of three
tokens, of which the shared one is met twice, with retries and operations after
them. In `arbitrage_safety` six are three trades, so each start can trade and fail
at any point. `Usdc0` lets three buys be paid, so that the account also runs out. In
`PriceFeed`, `Cap` is 2 instead of 128: what matters is whether the channel is full,
and `MaxPairs` above `Cap` makes that happen at the start. One trade of main
(`MaxTicks`, which trades and blocks taken back share) is what `BacklogBound` needs:
with a subscription the trade of another leaves two logs, of which one can be in a
blocked handler and one wait behind it when main's own trade ends.
In `TradingLoop` three tickers are one in the channel, one in the reader's hand and
one behind them. In `EventStreams` two logs are one in the channel or in hand and
one behind it; a bad log, a break and a close can come at any of these places. The
pairs of `Calculations` have one token with the decimals of the quote, as the
configuration has.

**Fairness.** `NodeFairness`: the node answers a request that reached it and
blocks include what is pending, which is what a live chain does; nothing is
assumed about which of an acceptance or a refusal it is. The process's own steps
are weakly fair where the code runs or polls without waiting for anything else
(`SendTransaction` returns, `WaitMined` polls once a second, `onTick` goes on,
sleeps end); whether and when a process is started is not. In `Arbitrage` only
what happens after a buy is fair: the market may never offer a spread. Deposits
are credited (`Credit`). In `PriceFeed` each goroutine is fair as a whole, which
is the Go scheduler's promise to a runnable goroutine; trades of others, breaks,
subscriptions and fatal requests are not. In `TradingLoop` and `PriceDemo` a `select` with several
ready cases picks one at random, so a case that is ready again and again is taken:
this is the strong fairness of `TakeUni`, `TakeBn` and `SubEnds`. In `EventStreams`
the goroutines are fair; the caller need not call or read anything more.
A transaction that the pool dropped or replaced is never mined, and `WaitMined` has
no deadline: `TradeEnds` and `StartupEnds` name that case (`Orphaned`).

## 4. What is proved

Everything below is proved for all values of the constants: any calls, any list
of pairs, any number of lots, logs, quotes and starts, every choice of faults and
all bounds, from the modules' named assumptions alone. These say that the constants
are of the right kind; `BrokerAssumption` adds that a token's approval and an
operation are different calls, `ArbitrageAssumption` that a buy and a transfer are.

| theorems | say |
|---|---|
| `WalletTyped`, `WalletOneUnmined`, `WalletNoGap`, `WalletCacheLag`, `WalletWedged` | `WalletSpec` keeps `WalletTypeOK`, `AtMostOneUnmined`, `NoNonceGap`, `CacheLagsByAtMostOne`, `WedgedUntilRestart` |
| `WalletOneTxPerNonce`, `WalletOkIsExecuted`, `WalletRetryIsSafe` | each nonce used up was used by one transaction; an operation that returned nil was executed; `WalletSpec` keeps `RetryIsSafe` |
| `WalletSendIsAnswered` | what `SendTransaction` waits for is on its way |
| `BrokerImplementsWallet`, `ArbitrageImplementsWallet` | `BrokerSpec => WalletSpec`, `ArbitrageSpec => WalletSpec`, so the theorems above hold of both |
| `BrokerTyped`, `BrokerApprovesOnce`, `BrokerOperatesApproved` | `BrokerSpec` keeps `BrokerTypeOK`, `ApprovedOnce`, `OperationsNeedAllowance` |
| `BrokerStartShrinks`, `BrokerWaitsForNode` | a start makes at most five steps per token and five more; where it waits, what it waits for is on its way or was lost by the node |
| `ArbitrageTyped`, `ArbitrageExposure`, `ArbitrageStock`, `ArbitrageDebt`, `ArbitrageFunds` | `ArbitrageSpec` keeps `ArbitrageTypeOK`, `ExposureBound`, `UnhedgedStaysOnChain`, `DebtBound`, `TransfersAreFunded` |
| `ArbitrageKeepsBooks` | `ArbitrageSpec => BookSpec` (the books are those of `HedgeBook`) |
| `ArbitrageTradeShrinks`, `ArbitrageTradeWaits` | a trade makes at most ten steps; where it waits, what it waits for is on its way or was lost by the node |
| `FeedIsTyped`, `FeedQuotesAreSnapshots`, `FeedLimitsAreFresh`, `FeedBacklogIsBounded` | `FeedSpec` keeps `FeedTypeOK`, `PollQuotesAreSnapshots`, `LimitNotOlderThanQuote`, `BacklogBound` |
| `FeedStartHangs`, `FeedStartNeverWaits` | `FeedSpec => StartupHangs`: with more pairs than the channel has places main never reaches its loop; otherwise no send of the start finds the channel full |
| `LoopTyped`, `LoopTradesOnQuotes`, `LoopTradesOnMarket` | `LoopSpec` keeps `LoopTypeOK`, `TradeNeedsBothQuotes`, `TradesOnMarket` |
| `LoopHearsTheMarket`, `LoopKeepsPings` | while the connection is open, main's price is Binance's once nothing is on its way, and a ping that was not answered is still before the reader |
| `StreamTyped`, `StreamKeepsOrder`, `StreamEndsComplete` | `StreamSpec` keeps `StreamTypeOK`, `OrderKept`, `CompleteOrError` |
| `StreamImplementsDelivery` | `StreamSpec => DeliverySpec` |
| `StreamLeavesNoGoroutine`, `StreamEndIsFinal` | when `Close` or `Unsubscribe` has returned no goroutine is left, and nothing is sent to the caller's channel after that or after a failure |
| `DemoTyped`, `DemoDriftIsBounded` | `DemoSpec` keeps `DemoTypeOK`, `DriftBounded` |
| `DemoIsUpToDate` | a pair the demo has heard of, with none of its logs on the way, is off by at most the one swap it counts twice |
| `LimitsProtect`, `SecretsAreReadBack`, `RequestsAreWellFormed` | `CalcSpec` keeps `LimitsBoundPrice`, `SecretsSurvive`, `RequestWellFormed` |
| `SwapNeverSells` | a pair refuses what a sale by `Swap` asks for, whatever its reserves and the amount, even if that amount had been paid in as tokens and for the least fee |
| `PriceIsWithinAPart` | the price of a pair with `N` whole units of each token is within one part in `N` of the demo's `priceFloat` |

Hardly any of these properties is inductive.

**The account** (`UniWalletProofs`). `CacheLagsByAtMostOne` for instance survives a
block only if the pending transaction has a nonce that is not ahead of the cache,
whatever process sent it. `WalletIInv` adds what is missing:

* `CurFits`: the phase, the transaction in `cur` and the cached nonce agree: while
  sending, `cur` has the cached nonce; while waiting, the one below;
* `MinedBelowChain`: what is mined has a nonce below the chain's, so a receipt of
  `cur` means that the chain has reached the cache;
* `OnePending`: what is pending has the chain's nonce, and any two pending
  transactions are equal, stated without cardinality;
* `NoneAheadOfCache`: while there is a process, no request and no pending
  transaction has a nonce above the one the cache is at.

`WalletInductive` has one step per action; the theorems follow from it. `HistoryFits`
is about what became of what was signed: a transaction is at one place and an id is
given once (`SignedOnce`), the node's answer is about the transaction being sent and
there is one, or the request is on its way (`AnswerFits`), a block appends the next
nonce to the history (`OnePerNonce`), and what an operation returned says how its
transaction stands to the chain and the cache (`ResultFits`). It is why the retry
that `onTick` makes after a failed `BuyEth` is safe: the first buy and the second carry
the same nonce.

**The start-up** (`UniBrokerProofs`). `BrokerIInv` says where `Mainloop` is and that a
transaction is in flight only while an approval or an operation is; with it every
step of the broker is a wallet step or a stutter, so `WalletIInv` holds of the
broker too. `ApprovalIInv` then says that an approval of a token that is already
approved has a nonce that is used up, whether it is on its way
(`LateApprovalsAreSpent`) or is the one the process is about to send after it read
a zero allowance (`NextApprovalIsSpent`): only a block can approve a token, and a
block uses up the nonce both have. `AllowanceIInv` says that the tokens before
`idx` are approved. `StepsLeft` is a rank of the place in the start-up, by token and then
by what is done about it; every step of `Mainloop` lowers it and no other step raises
it.

**The trades** (`ArbitrageProofs`). After the same simulation, `TradeIInv` is about
what can still be mined. `OpenIsCovered`: a transaction whose nonce is not used up,
of whichever process, has room for one more unhedged lot, and a transfer has a lot
to take. `StepsAreCovered`: at each step of `onTick` what the next one needs is
there; between a receipt and the next send the account is `Quiet`, nothing of any
process can be mined. `AnswersFit`: a request is answered once and no transaction
is signed twice. `BooksBalance` holds the bounds themselves. `TradeLeft` ranks the places
in `onTick`, as `StepsLeft` does those of the start-up.

**The feed** (`PriceFeedProofs`). Types are not obvious here: the handler adds 1 to a
number it took a step before, and `NumbersHeld` says that this number, and every
reserve but the one being written, is not torn, also when the poller takes the pair
away under the handler. `Polled` is about a process without a subscription: the two
reserves of a pair differ only between the poller's two stores, and then the first is
the one fetched; as what is known of a pair (`chain` and `undone` together) only grows
(`KnownGrows`), quotes stay prices it had. `Fresh` adds, while no block is taken
back, that what the poller fetched is no older than what it replaces, so the
reserves rise (`ReservesRise`) and a limit read from them is no older than any quote.
`BacklogBound` needs a count: `Owed` says that the stale quotes main took, those in the
channel, the logs of earlier epochs that wait (`StaleCount` of either), and the quotes the
poller's round and the log handler may still send are together within the bound; a send, a
receive or a log taken moves one from one of these to another (`StaleCountAppend`,
`StaleCountTail`), a new log is of the present epoch, and the end of a trade starts the
count anew, with `late` for the logs.
`StartFits` says that during the start the channel holds exactly the quotes of the pairs
the first query has passed, since nobody takes any.

**The loop** (`TradingLoopProofs`). A price that is not the initial one was taken
from the channel (`QuotesTaken`), and main is in a trade only on prices that pass
(`TradeJustified`). With `NewestIsMarket` this gives `TradesOnMarket`: when nothing newer
is on its way, the price that passed is the market's. `NewestIsMarket` follows Binance's last price on its way: the last
ticker on the wire has it; if there is none, the ticker in the reader's hand; then the
last one in the channel; then main. `WireFits` adds the pings, and holds while the
connection does.

**The streams** (`EventStreamsProofs`). `Flow`, what was delivered, is in hand, in the
channel and at the source, in this order, is what was asked for as long as nothing was
cut off, and begins it afterwards (`FlowFits`); that what the node finds is what the
caller meant is checked for the arguments of all twelve events (`RulesFit`). For an
iterator `EndFits` adds that nothing is cut off before the caller closes it or a log
fails, and that it says "end" only after its source is over and its channel empty. The
refinement needs both: a log at the head of the channel is the one after the last
delivered (`HeadIsUpcoming`), and an end comes when `Flow` is just what was delivered.
`QuitFits` is that `Close` and `Unsubscribe` return after their goroutine.

**The demo** (`PriceDemoProofs`). A Swap on its way comes right after the Sync of its
pair (`SwapsFollowSyncs`), so the one that is handled next finds the reserves of that
Sync (`NextSwapIsNew`). `LogsFit` says that, while the subscription lives and no block is
taken back, the last Sync of a pair on its way carries the chain's reserves; when none is
on its way, the last one handled did.

**The calculations** (`CalculationsProofs`). The result is that of its task
(`ResultFits`); the rest is arithmetic over two lemmas on division, `Quotient` and
`Cancel`, one on the truncations of a price (`WholeUnits`), a lemma that unpadding undoes padding (`RoundTrip`), and the invariant of
the walk through the parameters (`WalkFits`).

Only model-checked is liveness (fairness and `ENABLED` are out of the prover's reach):
`StartupEnds`, `TradeEnds`, `Converges`, `BnPriceFollows`, `PingAnswered`,
`CallsReturn`, `BreakIsReported`, `CatchesUp`, `EndedStreamEndsDemo`, and the first half
of `StartupCompletes`. For most of them the part that is not fairness is proved, so that
what TLC adds on its small instance is that enabled steps are taken: for `StartupEnds` and
`TradeEnds` a rank that every step lowers and that no wait is for something forgotten; for
`StartupCompletes` that no send waits, or, in the other case, that the loop is never
reached; for `BnPriceFollows`, `PingAnswered` and `CatchesUp` that when nothing is on its
way the end is reached.

## 5. What is left out

Gas and interest; the encoding of transactions, JSON and HTTP; logging. The
amounts of `Arbitrage` are lots, those of `SwapMath` are integers; float64's own
rounding, far below a unit, is left out of `Price` and of the limits. Other users of
the account's key. The threshold of the spread, 0.53%, is "cheaper". The number of
confirmations Binance waits for is part of `slow`. Late execution at Binance, after
its request failed, is not modelled: a failed request was refused, or executed at
once with its answer lost.

Not modelled:

* the answers of the listen key, interest and position requests: they are printed,
  and nothing reads them;
* the choice between a mnemonic and a hexadecimal key (uniswap.go:49-71) and the
  derivation (201-229): library calls without state. A mnemonic has one space fewer
  than the code compares with;
* the decoding of the configuration file and the look-ups of `eth_contract_abi.go` (of
  which `Kinds` has the events): tables that end the process when an entry is missing;
* the wrappers of contract methods in the bindings: they pass arguments on;
* `SwapHelper.sol`, which nothing calls, the small commands, which make one call each,
  the foundry template and the tests.

## 6. Where the code and its documents disagree

* `wallet_gaspaid`: the comment beside the bump (uniswap.go:169, 624, 688, 732)
  says that the nonce is bumped whenever gas was paid. When only the answer of
  `SendTransaction` is lost, gas is paid and the nonce is not bumped. After that
  every operation of the process is refused, until it is restarted
  (`WedgedUntilRestart`).
* `feed_sync`: docs/03 explains that pairs must not be cloned, since changes to
  a clone are lost; `handleLog` changes a clone when it handles Sync (331, 346).
* `feed_swap`: docs/01 defines the price from the reserves `getReserve` returns.
  A Swap log is added in place to shared reserves that may include it already,
  or are read half changed (360-363), and a quote of a price that never was goes
  to main. `Converges` shows that polling repairs it.
* `loop_close`: binance.go:429 ends the process when the server sends a close. The
  library returns a close as an error, the goroutine prints it and ends (354-360),
  and main goes on with the last price of Binance it heard.
* `calc_paths`: the comments at uniswap.go:613 and 677 say that `path[0]` is the token
  paid and `path[1]` the one obtained. The paths are fixed as token 0, token 1 and its
  reverse, whereas the amounts follow `QuoteIsToken1`: for a pair whose quote is token 1
  both name the wrong direction.

Three disagreements have no run of their own:

* The comment at uniswap.go:522 has it that `x*y=k` gives the USDC a sale by `Swap`
  obtains. `SwapNeverSells` proves that the pair refuses to give it, since the fee is
  forgotten and the rest is rounded the wrong way; besides, `Swap` pays no tokens in.
  Nothing in the repository calls `Swap`.
* docs/01 (line 104) gives the error of a price computed from whole units as below 1e-8,
  and the comment of the demo (main.go:57) as almost none. `PriceIsWithinAPart` proves
  one part in `N` for `N` whole units of either token, so 1e-8 is sure from 1e8 on; the
  documents' own first sample (83231 and 21788 units: 3.820039 against 3.820073) is off
  by 9e-6.
* docs/01 (lines 42-44) defines a price from the reserves `getReserve` returns. The demo
  adds the amounts of each Swap to reserves that the Sync before it has already set, so
  between a Swap and the next Sync its price is of no block. `DriftBounded` says by how
  much it is off: one swap, and never more. It is the double count of `feed_swap`.

A price that is no number, of a pair with less than a whole unit, passes the spread test
(main.go:55-62); `TradingLoop` has such prices and trades on them as the code does. The
repository says neither that this is meant nor that it is not, so it is neither a
property nor a finding.

## 7. What could follow

The composition of `PriceFeed`, `TradingLoop` and `Arbitrage` in one specification,
with the quotes of the first as those of the second; the instances TLC could check
of it would be smaller than the ones above, and the hand-over between them, a price
in a channel, is what each of them leaves free.
