----------------------------- MODULE TradingLoop -----------------------------
(***************************************************************************)
(* How main (cmd/arbitrage/main.go) decides to trade, and how Binance's    *)
(* price gets to it (exchange/binance.go).  A goroutine, the reader, reads *)
(* Binance's stream and sends each ticker into bnBboCh; main takes quotes  *)
(* from the two channels, keeps the last price of each exchange and trades *)
(* when the spread is wide enough.  While it trades it takes nothing.      *)
(*                                                                         *)
(* Uniswap's half is external here (PriceFeed models it): its quotes are   *)
(* any reserves in whole units, its prices the quotient Price computes.  A *)
(* trade is one step (Arbitrage models it); its threshold of 0.53% is      *)
(* abstracted to "cheaper".  Binance, and gorilla's connection with its    *)
(* default handlers, are external.                                         *)
(***************************************************************************)
EXTENDS Naturals, Sequences

CONSTANTS
  BnPrices,   \* prices of Binance, in quote units for one base unit
  Units,      \* bound: whole units of a token in a pair
  Cap,        \* capacity of bboCh (128)
  MaxTickers, \* bound: tickers of Binance
  MaxQuotes,  \* bound: quotes of Uniswap
  MaxPings    \* bound: pings of Binance

ASSUME LoopAssumption ==
  /\ BnPrices \subseteq Nat \ {0}
  /\ Units \in Nat \ {0} /\ Cap \in Nat \ {0}
  /\ MaxTickers \in Nat /\ MaxQuotes \in Nat /\ MaxPings \in Nat

VARIABLES
  main,      \* "listenKey", "position", "loop", "trade" or "down" (no process)
  uniPrice,  \* the quotient of its fields; 0/1 before the first quote
  bnPrice,   \* 0 before the first ticker
  uniCh,     \* uniBboCh
  bnCh,      \* bnBboCh
  reader,    \* "none", "dial", "read", "send" or "ended"
  ticker,    \* the price the reader is sending
  conn,      \* Binance's end: "none", "open", "closed" (a close frame) or "broken"
  wire,      \* frames on their way to the reader
  pinged,    \* a ping is not answered yet
  market,    \* Binance's price
  tickers, quotes, pings   \* how many there have been

uniVars    == <<uniCh, quotes>>
priceVars  == <<uniPrice, bnPrice>>
readVars   == <<reader, ticker>>
serverVars == <<conn, market, tickers, pings>>
loopVars   == <<main, priceVars, uniVars, bnCh, readVars, serverVars, wire, pinged>>

\* A price of a pair, base and quote being what is in it in whole units.
UniPrice == [quote : 0..Units, base : 0..Units]
NotQuoted == [quote |-> 0, base |-> 1]

Frame ==
  [kind : {"ticker"}, price : BnPrices]
  \cup [kind : {"other", "garbled", "ping", "close"}, price : {0}]

LoopTypeOK ==
  /\ main \in {"listenKey", "position", "loop", "trade", "down"}
  /\ uniPrice \in UniPrice /\ bnPrice \in BnPrices \cup {0}
  /\ uniCh \in Seq(UniPrice) /\ Len(uniCh) <= Cap /\ bnCh \in Seq(BnPrices) /\ Len(bnCh) <= Cap
  /\ reader \in {"none", "dial", "read", "send", "ended"}
  /\ ticker \in BnPrices \cup {0}
  /\ reader = "send" <=> ticker # 0
  /\ conn \in {"none", "open", "closed", "broken"}
  /\ wire \in Seq(Frame) /\ pinged \in BOOLEAN
  /\ market \in BnPrices \cup {0}
  /\ tickers \in 0..MaxTickers /\ quotes \in 0..MaxQuotes /\ pings \in 0..MaxPings

LoopInit ==
  /\ main = "listenKey"
  /\ uniPrice = NotQuoted /\ bnPrice = 0
  /\ uniCh = <<>> /\ bnCh = <<>>
  /\ reader = "none" /\ ticker = 0
  /\ conn = "none" /\ wire = <<>> /\ pinged = FALSE
  /\ market = 0 /\ tickers = 0 /\ quotes = 0 /\ pings = 0

Up == main # "down"

-----------------------------------------------------------------------------
(* Uniswap's quotes and Binance (external). *)

\* The broker started before: its quotes may come from the first moment on.
UniQuotes ==
  /\ Up /\ quotes < MaxQuotes /\ Len(uniCh) < Cap
  /\ \E q \in UniPrice : uniCh' = Append(uniCh, q)
  /\ quotes' = quotes + 1
  /\ UNCHANGED <<main, priceVars, bnCh, readVars, serverVars, wire, pinged>>

Publish ==
  /\ conn = "open" /\ tickers < MaxTickers
  /\ \E p \in BnPrices :
       /\ market' = p
       /\ wire' = Append(wire, [kind |-> "ticker", price |-> p])
  /\ tickers' = tickers + 1
  /\ UNCHANGED <<main, priceVars, uniVars, bnCh, readVars, conn, pinged, pings>>

\* A message without a symbol or of another channel, and one that is no JSON.
PublishOther ==
  /\ conn = "open" /\ tickers < MaxTickers
  /\ \E k \in {"other", "garbled"} : wire' = Append(wire, [kind |-> k, price |-> 0])
  /\ tickers' = tickers + 1
  /\ UNCHANGED <<main, priceVars, uniVars, bnCh, readVars, conn, pinged, market, pings>>

Ping ==
  /\ conn = "open" /\ ~pinged /\ pings < MaxPings
  /\ wire' = Append(wire, [kind |-> "ping", price |-> 0])
  /\ pinged' = TRUE /\ pings' = pings + 1
  /\ UNCHANGED <<main, priceVars, uniVars, bnCh, readVars, conn, market, tickers>>

\* With a close frame, or without one; a ping not answered for too long is one of
\* its reasons.
Close ==
  /\ conn = "open"
  /\ \/ conn' = "closed" /\ wire' = Append(wire, [kind |-> "close", price |-> 0])
     \/ conn' = "broken" /\ wire' = wire
  /\ UNCHANGED <<main, priceVars, uniVars, bnCh, readVars, market, tickers, pings, pinged>>

-----------------------------------------------------------------------------
(* onTick's spread. *)

\* "spread <= 0.0053" is false for a wide spread, and for one that is no number: it
\* is NaN when the price on the chain is NaN or infinite, and infinite when it is 0.
Passes(uni, bn) ==
  \/ uni.base = 0
  \/ uni.quote = 0
  \/ uni.quote < bn * uni.base

-----------------------------------------------------------------------------
(* Variants of the actions below with a plausible bug, to show what the        *)
(* properties of this module detect.                                           *)

\* A quote of Binance alone is enough.
TakeBn_Unchecked ==
  /\ main = "loop" /\ bnCh # <<>>
  /\ bnPrice' = Head(bnCh) /\ bnCh' = Tail(bnCh)
  /\ main' = IF Passes(uniPrice, bnPrice') THEN "trade" ELSE "loop"
  /\ UNCHANGED <<uniPrice, uniVars, readVars, serverVars, wire, pinged>>

\* Prices in the way are dropped.
SendTicker_Drops ==
  /\ Up /\ reader = "send"
  /\ bnCh' = IF Len(bnCh) < Cap THEN Append(bnCh, ticker) ELSE bnCh
  /\ reader' = "read" /\ ticker' = 0
  /\ UNCHANGED <<main, priceVars, uniVars, serverVars, wire, pinged>>

\* A ping handler that does nothing, so that the message's case is reached.
ReadPing_Swallowed ==
  /\ Up /\ reader = "read" /\ wire # <<>> /\ Head(wire).kind = "ping"
  /\ wire' = Tail(wire)
  /\ UNCHANGED <<main, priceVars, uniVars, bnCh, readVars, serverVars, pinged>>

-----------------------------------------------------------------------------
(* Mainloop of the Binance broker: the listen key, then the position; any error *)
(* ends the process.                                                            *)

CreateListenKey ==
  /\ main = "listenKey"
  /\ main' \in {"position", "down"}
  /\ UNCHANGED <<priceVars, uniVars, bnCh, readVars, serverVars, wire, pinged>>

\* The goroutine of the stream is started, and Mainloop returns to main.
StartReader == main' = "loop" /\ reader' = "dial"

\* The request fails, or one of its amounts is no number; otherwise the assets are
\* kept, but nothing reads them.
GetPosition ==
  /\ main = "position"
  /\ StartReader \/ (main' = "down" /\ reader' = reader)
  /\ UNCHANGED <<priceVars, uniVars, bnCh, ticker, serverVars, wire, pinged>>

-----------------------------------------------------------------------------
(* The reader: publicWsMainLoop, which its goroutine runs once. *)

\* One connection for the tickers of all symbols.
Dial ==
  /\ Up /\ reader = "dial"
  /\ \/ reader' = "read" /\ conn' = "open" /\ main' = main
     \/ main' = "down" /\ UNCHANGED <<reader, conn>>
  /\ UNCHANGED <<priceVars, uniVars, bnCh, ticker, market, tickers, pings, wire, pinged>>

ReadText ==
  /\ Up /\ reader = "read" /\ wire # <<>>
  /\ \/ /\ Head(wire).kind = "ticker"
        /\ reader' = "send" /\ ticker' = Head(wire).price /\ main' = main
     \/ /\ Head(wire).kind = "other"
        /\ UNCHANGED <<main, readVars>>
     \/ /\ Head(wire).kind = "garbled"
        /\ main' = "down" /\ UNCHANGED readVars
  /\ wire' = Tail(wire)
  /\ UNCHANGED <<priceVars, uniVars, bnCh, serverVars, pinged>>

\* ReadMessage answers a ping itself and goes on to the next message: the switch's
\* cases of control frames are never reached.
ReadPing ==
  /\ Up /\ reader = "read" /\ wire # <<>> /\ Head(wire).kind = "ping"
  /\ wire' = Tail(wire)
  /\ pinged' = FALSE
  /\ UNCHANGED <<main, priceVars, uniVars, bnCh, readVars, serverVars>>

\* ReadMessage returns a close frame, and a connection that broke, as an error:
\* publicWsMainLoop returns it, and the goroutine prints it and ends.
ReadFails ==
  /\ Up /\ reader = "read"
  /\ \/ wire # <<>> /\ Head(wire).kind = "close"
     \/ wire = <<>> /\ conn = "broken"
  /\ wire' = <<>>
  /\ reader' = "ended"
  /\ UNCHANGED <<main, priceVars, uniVars, bnCh, ticker, serverVars, pinged>>

SendTicker ==
  /\ Up /\ reader = "send" /\ Len(bnCh) < Cap
  /\ bnCh' = Append(bnCh, ticker)
  /\ reader' = "read" /\ ticker' = 0
  /\ UNCHANGED <<main, priceVars, uniVars, serverVars, wire, pinged>>

-----------------------------------------------------------------------------
(* main's select, and onTick up to its decision. *)

OnTick(uni, bn) == main' = IF Passes(uni, bn) THEN "trade" ELSE "loop"

TakeUni ==
  /\ main = "loop" /\ uniCh # <<>>
  /\ uniPrice' = Head(uniCh) /\ uniCh' = Tail(uniCh)
  /\ IF bnPrice = 0 THEN main' = main ELSE OnTick(uniPrice', bnPrice)
  /\ UNCHANGED <<bnPrice, quotes, bnCh, readVars, serverVars, wire, pinged>>

TakeBn ==
  /\ main = "loop" /\ bnCh # <<>>
  /\ bnPrice' = Head(bnCh) /\ bnCh' = Tail(bnCh)
  /\ IF uniPrice.quote = 0 /\ uniPrice.base # 0 THEN main' = main
                                               ELSE OnTick(uniPrice, bnPrice')
  /\ UNCHANGED <<uniPrice, uniVars, readVars, serverVars, wire, pinged>>

\* The trade is over, or ended the process.
TradeOver ==
  /\ main = "trade"
  /\ main' \in {"loop", "down"}
  /\ UNCHANGED <<priceVars, uniVars, bnCh, readVars, serverVars, wire, pinged>>

-----------------------------------------------------------------------------
Main    == CreateListenKey \/ GetPosition \/ TakeUni \/ TakeBn \/ TradeOver
Reader  == Dial \/ ReadText \/ ReadPing \/ ReadFails \/ SendTicker
Binance == Publish \/ PublishOther \/ Ping \/ Close

LoopNext == UniQuotes \/ Binance \/ Main \/ Reader

LoopSpec == LoopInit /\ [][LoopNext]_loopVars

\* The process's goroutines run whenever they are not blocked, trades end, and
\* main's select does not forget a channel that has quotes.
LoopFairSpec ==
  /\ LoopSpec
  /\ WF_loopVars(CreateListenKey \/ GetPosition \/ TradeOver) /\ WF_loopVars(Reader)
  /\ SF_loopVars(TakeBn) /\ SF_loopVars(TakeUni)

-----------------------------------------------------------------------------
(* Properties. *)

\* No trade starts before both exchanges have quoted: the price 0 stands for "not
\* yet" in both.
TradeNeedsBothQuotes ==
  main = "trade" => bnPrice # 0 /\ quotes > Len(uniCh)

\* A trade is justified by the price Binance has now, however many tickers waited
\* while main traded before, unless a newer one is still on its way: main takes none
\* while it trades.
TradesOnMarket ==
  main = "trade" /\ conn = "open" /\ wire = <<>> /\ reader # "send" /\ bnCh = <<>>
    => Passes(uniPrice, market)

\* While the connection lasts, Binance's price gets to main, however long its trades
\* take and however many tickers wait meanwhile.
BnPriceFollows ==
  (<>[](conn = "open" /\ Up)) => <>[](bnPrice = market)

\* A ping of Binance is answered, though the reader may be blocked by main's trade.
PingAnswered == pinged ~> (~pinged \/ conn # "open" \/ ~Up)

\* log.Fatalln("server send close") (exchange/binance.go:429): when Binance has sent
\* a close frame and the reader has read it, the process does not go on.
ServerCloseIsFatal == conn = "closed" /\ reader = "ended" => ~Up

=============================================================================
