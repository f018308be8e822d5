-------------------------- MODULE TradingLoopProofs --------------------------
(***************************************************************************)
(* What the trading loop promises for any prices, any channel capacity and *)
(* any number of quotes, tickers and pings, whatever Binance's connection  *)
(* does: both exchanges have quoted before a trade starts, and no price    *)
(* or ping of Binance is lost on its way to it.                            *)
(***************************************************************************)
EXTENDS TradingLoop, SequenceTheorems, TLAPS

\* How many quotes main has taken, and what a price that is not the initial one
\* tells of them.
QuotesTaken ==
  /\ Len(uniCh) <= quotes
  /\ uniPrice # NotQuoted => quotes > Len(uniCh)

\* Why main is in a trade.
TradeJustified ==
  main = "trade" =>
    /\ bnPrice # 0 /\ quotes > Len(uniCh)
    /\ Passes(uniPrice, bnPrice)

\* Mainloop starts the reader last, and the reader begins with the connection.
ReaderStartsLast ==
  /\ main \in {"listenKey", "position"} => reader = "none"
  /\ reader \in {"none", "dial"} => conn = "none"

LoopIInv == LoopTypeOK /\ QuotesTaken /\ TradeJustified /\ ReaderStartsLast

-----------------------------------------------------------------------------
\* A frame is one, whatever its kind.
LEMMA FramesAreFrames ==
  /\ \A p \in BnPrices : [kind |-> "ticker", price |-> p] \in Frame
  /\ \A k \in {"other", "garbled", "ping", "close"} : [kind |-> k, price |-> 0] \in Frame
BY DEF Frame

\* Before the first call nobody has quoted.
LEMMA LoopInitial == LoopInit => LoopIInv
<1> SUFFICES ASSUME LoopInit PROVE LoopIInv
  OBVIOUS
<1>1. NotQuoted \in UniPrice
  BY LoopAssumption DEF NotQuoted, UniPrice
<1>2. 0 \in 0..MaxTickers /\ 0 \in 0..MaxQuotes /\ 0 \in 0..MaxPings
  BY LoopAssumption
<1>3. /\ uniCh \in Seq(UniPrice) /\ bnCh \in Seq(BnPrices) /\ wire \in Seq(Frame)
      /\ Len(uniCh) = 0 /\ Len(bnCh) = 0
  BY DEF LoopInit
<1>4. LoopTypeOK
  <2>1. uniPrice \in UniPrice /\ Len(uniCh) <= Cap /\ Len(bnCh) <= Cap
    BY <1>1, <1>3, LoopAssumption DEF LoopInit
  <2>2. pinged \in BOOLEAN
    BY DEF LoopInit
  <2>3. tickers \in 0..MaxTickers /\ quotes \in 0..MaxQuotes /\ pings \in 0..MaxPings
    BY <1>2 DEF LoopInit
  <2> QED
    BY <1>3, <2>1, <2>2, <2>3 DEF LoopInit, LoopTypeOK
<1>5. QuotesTaken /\ TradeJustified /\ ReaderStartsLast
  BY <1>3 DEF LoopInit, QuotesTaken, TradeJustified, ReaderStartsLast
<1> QED
  BY <1>4, <1>5 DEF LoopIInv

\* The environment only adds to what is on its way.
LEMMA OutsideKeeps ==
  LoopIInv /\ (UniQuotes \/ Binance) => LoopIInv'
<1> SUFFICES ASSUME LoopIInv, UniQuotes \/ Binance PROVE LoopIInv'
  OBVIOUS
<1> USE LoopAssumption DEF LoopIInv, LoopTypeOK, QuotesTaken, TradeJustified, ReaderStartsLast, Up
<1>1. CASE UniQuotes
  <2>1. PICK q \in UniPrice : uniCh' = Append(uniCh, q)
    BY <1>1 DEF UniQuotes
  <2>2. uniCh' \in Seq(UniPrice) /\ Len(uniCh') = Len(uniCh) + 1
    BY <2>1
  <2>3. Len(uniCh') <= Cap /\ quotes' \in 0..MaxQuotes /\ Len(uniCh') <= quotes'
    BY <1>1, <2>2 DEF UniQuotes
  <2>4. quotes' - Len(uniCh') = quotes - Len(uniCh)
    BY <1>1, <2>2 DEF UniQuotes
  <2> QED
    BY <1>1, <2>2, <2>3, <2>4 DEF UniQuotes, priceVars, readVars, serverVars
<1>2. CASE Publish
  <2>1. PICK p \in BnPrices :
          market' = p /\ wire' = Append(wire, [kind |-> "ticker", price |-> p])
    BY <1>2 DEF Publish
  <2>2. wire' \in Seq(Frame)
    BY <2>1, FramesAreFrames
  <2>3. tickers' \in 0..MaxTickers
    BY <1>2 DEF Publish
  <2> QED
    BY <1>2, <2>1, <2>2, <2>3 DEF Publish, priceVars, readVars, uniVars
<1>3. CASE PublishOther
  <2>1. wire' \in Seq(Frame)
    BY <1>3, FramesAreFrames DEF PublishOther
  <2>2. tickers' \in 0..MaxTickers
    BY <1>3 DEF PublishOther
  <2> QED
    BY <1>3, <2>1, <2>2 DEF PublishOther, priceVars, readVars, uniVars
<1>4. CASE Ping
  <2>1. wire' \in Seq(Frame)
    BY <1>4, FramesAreFrames DEF Ping
  <2>2. pings' \in 0..MaxPings
    BY <1>4 DEF Ping
  <2> QED
    BY <1>4, <2>1, <2>2 DEF Ping, priceVars, readVars, uniVars
<1>5. CASE Close
  <2>1. [kind |-> "close", price |-> 0] \in Frame
    BY FramesAreFrames
  <2>2. wire' = wire \/ wire' = Append(wire, [kind |-> "close", price |-> 0])
    BY <1>5 DEF Close
  <2>3. wire' \in Seq(Frame)
    <3>1. CASE wire' = wire
      BY <3>1
    <3>2. CASE wire' = Append(wire, [kind |-> "close", price |-> 0])
      BY <2>1, <3>2
    <3> QED
      BY <2>2, <3>1, <3>2
  <2>4. conn = "open" /\ conn' \in {"none", "open", "closed", "broken"}
    BY <1>5 DEF Close
  <2>5. UNCHANGED <<main, priceVars, uniVars, bnCh, readVars, market, tickers, pings, pinged>>
    BY <1>5 DEF Close
  <2> QED
    BY <2>3, <2>4, <2>5 DEF priceVars, readVars, uniVars
<1> QED
  BY <1>1, <1>2, <1>3, <1>4, <1>5 DEF Binance

\* The reader hands on prices of Binance and nothing else.
LEMMA ReaderKeeps == LoopIInv /\ Reader => LoopIInv'
<1> SUFFICES ASSUME LoopIInv, Reader PROVE LoopIInv'
  OBVIOUS
<1> USE LoopAssumption DEF LoopIInv, LoopTypeOK, QuotesTaken, TradeJustified, ReaderStartsLast, Up
<1>1. CASE Dial
  BY <1>1 DEF Dial, priceVars, uniVars
\* What is taken off the wire leaves a sequence of frames.
<1>2. wire # <<>> => Tail(wire) \in Seq(Frame) /\ Head(wire) \in Frame
  OBVIOUS
<1>3. CASE ReadText
  <2>1. wire' \in Seq(Frame)
    BY <1>2, <1>3 DEF ReadText
  <2>2. ticker' \in BnPrices \cup {0} /\ (reader' = "send" <=> ticker' # 0)
    BY <1>2, <1>3 DEF ReadText, Frame, readVars
  <2> QED
    BY <1>3, <2>1, <2>2 DEF ReadText, priceVars, uniVars, serverVars, readVars
<1>4. CASE ReadPing
  BY <1>2, <1>4 DEF ReadPing, priceVars, uniVars, serverVars, readVars
<1>5. CASE ReadFails
  <2>1. wire' \in Seq(Frame)
    BY <1>5 DEF ReadFails
  <2> QED
    BY <1>5, <2>1 DEF ReadFails, priceVars, uniVars, serverVars
<1>6. CASE SendTicker
  <2>1. ticker \in BnPrices
    BY <1>6 DEF SendTicker
  <2>2. bnCh' \in Seq(BnPrices) /\ Len(bnCh') <= Cap
    BY <1>6, <2>1 DEF SendTicker
  <2> QED
    BY <1>6, <2>2 DEF SendTicker, priceVars, uniVars, serverVars
<1> QED
  BY <1>1, <1>3, <1>4, <1>5, <1>6 DEF Reader

\* main trades after it took a price, and only when the other exchange's is known.
LEMMA MainKeeps == LoopIInv /\ Main => LoopIInv'
<1> SUFFICES ASSUME LoopIInv, Main PROVE LoopIInv'
  OBVIOUS
<1> USE LoopAssumption DEF LoopIInv, LoopTypeOK, QuotesTaken, TradeJustified, ReaderStartsLast, Up
<1>1. CASE CreateListenKey
  BY <1>1 DEF CreateListenKey, priceVars, uniVars, serverVars, readVars
<1>2. CASE GetPosition
  <2>1. UNCHANGED <<priceVars, uniVars, bnCh, ticker, serverVars, wire, pinged>>
    BY <1>2 DEF GetPosition, StartReader
  <2>2. main' \in {"loop", "down"} /\ reader' \in {"dial", reader} /\ conn = "none"
    BY <1>2 DEF GetPosition, StartReader
  <2>3. (reader' = "send" <=> ticker' # 0)
    BY <1>2, <2>1, <2>2 DEF GetPosition, StartReader
  <2> QED
    BY <2>1, <2>2, <2>3 DEF priceVars, uniVars, serverVars
<1>3. CASE TakeUni
  <2>1. /\ uniPrice' \in UniPrice /\ uniCh' \in Seq(UniPrice)
        /\ Len(uniCh') = Len(uniCh) - 1
    BY <1>3 DEF TakeUni
  <2>2. Len(uniCh') <= Cap /\ quotes' = quotes /\ Len(uniCh') < quotes'
    BY <1>3, <2>1 DEF TakeUni
  <2>3. main' = "trade" => bnPrice' # 0 /\ Passes(uniPrice', bnPrice')
    BY <1>3 DEF TakeUni, OnTick
  <2>4. main' \in {"loop", "trade"}
    BY <1>3 DEF TakeUni, OnTick
  <2> QED
    BY <1>3, <2>1, <2>2, <2>3, <2>4 DEF TakeUni, serverVars, readVars
<1>4. CASE TakeBn
  <2>1. bnPrice' \in BnPrices /\ bnCh' \in Seq(BnPrices) /\ Len(bnCh') <= Cap
    BY <1>4 DEF TakeBn
  <2>2. bnPrice' # 0
    BY <2>1
  \* The initial price counts as none.
  <2>3. main' = "trade" => uniPrice # NotQuoted /\ Passes(uniPrice', bnPrice')
    BY <1>4 DEF TakeBn, OnTick, NotQuoted
  <2>4. main' \in {"loop", "trade"}
    BY <1>4 DEF TakeBn, OnTick
  <2> QED
    BY <1>4, <2>1, <2>2, <2>3, <2>4 DEF TakeBn, uniVars, serverVars, readVars
<1>5. CASE TradeOver
  BY <1>5 DEF TradeOver, priceVars, uniVars, serverVars, readVars
<1> QED
  BY <1>1, <1>2, <1>3, <1>4, <1>5 DEF Main

LEMMA LoopInvariant == LoopSpec => []LoopIInv
<1>1. LoopIInv /\ UNCHANGED loopVars => LoopIInv'
  BY DEF LoopIInv, LoopTypeOK, QuotesTaken, TradeJustified, ReaderStartsLast, Passes, loopVars, priceVars,
         uniVars, readVars, serverVars
<1>2. LoopIInv /\ [LoopNext]_loopVars => LoopIInv'
  BY <1>1, OutsideKeeps, ReaderKeeps, MainKeeps DEF LoopNext
<1> QED
  BY <1>2, LoopInitial, PTL DEF LoopSpec

-----------------------------------------------------------------------------
\* The loop keeps its types: its channels within their capacity, and no price that
\* is not Binance's in bnBboCh.
THEOREM LoopTyped == LoopSpec => []LoopTypeOK
BY LoopInvariant, PTL DEF LoopIInv

\* Both exchanges have quoted before a trade starts.
THEOREM LoopTradesOnQuotes == LoopSpec => []TradeNeedsBothQuotes
<1>1. LoopIInv => TradeNeedsBothQuotes
  BY DEF LoopIInv, TradeJustified, TradeNeedsBothQuotes
<1> QED
  BY <1>1, LoopInvariant, PTL

-----------------------------------------------------------------------------
(* Nothing Binance sends is lost on its way to main. *)

NoTicker == \A i \in 1..Len(wire) : wire[i].kind # "ticker"

\* The newest price is the last one on the wire; with none there it is the one in the
\* reader's hand, then the last one in the channel, then main's.
NewestIsMarket ==
  /\ \A i \in 1..Len(wire) :
       wire[i].kind = "ticker" /\ (\A j \in 1..Len(wire) : j > i => wire[j].kind # "ticker")
         => wire[i].price = market
  /\ NoTicker => market = (IF reader = "send" THEN ticker
                           ELSE IF bnCh # <<>> THEN bnCh[Len(bnCh)] ELSE bnPrice)

\* As long as the connection lasts, no close is on the wire, and a ping that is not
\* answered is.
WireFits ==
  Up /\ conn \in {"none", "open"} =>
    /\ NewestIsMarket
    /\ \A i \in 1..Len(wire) : wire[i].kind # "close"
    /\ pinged => \E i \in 1..Len(wire) : wire[i].kind = "ping"

LEMMA WireInitial == LoopInit => WireFits
<1> SUFFICES ASSUME LoopInit PROVE WireFits
  OBVIOUS
<1>1. Len(wire) = 0 /\ market = 0 /\ bnPrice = 0 /\ bnCh = <<>> /\ reader = "none" /\ ~pinged
  BY DEF LoopInit
<1> QED
  BY <1>1 DEF WireFits, NewestIsMarket, NoTicker

\* A frame more on the wire: a ticker is the new price, a ping is not answered.
LEMMA WireAppends ==
  ASSUME LoopIInv, WireFits, NEW f \in Frame, wire' = Append(wire, f), f.kind # "close",
         UNCHANGED <<main, bnPrice, bnCh, readVars, conn>>,
         IF f.kind = "ticker" THEN market' = f.price ELSE market' = market,
         pinged' => pinged \/ f.kind = "ping"
  PROVE  WireFits'
<1> SUFFICES ASSUME Up, conn \in {"none", "open"} PROVE WireFits'
  BY DEF WireFits, Up
<1>1. /\ Len(wire) \in Nat /\ Len(wire') = Len(wire) + 1
      /\ \A i \in 1..Len(wire) : wire'[i] = wire[i]
      /\ wire'[Len(wire) + 1] = f
  BY DEF LoopIInv, LoopTypeOK
<1>2. /\ NewestIsMarket
      /\ \A i \in 1..Len(wire) : wire[i].kind # "close"
      /\ pinged => \E i \in 1..Len(wire) : wire[i].kind = "ping"
  BY DEF WireFits
<1>3. \A i \in 1..Len(wire') : wire'[i].kind # "close"
  BY <1>1, <1>2
<1>4. pinged' => \E i \in 1..Len(wire') : wire'[i].kind = "ping"
  BY <1>1, <1>2
<1>5. NewestIsMarket'
  <2>1. CASE f.kind = "ticker"
    <3>1. ~NoTicker'
      BY <1>1, <2>1 DEF NoTicker
    <3>2. \A i \in 1..Len(wire') :
            (\A j \in 1..Len(wire') : j > i => wire'[j].kind # "ticker") => i = Len(wire) + 1
      BY <1>1, <2>1
    <3> QED
      BY <1>1, <2>1, <3>1, <3>2 DEF NewestIsMarket
  <2>2. CASE f.kind # "ticker"
    <3>1. NoTicker' => NoTicker
      BY <1>1 DEF NoTicker
    <3>2. ASSUME NEW i \in 1..Len(wire'), wire'[i].kind = "ticker",
                 \A j \in 1..Len(wire') : j > i => wire'[j].kind # "ticker"
          PROVE  wire'[i].price = market'
      <4>1. i \in 1..Len(wire) /\ wire[i].kind = "ticker"
        BY <1>1, <2>2, <3>2
      <4>2. \A j \in 1..Len(wire) : j > i => wire[j].kind # "ticker"
        BY <1>1, <3>2
      <4> QED
        BY <1>1, <1>2, <2>2, <4>1, <4>2 DEF NewestIsMarket
    <3> QED
      BY <1>2, <2>2, <3>1, <3>2 DEF NewestIsMarket, readVars
  <2> QED
    BY <2>1, <2>2
<1> QED
  BY <1>3, <1>4, <1>5 DEF WireFits

\* A frame less: the reader has its price in hand, or it had none.
LEMMA WireTaken ==
  ASSUME LoopIInv, WireFits, wire # <<>>, wire' = Tail(wire), reader = "read",
         UNCHANGED <<bnPrice, bnCh, conn, market>>, main = "down" => main' = "down",
         IF Head(wire).kind = "ticker" THEN reader' = "send" /\ ticker' = Head(wire).price
                                       ELSE UNCHANGED readVars,
         pinged' => pinged /\ Head(wire).kind # "ping"
  PROVE  WireFits'
<1> SUFFICES ASSUME Up, conn \in {"none", "open"} PROVE WireFits'
  BY DEF WireFits, Up
<1>1. /\ Len(wire) \in Nat \ {0} /\ Len(wire') = Len(wire) - 1 /\ wire[1] = Head(wire)
      /\ \A i \in 1..Len(wire') : wire'[i] = wire[i + 1]
  BY DEF LoopIInv, LoopTypeOK
<1>2. /\ NewestIsMarket
      /\ \A i \in 1..Len(wire) : wire[i].kind # "close"
      /\ pinged => \E i \in 1..Len(wire) : wire[i].kind = "ping"
  BY DEF WireFits
\* A place on the wire is the first, or one of what is left.
<1>3. ASSUME NEW i \in 1..Len(wire), i # 1
      PROVE  i - 1 \in 1..Len(wire') /\ wire'[i - 1] = wire[i]
  <2>1. i - 1 \in 1..Len(wire') /\ (i - 1) + 1 = i
    BY <1>1, <1>3
  <2> QED
    BY <1>1, <2>1
<1>4. \A i \in 1..Len(wire') : wire'[i].kind # "close"
  BY <1>1, <1>2
<1>5. pinged' => \E i \in 1..Len(wire') : wire'[i].kind = "ping"
  BY <1>1, <1>2, <1>3
<1>6. ASSUME NEW i \in 1..Len(wire'), wire'[i].kind = "ticker",
             \A j \in 1..Len(wire') : j > i => wire'[j].kind # "ticker"
      PROVE  wire'[i].price = market'
  <2>1. i + 1 \in 1..Len(wire) /\ wire[i + 1] = wire'[i]
    BY <1>1
  <2>2. ASSUME NEW j \in 1..Len(wire), j > i + 1 PROVE wire[j].kind # "ticker"
    <3>1. j # 1 /\ j - 1 > i
      BY <1>1, <2>2
    <3> QED
      BY <1>3, <1>6, <3>1
  <2> QED
    BY <1>2, <1>6, <2>1, <2>2 DEF NewestIsMarket
<1>7. ASSUME NoTicker'
      PROVE  market' = (IF reader' = "send" THEN ticker'
                        ELSE IF bnCh' # <<>> THEN bnCh'[Len(bnCh')] ELSE bnPrice')
  <2>1. ASSUME NEW i \in 1..Len(wire), i > 1 PROVE wire[i].kind # "ticker"
    <3>1. i # 1
      BY <1>1, <2>1
    <3> QED
      BY <1>3, <1>7, <3>1 DEF NoTicker
  <2>2. CASE Head(wire).kind = "ticker"
    <3>1. wire[1].price = market
      BY <1>1, <1>2, <2>1, <2>2 DEF NewestIsMarket
    <3> QED
      BY <1>1, <2>2, <3>1
  <2>3. CASE Head(wire).kind # "ticker"
    <3>1. NoTicker
      BY <1>1, <2>1, <2>3 DEF NoTicker
    <3> QED
      BY <1>2, <2>3, <3>1 DEF NewestIsMarket, readVars
  <2> QED
    BY <2>2, <2>3
<1> QED
  BY <1>4, <1>5, <1>6, <1>7 DEF WireFits, NewestIsMarket

LEMMA WireSent == LoopIInv /\ WireFits /\ SendTicker => WireFits'
<1> SUFFICES ASSUME LoopIInv, WireFits, SendTicker PROVE WireFits'
  OBVIOUS
<1>1. /\ UNCHANGED <<main, bnPrice, conn, market, wire, pinged>>
      /\ reader = "send" /\ reader' = "read" /\ bnCh' = Append(bnCh, ticker)
  BY DEF SendTicker, priceVars, serverVars
<1>2. bnCh' # <<>> /\ bnCh'[Len(bnCh')] = ticker
  BY <1>1 DEF LoopIInv, LoopTypeOK
<1> QED
  BY <1>1, <1>2 DEF WireFits, NewestIsMarket, NoTicker, Up

LEMMA WireHeard == LoopIInv /\ WireFits /\ TakeBn => WireFits'
<1> SUFFICES ASSUME LoopIInv, WireFits, TakeBn PROVE WireFits'
  OBVIOUS
<1>1. /\ UNCHANGED <<readVars, conn, market, wire, pinged>> /\ main # "down"
      /\ bnCh # <<>> /\ bnPrice' = Head(bnCh) /\ bnCh' = Tail(bnCh)
  BY DEF TakeBn, serverVars
<1>2. bnCh[Len(bnCh)] = (IF bnCh' # <<>> THEN bnCh'[Len(bnCh')] ELSE bnPrice')
  <2>1. bnCh \in Seq(BnPrices) /\ Len(bnCh) \in Nat \ {0}
    BY <1>1 DEF LoopIInv, LoopTypeOK
  <2>2. CASE Len(bnCh) = 1
    BY <1>1, <2>1, <2>2
  <2>3. CASE Len(bnCh) # 1
    <3>1. bnCh' \in Seq(BnPrices) /\ Len(bnCh') = Len(bnCh) - 1 /\ Len(bnCh') # 0
          /\ \A k \in 1..Len(bnCh') : bnCh'[k] = bnCh[k + 1]
      BY <1>1, <2>1, <2>3
    <3>2. Len(bnCh') \in 1..Len(bnCh') /\ Len(bnCh') + 1 = Len(bnCh) /\ bnCh' # <<>>
      BY <2>1, <2>3, <3>1
    <3> QED
      BY <3>1, <3>2
  <2> QED
    BY <2>2, <2>3
<1> QED
  BY <1>1, <1>2 DEF WireFits, NewestIsMarket, NoTicker, Up, readVars

LEMMA WireStep == LoopIInv /\ WireFits /\ [LoopNext]_loopVars => WireFits'
<1> SUFFICES ASSUME LoopIInv, WireFits, [LoopNext]_loopVars PROVE WireFits'
  OBVIOUS
<1>1. CASE Publish
  <2>1. PICK p \in BnPrices :
          market' = p /\ wire' = Append(wire, [kind |-> "ticker", price |-> p])
    BY <1>1 DEF Publish
  <2> QED
    BY <1>1, <2>1, FramesAreFrames, WireAppends DEF Publish, priceVars
<1>2. CASE PublishOther
  <2>1. PICK k \in {"other", "garbled"} : wire' = Append(wire, [kind |-> k, price |-> 0])
    BY <1>2 DEF PublishOther
  <2> QED
    BY <1>2, <2>1, FramesAreFrames, WireAppends DEF PublishOther, priceVars
<1>3. CASE Ping
  <2>1. [kind |-> "ping", price |-> 0] \in Frame
    BY FramesAreFrames
  <2> QED
    BY <1>3, <2>1, WireAppends DEF Ping, priceVars
\* The end of the connection, or of the process.
<1>4. CASE Close
  BY <1>4 DEF Close, WireFits
<1>5. CASE ReadText
  <2>1. CASE Head(wire).kind = "garbled"
    BY <1>5, <2>1 DEF ReadText, WireFits, Up
  <2>2. CASE Head(wire).kind # "garbled"
    <3>1. main' = main
      BY <1>5, <2>2 DEF ReadText
    <3> QED
      BY <1>5, <2>2, <3>1, WireTaken DEF ReadText, priceVars, serverVars
  <2> QED
    BY <2>1, <2>2
<1>6. CASE ReadPing
  BY <1>6, WireTaken DEF ReadPing, priceVars, serverVars
\* The reader ends only at a close, or when the connection is broken.
<1>7. CASE ReadFails
  <2>1. wire # <<>> => Len(wire) \in Nat \ {0} /\ wire[1] = Head(wire)
    BY DEF LoopIInv, LoopTypeOK
  <2>2. Up => conn \notin {"none", "open"}
    BY <1>7, <2>1 DEF ReadFails, WireFits
  <2> QED
    BY <1>7, <2>2 DEF ReadFails, WireFits, serverVars
<1>8. CASE GetPosition \/ Dial
  <2>1. /\ UNCHANGED <<bnPrice, bnCh, ticker, market, wire, pinged>> /\ Up
        /\ reader # "send" /\ (reader' # "send")
        /\ conn' = conn \/ (conn' = "open" /\ reader = "dial")
    BY <1>8 DEF GetPosition, StartReader, Dial, LoopIInv, ReaderStartsLast, Up, priceVars, serverVars
  <2>2. NewestIsMarket' <=> NewestIsMarket
    BY <2>1 DEF NewestIsMarket, NoTicker
  <2>3. reader = "dial" => conn = "none"
    BY DEF LoopIInv, ReaderStartsLast
  <2> QED
    BY <2>1, <2>2, <2>3 DEF WireFits, Up
<1>9. CASE UniQuotes \/ CreateListenKey \/ TakeUni \/ TradeOver \/ UNCHANGED loopVars
  <2>1. UNCHANGED <<bnPrice, bnCh, readVars, conn, market, wire, pinged>> /\ (Up' => Up)
    BY <1>9 DEF UniQuotes, CreateListenKey, TakeUni, TradeOver, Up, loopVars, priceVars, serverVars
  <2> QED
    BY <2>1 DEF WireFits, NewestIsMarket, NoTicker, readVars
<1> QED
  BY <1>1, <1>2, <1>3, <1>4, <1>5, <1>6, <1>7, <1>8, <1>9, WireSent, WireHeard
     DEF LoopNext, Binance, Main, Reader

\* While the connection lasts no price of Binance is lost, passed by another or kept
\* back: with none on its way the price main decides on is the latest.
THEOREM LoopHearsTheMarket ==
  LoopSpec => [](conn = "open" /\ Up /\ wire = <<>> /\ reader # "send" /\ bnCh = <<>>
                 => bnPrice = market)
<1>1. WireFits => (conn = "open" /\ Up /\ wire = <<>> /\ reader # "send" /\ bnCh = <<>>
                   => bnPrice = market)
  BY DEF WireFits, NewestIsMarket, NoTicker
<1> QED
  BY <1>1, LoopInvariant, WireInitial, WireStep, PTL DEF LoopSpec

\* So a trade is never begun on a price of Binance that was out of date when nothing
\* newer was on its way.
THEOREM LoopTradesOnMarket == LoopSpec => []TradesOnMarket
<1>1. LoopIInv /\ WireFits => TradesOnMarket
  BY DEF LoopIInv, TradeJustified, WireFits, NewestIsMarket, NoTicker, TradesOnMarket, Up
<1> QED
  BY <1>1, LoopInvariant, WireInitial, WireStep, PTL DEF LoopSpec

\* Nor is a ping lost: one that is not answered is still on the wire.
THEOREM LoopKeepsPings ==
  LoopSpec => [](conn = "open" /\ Up /\ pinged => \E i \in 1..Len(wire) : wire[i].kind = "ping")
<1>1. WireFits => (conn = "open" /\ Up /\ pinged => \E i \in 1..Len(wire) : wire[i].kind = "ping")
  BY DEF WireFits
<1> QED
  BY <1>1, LoopInvariant, WireInitial, WireStep, PTL DEF LoopSpec

=============================================================================
