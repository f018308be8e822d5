--------------------------- MODULE PriceFeedProofs ---------------------------
(***************************************************************************)
(* What the price feed keeps, for any number of pairs, any capacity of the *)
(* channel and any number of trades: the types of its variables, though    *)
(* the log handler leaves torn numbers where others read; without a        *)
(* subscription, that every quote is a price the pair had and no limit is  *)
(* older than the quote that led to it; and how many quotes from before a  *)
(* trade main may still take after it.                                     *)
(***************************************************************************)
EXTENDS PriceFeed, FiniteSetTheorems, TLAPS

\* A number is torn only while the handler writes it, and the number it holds is not.
NumbersHeld ==
  /\ hold \in Nat
  /\ \A p \in Pairs : res0[p] \in Nat \/ (handler = "swap0w" /\ ~h0.own /\ p = hlog.pair)
  /\ \A p \in Pairs : res1[p] \in Nat \/ (handler = "swap1w" /\ ~h1.own /\ p = hlog.pair)
  /\ h0.v \in Nat \/ (handler = "swap0w" /\ h0.own)
  /\ h1.v \in Nat \/ (handler = "swap1w" /\ h1.own)

\* A trade that has begun may end within its bound.
TicksLeft == main \in {"buy0", "buy1", "trade"} => epoch + undone < MaxTicks

FeedTyped == FeedTypeOK /\ NumbersHeld /\ TicksLeft

-----------------------------------------------------------------------------
(* Types. *)

\* The configuration stays, and with it what depends on the number of pairs.
LEMMA PairsStay ==
  ASSUME UNCHANGED confVars
  PROVE  Pairs' = Pairs /\ Log' = Log /\ NothingGot' = NothingGot
BY DEF confVars, Pairs, Log, NothingGot

\* What the end of the process leaves.
LEMMA DiesTo ==
  ASSUME Dies
  PROVE  /\ UNCHANGED <<nPairs, ws, chain, undone, epoch>> /\ Pairs' = Pairs
         /\ main' = "down" /\ price' = NoQuote /\ limit' = NoLimit
         /\ res0' = [p \in Pairs |-> 0] /\ res1' = [p \in Pairs |-> 0]
         /\ poller' = "sleep" /\ pi' = 1 /\ got' = NothingGot /\ pq' = NoQuote
         /\ ~subscribed' /\ logs' = <<>> /\ handler' = "wait" /\ hlog' = NoLog
         /\ h0' = Alias /\ h1' = Alias /\ hold' = 0 /\ hq' = NoQuote
         /\ ch' = <<>> /\ stale' = 0 /\ late' = 0
BY DEF Dies, confVars, chainVars, Pairs

LEMMA ValuesAre ==
  /\ Nat \subseteq Value /\ Torn \in Value
  /\ NoQuote \in Quote /\ NoLimit \in [r0 : Value, r1 : Value] /\ Alias \in Copy
  /\ \A v \in Value : Own(v) \in Copy /\ Own(v).own /\ Own(v).v = v
  /\ ~Alias.own /\ Alias.v = 0
BY DEF Value, Quote, NoQuote, NoLimit, Copy, Alias, Own

LEMMA FeedInitial == FeedInit => FeedTyped
<1> SUFFICES ASSUME FeedInit PROVE FeedTyped
  OBVIOUS
<1>1. nPairs \in 1..MaxPairs /\ 1 \in Pairs
  BY FeedAssumption DEF FeedInit, Pairs
<1>2. chain \in [Pairs -> 0..MaxTrades] /\ \A p \in Pairs : chain[p] = 0
  BY FeedAssumption DEF FeedInit
<1>3. /\ res0 \in [Pairs -> Value] /\ res1 \in [Pairs -> Value]
      /\ \A p \in Pairs : res0[p] \in Nat /\ res1[p] \in Nat
  BY <1>2, ValuesAre DEF FeedInit
<1>4. hlog \in Log /\ got \in [r : [Pairs -> Nat], epoch : Nat]
  BY <1>1 DEF FeedInit, Log, NoLog, NothingGot, Kinds
<1>5. logs \in Seq(Log) /\ ch \in Seq(Quote)
  BY DEF FeedInit
<1>6. /\ undone \in 0..MaxTicks /\ epoch \in 0..MaxTicks /\ stale \in Nat
      /\ late \in Nat /\ hold \in Value /\ hold \in Nat
  BY FeedAssumption, ValuesAre DEF FeedInit
<1>7. FeedTypeOK
  <2>1. /\ ws \in BOOLEAN /\ subscribed \in BOOLEAN
        /\ poller = "sleep" /\ handler = "wait" /\ main = "startup" /\ pi = 1
    BY DEF FeedInit
  <2>2. pq \in Quote /\ hq \in Quote /\ price \in Quote /\ h0 \in Copy /\ h1 \in Copy
    BY ValuesAre DEF FeedInit
  <2>3. limit \in [r0 : Value, r1 : Value]
    BY ValuesAre DEF FeedInit
  <2> QED
    BY <1>1, <1>2, <1>3, <1>4, <1>5, <1>6, <2>1, <2>2, <2>3 DEF FeedTypeOK
<1>8. NumbersHeld
  BY <1>3, <1>6, ValuesAre DEF FeedInit, NumbersHeld
<1>9. TicksLeft
  BY DEF FeedInit, TicksLeft
<1> QED
  BY <1>7, <1>8, <1>9 DEF FeedTyped

\* The chain and the node.
LEMMA NodeTyped ==
  FeedTyped /\ (Break \/ Subscribe \/ \E p \in Pairs : Trade(p) \/ Reorg(p)) => FeedTyped'
<1> SUFFICES ASSUME FeedTyped, Break \/ Subscribe \/ \E p \in Pairs : Trade(p) \/ Reorg(p)
             PROVE  FeedTyped'
  OBVIOUS
<1>1. /\ UNCHANGED <<confVars, resVars, pollVars, logVars, ch, mainVars>>
      /\ subscribed' \in BOOLEAN
  BY DEF FeedTyped, FeedTypeOK, Break, Subscribe, Trade, Reorg, chainVars
<1>2. Pairs' = Pairs /\ Log' = Log
  BY <1>1, PairsStay
<1>3. /\ chain' \in [Pairs -> 0..MaxTrades] /\ undone' \in 0..MaxTicks
      /\ (undone' = undone \/ main \notin {"buy0", "buy1", "trade"})
      /\ logs' \in Seq(Log)
  <2>1. CASE Break \/ Subscribe
    <3>1. UNCHANGED chainVars /\ (logs' = logs \/ logs' = <<>>)
      BY <2>1 DEF Break, Subscribe
    <3>2. logs' \in Seq(Log)
      <4>1. CASE logs' = logs
        BY <4>1 DEF FeedTyped, FeedTypeOK
      <4>2. CASE logs' = <<>>
        BY <4>2
      <4> QED
        BY <3>1, <4>1, <4>2
    <3> QED
      BY <3>1, <3>2 DEF FeedTyped, FeedTypeOK, chainVars
  <2>2. ASSUME NEW p \in Pairs, NEW n \in Nat, NEW k \in {"Swap", "Other"}
        PROVE  Logged(p, n, k) \in Seq(Log)
    <3>1. epoch \in Nat
      BY DEF FeedTyped, FeedTypeOK
    <3>2. \A kind \in Kinds : [pair |-> p, n |-> n, kind |-> kind, epoch |-> epoch] \in Log
      BY <3>1 DEF Log
    <3> QED
      BY <3>2 DEF Logged, Kinds
  <2>3. ASSUME NEW p \in Pairs, Trade(p)
        PROVE  /\ chain' \in [Pairs -> 0..MaxTrades] /\ undone' = undone /\ logs' \in Seq(Log)
    <3>1. chain[p] \in Nat /\ undone \in Nat /\ chain[p] + undone < MaxTrades
      BY <2>3, FeedAssumption DEF Trade, FeedTyped, FeedTypeOK
    <3>2. chain[p] + 1 \in 0..MaxTrades
      BY <3>1, FeedAssumption
    <3>3. chain' \in [Pairs -> 0..MaxTrades] /\ chain'[p] \in Nat
      BY <2>3, <3>2 DEF Trade, FeedTyped, FeedTypeOK
    <3>4. \A k \in {"Swap", "Other"} : Logged(p, chain'[p], k) \in Seq(Log)
      BY <2>2, <3>3
    <3>5. /\ undone' = undone
          /\ \E k \in {"Swap", "Other"} : logs' = logs \o Logged(p, chain'[p], k)
      BY <2>3 DEF Trade
    <3>6. PICK k \in {"Swap", "Other"} : logs' = logs \o Logged(p, chain'[p], k)
      BY <3>5
    <3>7. logs \in Seq(Log) /\ Logged(p, chain'[p], k) \in Seq(Log)
      BY <3>4, <3>6 DEF FeedTyped, FeedTypeOK
    <3>8. logs' \in Seq(Log)
      BY <3>6, <3>7
    <3> QED
      BY <3>3, <3>5, <3>8
  <2>4. ASSUME NEW p \in Pairs, Reorg(p)
        PROVE  /\ chain' \in [Pairs -> 0..MaxTrades] /\ undone' \in 0..MaxTicks
               /\ main \notin {"buy0", "buy1", "trade"} /\ logs' \in Seq(Log)
    <3>1. chain[p] \in 0..MaxTrades /\ chain[p] \in Nat /\ chain[p] > 0
      BY <2>4 DEF Reorg, FeedTyped, FeedTypeOK
    <3>2. chain[p] - 1 \in 0..MaxTrades
      BY <3>1, FeedAssumption
    <3>3. chain' \in [Pairs -> 0..MaxTrades]
      BY <2>4, <3>2 DEF Reorg, FeedTyped, FeedTypeOK
    <3>4. Logged(p, chain[p], "Swap") \in Seq(Log)
      BY <2>2, <3>1
    <3>5. undone' \in 0..MaxTicks
      BY <2>4, FeedAssumption DEF Reorg, FeedTyped, FeedTypeOK
    <3> QED
      BY <2>4, <3>3, <3>4, <3>5 DEF Reorg, FeedTyped, FeedTypeOK
  <2>5. CASE \E p \in Pairs : Trade(p) \/ Reorg(p)
    <3>1. undone \in 0..MaxTicks
      BY DEF FeedTyped, FeedTypeOK
    <3>2. PICK p \in Pairs : Trade(p) \/ Reorg(p)
      BY <2>5
    <3>3. CASE Trade(p)
      BY <2>3, <3>1, <3>3
    <3>4. CASE Reorg(p)
      BY <2>4, <3>4
    <3> QED
      BY <3>2, <3>3, <3>4
  <2> QED
    BY <2>1, <2>5
<1>4. FeedTypeOK'
  BY SMTT(30), <1>1, <1>2, <1>3 DEF FeedTyped, FeedTypeOK, confVars, resVars, pollVars, logVars, mainVars
<1>5. NumbersHeld'
  BY <1>1, <1>2 DEF FeedTyped, NumbersHeld, resVars, logVars
<1>6. TicksLeft'
  BY <1>1, <1>3 DEF FeedTyped, TicksLeft, mainVars
<1> QED
  BY <1>4, <1>5, <1>6 DEF FeedTyped
\* The poller stores whole numbers; a copy keeps the old one.
LEMMA PollerTyped == FeedTyped /\ Poller => FeedTyped'
<1> SUFFICES ASSUME FeedTyped, Poller PROVE FeedTyped'
  OBVIOUS
<1>1. UNCHANGED <<confVars, chainVars, wsVars>>
  BY DEF Poller, Fetch, Store0, Store1, PollQuote, PollSend
<1>2. Pairs' = Pairs /\ Log' = Log /\ pi \in Pairs /\ nPairs \in Nat
  BY <1>1, PairsStay DEF FeedTyped, FeedTypeOK
<1>3. CASE Fetch
  <2>1. UNCHANGED <<resVars, pq, logVars, ch, mainVars>>
    BY <1>3 DEF Fetch
  <2>2. got' \in [r : [Pairs -> Nat], epoch : Nat]
    <3>1. chain \in [Pairs -> Nat] /\ epoch \in Nat
      BY DEF FeedTyped, FeedTypeOK
    <3> QED
      BY <1>3, <3>1 DEF Fetch
  <2>3. pi' \in Pairs /\ poller' = "store0"
    BY <1>2, <1>3 DEF Fetch, Pairs
  <2>4. FeedTypeOK'
    BY <1>1, <1>2, <2>1, <2>2, <2>3
       DEF FeedTyped, FeedTypeOK, confVars, chainVars, wsVars, resVars, logVars, mainVars
  <2> QED
    BY <1>1, <1>2, <2>1, <2>4
       DEF FeedTyped, NumbersHeld, TicksLeft, resVars, logVars, mainVars, chainVars
<1>4. CASE Store0
  <2>1. UNCHANGED <<res1, pi, got, pq, handler, hlog, h1, hold, hq, ch, mainVars>>
    BY <1>4 DEF Store0
  <2>2. got.r[pi] \in Nat /\ got.r[pi] \in Value /\ res0[pi] \in Value
    BY <1>2, ValuesAre DEF FeedTyped, FeedTypeOK
  <2>3. /\ res0' \in [Pairs -> Value] /\ res0'[pi] \in Nat
        /\ \A p \in Pairs : p # pi => res0'[p] = res0[p]
    BY <1>2, <1>4, <2>2 DEF Store0, FeedTyped, FeedTypeOK
  <2>4. CASE handler # "wait" /\ hlog.pair = pi /\ ~h0.own
    <3>1. h0' = Own(res0[pi]) /\ h0' \in Copy /\ h0'.own /\ h0'.v = res0[pi]
      BY <1>4, <2>2, <2>4, ValuesAre DEF Store0
    <3>2. FeedTypeOK'
      BY <1>1, <1>2, <1>4, <2>1, <2>3, <3>1
         DEF Store0, FeedTyped, FeedTypeOK, confVars, chainVars, wsVars, mainVars
    <3>3. NumbersHeld'
      BY <1>2, <2>1, <2>3, <2>4, <3>1 DEF FeedTyped, NumbersHeld
    <3> QED
      BY <1>1, <2>1, <3>2, <3>3 DEF FeedTyped, TicksLeft, mainVars, chainVars
  <2>5. CASE ~(handler # "wait" /\ hlog.pair = pi /\ ~h0.own)
    <3>1. h0' = h0
      BY <1>4, <2>5 DEF Store0
    <3>2. FeedTypeOK'
      BY <1>1, <1>2, <1>4, <2>1, <2>3, <3>1
         DEF Store0, FeedTyped, FeedTypeOK, confVars, chainVars, wsVars, mainVars
    <3>3. NumbersHeld'
      BY <1>2, <2>1, <2>3, <2>5, <3>1 DEF FeedTyped, NumbersHeld
    <3> QED
      BY <1>1, <2>1, <3>2, <3>3 DEF FeedTyped, TicksLeft, mainVars, chainVars
  <2> QED
    BY <2>4, <2>5
<1>5. CASE Store1
  <2>1. UNCHANGED <<res0, pi, got, pq, handler, hlog, h0, hold, hq, ch, mainVars>>
    BY <1>5 DEF Store1
  <2>2. got.r[pi] \in Nat /\ got.r[pi] \in Value /\ res1[pi] \in Value
    BY <1>2, ValuesAre DEF FeedTyped, FeedTypeOK
  <2>3. /\ res1' \in [Pairs -> Value] /\ res1'[pi] \in Nat
        /\ \A p \in Pairs : p # pi => res1'[p] = res1[p]
    BY <1>2, <1>5, <2>2 DEF Store1, FeedTyped, FeedTypeOK
  <2>4. CASE handler \notin {"wait", "copy1"} /\ hlog.pair = pi /\ ~h1.own
    <3>1. h1' = Own(res1[pi]) /\ h1' \in Copy /\ h1'.own /\ h1'.v = res1[pi]
      BY <1>5, <2>2, <2>4, ValuesAre DEF Store1
    <3>2. FeedTypeOK'
      BY <1>1, <1>2, <1>5, <2>1, <2>3, <3>1
         DEF Store1, FeedTyped, FeedTypeOK, confVars, chainVars, wsVars, mainVars
    <3>3. NumbersHeld'
      BY <1>2, <2>1, <2>3, <2>4, <3>1 DEF FeedTyped, NumbersHeld
    <3> QED
      BY <1>1, <2>1, <3>2, <3>3 DEF FeedTyped, TicksLeft, mainVars, chainVars
  <2>5. CASE ~(handler \notin {"wait", "copy1"} /\ hlog.pair = pi /\ ~h1.own)
    <3>1. h1' = h1
      BY <1>5, <2>5 DEF Store1
    <3>2. FeedTypeOK'
      BY <1>1, <1>2, <1>5, <2>1, <2>3, <3>1
         DEF Store1, FeedTyped, FeedTypeOK, confVars, chainVars, wsVars, mainVars
    <3>3. NumbersHeld'
      BY <1>2, <2>1, <2>3, <2>5, <3>1 DEF FeedTyped, NumbersHeld
    <3> QED
      BY <1>1, <2>1, <3>2, <3>3 DEF FeedTyped, TicksLeft, mainVars, chainVars
  <2> QED
    BY <2>4, <2>5
<1>6. CASE PollQuote
  <2>1. UNCHANGED <<resVars, pi, got, logVars, ch, mainVars>> /\ poller' = "send"
    BY <1>6 DEF PollQuote
  <2>2. pq' \in Quote
    <3>1. res0[pi] \in Value /\ res1[pi] \in Value /\ pi \in Nat /\ got.epoch \in Nat
      BY <1>2 DEF FeedTyped, FeedTypeOK, Pairs
    <3> QED
      BY <1>6, <3>1 DEF PollQuote, Quote
  <2>3. FeedTypeOK'
    BY <1>1, <1>2, <2>1, <2>2
       DEF FeedTyped, FeedTypeOK, confVars, chainVars, wsVars, resVars, logVars, mainVars
  <2> QED
    BY <1>1, <1>2, <2>1, <2>3
       DEF FeedTyped, NumbersHeld, TicksLeft, resVars, logVars, mainVars, chainVars
<1>7. CASE PollSend
  <2>1. /\ UNCHANGED <<resVars, logVars, price, limit, epoch, stale, late>>
        /\ ch' = Append(ch, pq) /\ pq' = NoQuote
        /\ poller' \in {"sleep", "store0"}
    BY <1>7 DEF PollSend
  <2>2. pi' \in Pairs
    BY <1>2, <1>7 DEF PollSend, Pairs
  <2>3. got' \in [r : [Pairs -> Nat], epoch : Nat]
    BY <1>7 DEF PollSend, NothingGot, FeedTyped, FeedTypeOK
  <2>4. main' = main \/ main' = "approving"
    BY <1>7 DEF PollSend
  <2>5. ch' \in Seq(Quote) /\ pq' \in Quote
    BY <2>1, ValuesAre DEF FeedTyped, FeedTypeOK
  <2>6. FeedTypeOK'
    BY SMTT(20), <1>1, <1>2, <2>1, <2>2, <2>3, <2>4, <2>5
       DEF FeedTyped, FeedTypeOK, confVars, chainVars, wsVars, resVars, logVars
  <2> QED
    BY <1>1, <1>2, <2>1, <2>4, <2>6
       DEF FeedTyped, NumbersHeld, TicksLeft, resVars, logVars, chainVars
<1> QED
  BY <1>3, <1>4, <1>5, <1>6, <1>7 DEF Poller

\* The handler reads whole numbers before it writes, and leaves whole numbers.
LEMMA HandlerTyped == FeedTyped /\ LogHandler => FeedTyped'
<1> SUFFICES ASSUME FeedTyped, LogHandler PROVE FeedTyped'
  OBVIOUS
<1>1. UNCHANGED <<confVars, chainVars, pollVars, subscribed, mainVars>>
  BY DEF LogHandler, TakeLog, CopyPair, PrintOther, Swap0, Swap1, LogQuote, LogSend, wsVars
<1>2. /\ Pairs' = Pairs /\ Log' = Log /\ hlog \in Log /\ hlog.pair \in Pairs
      /\ 1 \in Pairs /\ nPairs \in Nat
  <2>1. Pairs' = Pairs /\ Log' = Log
    BY <1>1, PairsStay
  <2>2. hlog \in Log /\ nPairs \in 1..MaxPairs
    BY DEF FeedTyped, FeedTypeOK
  <2>3. hlog.pair \in Pairs
    BY <2>2 DEF Log
  <2> QED
    BY <2>1, <2>2, <2>3, FeedAssumption DEF Pairs
<1>3. TicksLeft'
  BY <1>1 DEF FeedTyped, TicksLeft, mainVars, chainVars
<1>4. CASE TakeLog
  <2>1. /\ UNCHANGED <<resVars, h1, hold, hq, ch>> /\ handler = "wait"
        /\ h0' = Alias /\ handler' = "copy1"
        /\ hlog' = Head(logs) /\ logs' = Tail(logs) /\ logs # <<>>
    BY <1>4 DEF TakeLog
  <2>2. hlog' \in Log /\ logs' \in Seq(Log)
    BY <2>1 DEF FeedTyped, FeedTypeOK
  <2>3. FeedTypeOK'
    BY <1>1, <1>2, <2>1, <2>2, ValuesAre
       DEF FeedTyped, FeedTypeOK, confVars, chainVars, pollVars, resVars, mainVars
  <2>4. NumbersHeld'
    BY <1>2, <2>1, ValuesAre DEF FeedTyped, NumbersHeld, resVars
  <2> QED
    BY <1>3, <2>3, <2>4 DEF FeedTyped
<1>5. CASE CopyPair
  <2>1. /\ UNCHANGED <<resVars, wsVars, hlog, h0, hold, hq, ch>> /\ handler = "copy1"
        /\ h1' = Alias /\ handler' \in {"quote", "swap0"}
    BY <1>5 DEF CopyPair
  <2>2. FeedTypeOK'
    BY SMTT(20), <1>1, <1>2, <2>1, ValuesAre
       DEF FeedTyped, FeedTypeOK, confVars, chainVars, pollVars, resVars, wsVars, mainVars
  <2>3. NumbersHeld'
    BY <1>2, <2>1, ValuesAre DEF FeedTyped, NumbersHeld, resVars
  <2> QED
    BY <1>3, <2>2, <2>3 DEF FeedTyped
<1>6. CASE Swap0
  <2>1. UNCHANGED <<res1, wsVars, hlog, h1, hq, ch>>
    BY <1>6 DEF Swap0
  <2>2. PICK v \in Value :
          /\ Write0(v)
          /\ \/ handler = "swap0" /\ handler' = "swap0w" /\ hold' \in Nat
             \/ handler = "swap0w" /\ handler' = "swap1" /\ hold' = 0 /\ v \in Nat
    <3>1. CASE handler = "swap0" /\ hold' = Copy0 /\ Write0(Torn) /\ handler' = "swap0w"
      <4>1. Copy0 \in Nat
        BY <1>2, <3>1 DEF FeedTyped, NumbersHeld, Copy0
      <4> QED
        BY <3>1, <4>1, ValuesAre
    <3>2. CASE handler = "swap0w" /\ hold' = 0 /\ Write0(hold + 1) /\ handler' = "swap1"
      <4>1. hold + 1 \in Nat
        BY DEF FeedTyped, NumbersHeld
      <4> QED
        BY <3>2, <4>1, ValuesAre
    <3> QED
      BY <1>6, <3>1, <3>2 DEF Swap0
  <2>3. /\ hold' \in Nat /\ hold' \in Value /\ handler \in {"swap0", "swap0w"}
        /\ handler' \in {"swap0w", "swap1"}
    BY <2>2, ValuesAre
  <2>4. CASE h0.own /\ h0' = Own(v) /\ res0' = res0
    <3>1. FeedTypeOK'
      BY SMTT(20), <1>1, <1>2, <2>1, <2>3, <2>4, ValuesAre
         DEF FeedTyped, FeedTypeOK, confVars, chainVars, pollVars, wsVars, mainVars
    <3>2. NumbersHeld'
      BY <1>2, <2>1, <2>2, <2>3, <2>4, ValuesAre DEF FeedTyped, NumbersHeld
    <3> QED
      BY <1>3, <3>1, <3>2 DEF FeedTyped
  <2>5. CASE ~h0.own /\ h0' = h0 /\ res0' = [res0 EXCEPT ![hlog.pair] = v]
    <3>1. /\ res0' \in [Pairs -> Value] /\ res0'[hlog.pair] = v
          /\ \A p \in Pairs : p # hlog.pair => res0'[p] = res0[p]
      BY <1>2, <2>5 DEF FeedTyped, FeedTypeOK
    <3>2. FeedTypeOK'
      BY SMTT(30), <1>1, <1>2, <2>1, <2>3, <2>5, <3>1
         DEF FeedTyped, FeedTypeOK, confVars, chainVars, pollVars, wsVars, mainVars
    <3>3. NumbersHeld'
      BY <1>2, <2>1, <2>2, <2>3, <2>5, <3>1 DEF FeedTyped, NumbersHeld
    <3> QED
      BY <1>3, <3>2, <3>3 DEF FeedTyped
  <2> QED
    BY <2>2, <2>4, <2>5 DEF Write0
<1>7. CASE Swap1
  <2>1. UNCHANGED <<res0, wsVars, hlog, h0, hq, ch>>
    BY <1>7 DEF Swap1
  <2>2. PICK v \in Value :
          /\ Write1(v)
          /\ \/ handler = "swap1" /\ handler' = "swap1w" /\ hold' \in Nat
             \/ handler = "swap1w" /\ handler' = "quote" /\ hold' = 0 /\ v \in Nat
    <3>1. CASE handler = "swap1" /\ hold' = Copy1 /\ Write1(Torn) /\ handler' = "swap1w"
      <4>1. Copy1 \in Nat
        BY <1>2, <3>1 DEF FeedTyped, NumbersHeld, Copy1
      <4> QED
        BY <3>1, <4>1, ValuesAre
    <3>2. CASE handler = "swap1w" /\ hold' = 0 /\ Write1(hold + 1) /\ handler' = "quote"
      <4>1. hold + 1 \in Nat
        BY DEF FeedTyped, NumbersHeld
      <4> QED
        BY <3>2, <4>1, ValuesAre
    <3> QED
      BY <1>7, <3>1, <3>2 DEF Swap1
  <2>3. /\ hold' \in Nat /\ hold' \in Value /\ handler \in {"swap1", "swap1w"}
        /\ handler' \in {"swap1w", "quote"}
    BY <2>2, ValuesAre
  <2>4. CASE h1.own /\ h1' = Own(v) /\ res1' = res1
    <3>1. FeedTypeOK'
      BY SMTT(20), <1>1, <1>2, <2>1, <2>3, <2>4, ValuesAre
         DEF FeedTyped, FeedTypeOK, confVars, chainVars, pollVars, wsVars, mainVars
    <3>2. NumbersHeld'
      BY <1>2, <2>1, <2>2, <2>3, <2>4, ValuesAre DEF FeedTyped, NumbersHeld
    <3> QED
      BY <1>3, <3>1, <3>2 DEF FeedTyped
  <2>5. CASE ~h1.own /\ h1' = h1 /\ res1' = [res1 EXCEPT ![hlog.pair] = v]
    <3>1. /\ res1' \in [Pairs -> Value] /\ res1'[hlog.pair] = v
          /\ \A p \in Pairs : p # hlog.pair => res1'[p] = res1[p]
      BY <1>2, <2>5 DEF FeedTyped, FeedTypeOK
    <3>2. FeedTypeOK'
      BY SMTT(30), <1>1, <1>2, <2>1, <2>3, <2>5, <3>1
         DEF FeedTyped, FeedTypeOK, confVars, chainVars, pollVars, wsVars, mainVars
    <3>3. NumbersHeld'
      BY <1>2, <2>1, <2>2, <2>3, <2>5, <3>1 DEF FeedTyped, NumbersHeld
    <3> QED
      BY <1>3, <3>2, <3>3 DEF FeedTyped
  <2> QED
    BY <2>2, <2>4, <2>5 DEF Write1
<1>8. CASE LogQuote
  <2>1. UNCHANGED <<resVars, wsVars, hlog, h0, h1, hold, ch>> /\ handler = "quote" /\ handler' = "send"
    BY <1>8 DEF LogQuote
  <2>2. hq' \in Quote
    <3>1. Copy0 \in Value /\ Copy1 \in Value
      BY <1>2 DEF FeedTyped, FeedTypeOK, Copy0, Copy1, Copy
    <3>2. hlog.n \in Value /\ hlog.pair \in Nat /\ hlog.epoch \in Nat
      BY <1>2, ValuesAre DEF FeedTyped, FeedTypeOK, Log, Pairs
    <3> QED
      BY <1>8, <3>1, <3>2 DEF LogQuote, Quote
  <2>3. FeedTypeOK'
    BY <1>1, <1>2, <2>1, <2>2
       DEF FeedTyped, FeedTypeOK, confVars, chainVars, pollVars, resVars, wsVars, mainVars
  <2>4. NumbersHeld'
    BY <1>2, <2>1 DEF FeedTyped, NumbersHeld, resVars
  <2> QED
    BY <1>3, <2>3, <2>4 DEF FeedTyped
<1>9. CASE LogSend
  <2>1. /\ UNCHANGED <<resVars, wsVars, hold>> /\ handler = "send" /\ handler' = "wait"
        /\ ch' = Append(ch, hq) /\ hq' = NoQuote /\ h0' = Alias /\ h1' = Alias
        /\ hlog' = NoLog
    BY <1>9 DEF LogSend
  <2>2. hlog' \in Log /\ ch' \in Seq(Quote)
    BY <1>2, <2>1 DEF FeedTyped, FeedTypeOK, Log, NoLog, Kinds
  <2>3. FeedTypeOK'
    BY <1>1, <1>2, <2>1, <2>2, ValuesAre
       DEF FeedTyped, FeedTypeOK, confVars, chainVars, pollVars, resVars, wsVars, mainVars
  <2>4. NumbersHeld'
    BY <1>2, <2>1, ValuesAre DEF FeedTyped, NumbersHeld, resVars
  <2> QED
    BY <1>3, <2>3, <2>4 DEF FeedTyped
<1>10. CASE PrintOther
  <2>1. /\ UNCHANGED <<resVars, wsVars, h1, hold, hq, ch>> /\ handler = "copy1"
        /\ handler' = "wait" /\ h0' = Alias /\ hlog' = NoLog
    BY <1>10 DEF PrintOther
  <2>2. hlog' \in Log
    BY <1>2, <2>1 DEF Log, NoLog, Kinds
  <2>3. FeedTypeOK'
    BY SMTT(20), <1>1, <1>2, <2>1, <2>2, ValuesAre
       DEF FeedTyped, FeedTypeOK, confVars, chainVars, pollVars, resVars, wsVars, mainVars
  <2>4. NumbersHeld'
    BY <1>2, <2>1, ValuesAre DEF FeedTyped, NumbersHeld, resVars
  <2> QED
    BY <1>3, <2>3, <2>4 DEF FeedTyped
<1> QED
  BY <1>4, <1>5, <1>6, <1>7, <1>8, <1>9, <1>10 DEF LogHandler

\* main takes what there is.
LEMMA MainTyped == FeedTyped /\ Main => FeedTyped'
<1> SUFFICES ASSUME FeedTyped, Main PROVE FeedTyped'
  OBVIOUS
<1>1. UNCHANGED <<confVars, chainVars, resVars, pollVars, wsVars, logVars>>
  BY DEF Main, Loop, Take, ReadLimit, TradeDone
<1>2. Pairs' = Pairs /\ Log' = Log /\ 1 \in Pairs
  BY <1>1, PairsStay DEF FeedTyped, FeedTypeOK, Pairs
<1>3. NumbersHeld'
  BY <1>1, <1>2 DEF FeedTyped, NumbersHeld, resVars, logVars
<1>4. /\ main' \in {"loop", "buy0", "buy1", "trade"} /\ ch' \in Seq(Quote) /\ price' \in Quote
      /\ limit' \in [r0 : Value, r1 : Value] /\ epoch' \in 0..MaxTicks /\ stale' \in Nat
      /\ late' \in Nat /\ TicksLeft'
  <2>1. CASE Loop
    BY <1>1, <2>1 DEF Loop, FeedTyped, FeedTypeOK, TicksLeft
  <2>2. CASE Take
    <3>1. /\ UNCHANGED <<limit, epoch, late>> /\ main' \in {"loop", "buy0"} /\ TicksLeft'
      BY <1>1, <2>2 DEF Take, TicksLeft, chainVars
    <3>2. Head(ch) \in Quote /\ ch' \in Seq(Quote)
      BY <2>2 DEF Take, FeedTyped, FeedTypeOK
    <3>3. price' \in Quote
      BY <2>2, <3>2 DEF Take, Quote
    <3>4. stale' \in Nat
      BY <2>2 DEF Take, FeedTyped, FeedTypeOK
    <3> QED
      BY <3>1, <3>2, <3>3, <3>4 DEF FeedTyped, FeedTypeOK
  <2>3. CASE ReadLimit
    <3>1. /\ UNCHANGED <<ch, price, epoch, stale, late>> /\ main' \in {"buy1", "trade"}
          /\ main \in {"buy0", "buy1"}
      BY <2>3 DEF ReadLimit
    <3>2. res0[1] \in Value /\ res1[1] \in Value
      BY <1>2 DEF FeedTyped, FeedTypeOK
    <3>3. limit' \in [r0 : Value, r1 : Value]
      BY <2>3, <3>2 DEF ReadLimit, FeedTyped, FeedTypeOK
    <3>4. TicksLeft'
      BY <1>1, <3>1 DEF FeedTyped, TicksLeft, chainVars
    <3> QED
      BY <3>1, <3>3, <3>4 DEF FeedTyped, FeedTypeOK
  <2>4. CASE TradeDone
    <3>1. UNCHANGED <<ch, price>> /\ main' = "loop" /\ main = "trade" /\ stale' = 0 /\ limit' = NoLimit
      BY <2>4 DEF TradeDone
    <3>2. late' \in Nat
      BY <2>4 DEF TradeDone, FeedTyped, FeedTypeOK
    <3>3. epoch' \in 0..MaxTicks
      BY <2>4, <3>1, FeedAssumption DEF TradeDone, FeedTyped, FeedTypeOK, TicksLeft
    <3>4. /\ ch' \in Seq(Quote) /\ price' \in Quote /\ main' \in {"startup", "approving", "loop", "buy0", "buy1", "trade", "down"}
      BY <3>1 DEF FeedTyped, FeedTypeOK
    <3> QED
      BY <3>1, <3>2, <3>3, <3>4, ValuesAre DEF FeedTyped, TicksLeft
  <2> QED
    BY <2>1, <2>2, <2>3, <2>4 DEF Main
<1>5. FeedTypeOK'
  BY SMTT(20), <1>1, <1>2, <1>4
     DEF FeedTyped, FeedTypeOK, confVars, chainVars, resVars, pollVars, wsVars, logVars
<1> QED
  BY <1>3, <1>4, <1>5 DEF FeedTyped

LEMMA EndTyped == FeedTyped /\ Dies => FeedTyped'
<1> SUFFICES ASSUME FeedTyped, Dies PROVE FeedTyped'
  OBVIOUS
<1>1. Pairs' = Pairs /\ Log' = Log /\ 1 \in Pairs
  BY DiesTo, PairsStay DEF FeedTyped, FeedTypeOK, Pairs, confVars
<1>2. /\ hlog' \in Log /\ got' \in [r : [Pairs -> Nat], epoch : Nat]
      /\ res0' \in [Pairs -> Value] /\ res1' \in [Pairs -> Value]
      /\ \A p \in Pairs : res0'[p] \in Nat /\ res1'[p] \in Nat
  BY <1>1, DiesTo, ValuesAre DEF Log, NoLog, NothingGot, Kinds
<1>3. /\ UNCHANGED <<nPairs, ws, chain, undone, epoch>>
      /\ main' = "down" /\ poller' = "sleep" /\ pi' = 1 /\ handler' = "wait"
      /\ ~subscribed' /\ logs' = <<>> /\ ch' = <<>> /\ hold' = 0 /\ stale' = 0 /\ late' = 0
  BY DiesTo
<1>4. /\ pq' \in Quote /\ hq' \in Quote /\ price' \in Quote /\ hold' \in Value
      /\ h0' \in Copy /\ h1' \in Copy /\ limit' \in [r0 : Value, r1 : Value]
  BY DiesTo, ValuesAre
<1>5. subscribed' \in BOOLEAN
  BY DEF Dies
<1>6. FeedTypeOK'
  <2>1. /\ nPairs \in 1..MaxPairs /\ ws \in BOOLEAN /\ undone \in 0..MaxTicks
        /\ chain \in [Pairs -> 0..MaxTrades] /\ epoch \in 0..MaxTicks
    BY DEF FeedTyped, FeedTypeOK
  <2>2. /\ nPairs' \in 1..MaxPairs /\ ws' \in BOOLEAN /\ undone' \in 0..MaxTicks
        /\ chain' \in [Pairs' -> 0..MaxTrades] /\ epoch' \in 0..MaxTicks
    BY <1>1, <1>3, <2>1
  <2>3. logs' \in Seq(Log') /\ ch' \in Seq(Quote) /\ stale' \in Nat /\ late' \in Nat
    BY <1>3
  <2>4. Value' = Value /\ Quote' = Quote /\ Copy' = Copy
    BY DEF Value, Quote, Copy
  <2>5. /\ poller' \in {"sleep", "store0", "store1", "quote", "send"} /\ pi' \in Pairs'
        /\ handler' \in {"wait", "copy1", "swap0", "swap0w", "swap1", "swap1w", "quote", "send"}
        /\ main' \in {"startup", "approving", "loop", "buy0", "buy1", "trade", "down"}
    BY <1>1, <1>3
  <2>6. res0' \in [Pairs' -> Value'] /\ res1' \in [Pairs' -> Value']
    BY <1>1, <1>2, <2>4
  <2>7. hlog' \in Log' /\ got' \in [r : [Pairs' -> Nat], epoch : Nat]
    BY <1>1, <1>2
  <2> QED
    BY <1>4, <1>5, <2>2, <2>3, <2>4, <2>5, <2>6, <2>7, Zenon DEF FeedTypeOK
<1>7. NumbersHeld' /\ TicksLeft'
  BY <1>1, <1>2, <1>3, DiesTo, ValuesAre DEF NumbersHeld, TicksLeft
<1> QED
  BY <1>6, <1>7 DEF FeedTyped

LEMMA FeedStutters == FeedTyped /\ UNCHANGED feedVars => FeedTyped'
<1> SUFFICES ASSUME FeedTyped, UNCHANGED feedVars PROVE FeedTyped'
  OBVIOUS
<1>1. UNCHANGED <<confVars, chainVars, resVars, pollVars, wsVars, logVars, ch, mainVars>>
  BY DEF feedVars
<1>2. Pairs' = Pairs /\ Log' = Log
  BY <1>1, PairsStay
<1>3. FeedTypeOK'
  BY <1>1, <1>2 DEF FeedTyped, FeedTypeOK, confVars, chainVars, resVars, pollVars, wsVars,
                    logVars, mainVars
<1>4. NumbersHeld' /\ TicksLeft'
  BY <1>1, <1>2 DEF FeedTyped, NumbersHeld, TicksLeft, chainVars, resVars, logVars, mainVars
<1> QED
  BY <1>3, <1>4 DEF FeedTyped

LEMMA FeedTypedStep == FeedTyped /\ [FeedNext]_feedVars => FeedTyped'
BY NodeTyped, PollerTyped, HandlerTyped, MainTyped, EndTyped, FeedStutters DEF FeedNext

LEMMA FeedTypedAlways == FeedSpec => []FeedTyped
BY FeedInitial, FeedTypedStep, PTL DEF FeedSpec

\* The feed's variables keep their types: the handler's torn numbers are seen by
\* others, and it never computes with one itself, though the poller takes the numbers
\* it works on away at any moment.
THEOREM FeedIsTyped == FeedSpec => []FeedTypeOK
<1>1. FeedTyped => FeedTypeOK
  BY DEF FeedTyped
<1> QED
  BY FeedTypedAlways, <1>1, PTL

-----------------------------------------------------------------------------
(* Without a subscription. *)

Known(p) == chain[p] + undone

\* Nobody but the poller writes the reserves: they are what it fetched, and differ
\* only for the pair whose second one it has not stored yet.
Polled ==
  ~ws =>
    /\ ~subscribed /\ logs = <<>> /\ handler = "wait"
    /\ \A p \in Pairs :
         /\ res0[p] \in 0..Known(p) /\ res1[p] \in 0..Known(p) /\ got.r[p] \in 0..Known(p)
         /\ res0[p] = res1[p] \/ (poller = "store1" /\ p = pi)
    /\ poller = "store1" => res0[pi] = got.r[pi]
    /\ poller = "send" => pq.pair \in Pairs /\ Snapshot(pq)
    /\ \A i \in 1..Len(ch) : ch[i].pair \in Pairs /\ Snapshot(ch[i])

\* What is known of a pair only grows.
LEMMA KnownGrows ==
  ASSUME FeedTyped, [FeedNext]_feedVars
  PROVE  /\ Pairs' = Pairs /\ ws' = ws
         /\ \A p \in Pairs : Known(p) \in Nat /\ Known(p)' \in Nat /\ Known(p) <= Known(p)'
<1>1. \A p \in Pairs : chain[p] \in Nat /\ undone \in Nat
  BY DEF FeedTyped, FeedTypeOK
<1>2. CASE UNCHANGED <<confVars, chainVars>>
  BY <1>1, <1>2 DEF confVars, chainVars, Known, Pairs
<1>3. ASSUME NEW q \in Pairs, Trade(q)
      PROVE  UNCHANGED confVars /\ \A p \in Pairs : Known(p)' \in Nat /\ Known(p) <= Known(p)'
  <2>1. UNCHANGED confVars /\ undone' = undone /\ chain' = [chain EXCEPT ![q] = @ + 1]
    BY <1>3 DEF Trade
  <2>2. ASSUME NEW p \in Pairs PROVE Known(p)' \in Nat /\ Known(p) <= Known(p)'
    <3>1. chain[p] \in Nat /\ undone \in Nat
      BY <1>1
    <3>2. chain'[p] = IF p = q THEN chain[p] + 1 ELSE chain[p]
      BY <2>1 DEF FeedTyped, FeedTypeOK
    <3>3. CASE p = q
      BY <2>1, <3>1, <3>2, <3>3 DEF Known
    <3>4. CASE p # q
      BY <2>1, <3>1, <3>2, <3>4 DEF Known
    <3> QED
      BY <3>3, <3>4
  <2> QED
    BY <2>1, <2>2
<1>4. ASSUME NEW q \in Pairs, Reorg(q)
      PROVE  UNCHANGED confVars /\ \A p \in Pairs : Known(p)' \in Nat /\ Known(p) <= Known(p)'
  <2>1. UNCHANGED confVars /\ undone' = undone + 1 /\ chain' = [chain EXCEPT ![q] = @ - 1] /\ chain[q] > 0
    BY <1>4 DEF Reorg
  <2>2. ASSUME NEW p \in Pairs PROVE Known(p)' \in Nat /\ Known(p) <= Known(p)'
    <3>1. chain[p] \in Nat /\ undone \in Nat
      BY <1>1
    <3>2. chain'[p] = IF p = q THEN chain[p] - 1 ELSE chain[p]
      BY <2>1 DEF FeedTyped, FeedTypeOK
    <3>3. CASE p = q
      BY <2>1, <3>1, <3>2, <3>3 DEF Known
    <3>4. CASE p # q
      BY <2>1, <3>1, <3>2, <3>4 DEF Known
    <3> QED
      BY <3>3, <3>4
  <2> QED
    BY <2>1, <2>2
<1>5. (\E q \in Pairs : Trade(q) \/ Reorg(q)) \/ UNCHANGED <<confVars, chainVars>>
  BY DEF FeedNext, Break, Subscribe, Poller, Fetch, Store0, Store1, PollQuote, PollSend,
         LogHandler, TakeLog, CopyPair, PrintOther, Swap0, Swap1, LogQuote, LogSend,
         Main, Loop, Take, ReadLimit, TradeDone, Dies, feedVars
<1> QED
  BY <1>1, <1>2, <1>3, <1>4, <1>5 DEF confVars, Pairs, Known

\* A price the pair had stays one.
LEMMA SnapshotStays ==
  ASSUME FeedTyped, [FeedNext]_feedVars, NEW q, q.pair \in Pairs, Snapshot(q)
  PROVE  Snapshot(q)'
<1>1. Known(q.pair) \in Nat /\ Known(q.pair)' \in Nat /\ Known(q.pair) <= Known(q.pair)'
  BY KnownGrows
<1>2. q.r0 = q.r1 /\ q.r0 \in 0..Known(q.pair)
  BY DEF Snapshot, Known
<1>3. q.r0 \in 0..Known(q.pair)'
  BY <1>1, <1>2
<1> QED
  BY <1>2, <1>3 DEF Snapshot, Known

\* Only the poller and main's Take change what Polled is about.
LEMMA QuietPolled ==
  ASSUME FeedTyped, Polled, [FeedNext]_feedVars, ~ws,
         UNCHANGED <<resVars, pollVars, logVars, subscribed>>, logs' = <<>>,
         \A i \in 1..Len(ch') : ch'[i].pair \in Pairs /\ Snapshot(ch'[i])
  PROVE  Polled'
<1>1. Pairs' = Pairs /\ ws' = ws
  BY KnownGrows
<1>2. ASSUME NEW p \in Pairs
      PROVE  /\ res0[p] \in 0..Known(p)' /\ res1[p] \in 0..Known(p)' /\ got.r[p] \in 0..Known(p)'
             /\ res0[p] = res1[p] \/ (poller = "store1" /\ p = pi)
  <2>1. Known(p) \in Nat /\ Known(p)' \in Nat /\ Known(p) <= Known(p)'
    BY KnownGrows
  <2> QED
    BY <2>1 DEF Polled
<1>3. poller = "send" => pq.pair \in Pairs /\ Snapshot(pq)'
  <2>1. CASE poller = "send"
    <3>1. pq.pair \in Pairs /\ Snapshot(pq) /\ pq' = pq
      BY <2>1 DEF Polled, pollVars
    <3>2. Snapshot(pq)'
      <4>1. pq.r0 = pq.r1 /\ pq.r0 \in 0..Known(pq.pair)
        BY <3>1 DEF Snapshot, Known
      <4>2. Known(pq.pair) \in Nat /\ Known(pq.pair)' \in Nat /\ Known(pq.pair) <= Known(pq.pair)'
        <5>1. \A p \in Pairs : /\ chain[p] + undone \in Nat /\ chain'[p] + undone' \in Nat
                               /\ chain[p] + undone <= chain'[p] + undone'
          BY KnownGrows DEF Known
        <5> QED
          BY <3>1, <5>1 DEF Known
      <4>3. pq.r0 \in 0..Known(pq.pair)'
        BY <4>1, <4>2
      <4> QED
        BY <3>1, <4>1, <4>3 DEF Snapshot, Known
    <3> QED
      BY <3>1, <3>2
  <2> QED
    BY <2>1
<1>4. \A i \in 1..Len(ch') : ch'[i].pair \in Pairs /\ Snapshot(ch[i])'
  <2>1. \A p \in Pairs : /\ chain[p] + undone \in Nat /\ chain'[p] + undone' \in Nat
                         /\ chain[p] + undone <= chain'[p] + undone'
    BY KnownGrows DEF Known
  <2>2. ASSUME NEW i \in 1..Len(ch') PROVE ch'[i].pair \in Pairs /\ Snapshot(ch[i])'
    <3>1. ch'[i].pair \in Pairs /\ ch'[i].r0 = ch'[i].r1 /\ ch'[i].r0 \in 0..(chain[ch'[i].pair] + undone)
      BY <2>2 DEF Snapshot
    <3>2. ch'[i].r0 \in 0..(chain'[ch'[i].pair] + undone')
      BY <2>1, <3>1
    <3> QED
      BY <3>1, <3>2 DEF Snapshot
  <2> QED
    BY <2>2
<1>5. /\ UNCHANGED <<res0, res1, poller, pi, got, pq, handler, subscribed>> /\ logs' = <<>>
  BY DEF resVars, pollVars, logVars
<1>6. ~subscribed /\ handler = "wait" /\ (poller = "store1" => res0[pi] = got.r[pi])
  BY DEF Polled
<1>7. \A p \in Pairs' : /\ res0'[p] \in 0..Known(p)' /\ res1'[p] \in 0..Known(p)'
                        /\ got'.r[p] \in 0..Known(p)'
                        /\ res0'[p] = res1'[p] \/ (poller' = "store1" /\ p = pi')
  BY <1>1, <1>2, <1>5
<1>8. poller' = "send" => pq'.pair \in Pairs' /\ Snapshot(pq)'
  BY <1>1, <1>3, <1>5
<1> QED
  BY <1>1, <1>4, <1>5, <1>6, <1>7, <1>8 DEF Polled, Known

LEMMA PolledByPoller == ASSUME FeedTyped, Polled, ~ws, Poller PROVE Polled'
<1>1. UNCHANGED <<confVars, chainVars, subscribed, logs, handler>> /\ Pairs' = Pairs
  BY DEF Poller, Fetch, Store0, Store1, PollQuote, PollSend, wsVars, logVars, confVars, Pairs
<1>2. \A p \in Pairs : Known(p)' = Known(p) /\ chain[p] \in 0..Known(p) /\ Known(p) \in Nat
  BY <1>1 DEF Known, chainVars, FeedTyped, FeedTypeOK
<1>3. /\ ~subscribed /\ logs = <<>> /\ handler = "wait"
      /\ \A p \in Pairs :
           /\ res0[p] \in 0..Known(p) /\ res1[p] \in 0..Known(p) /\ got.r[p] \in 0..Known(p)
           /\ res0[p] = res1[p] \/ (poller = "store1" /\ p = pi)
      /\ \A i \in 1..Len(ch) : ch[i].pair \in Pairs /\ Snapshot(ch[i])
  BY DEF Polled
<1>4. pi \in Pairs /\ res0 \in [Pairs -> Value] /\ res1 \in [Pairs -> Value]
  BY DEF FeedTyped, FeedTypeOK
<1>5. \A q : Snapshot(q)' <=> Snapshot(q)
  BY <1>1 DEF Snapshot, chainVars
<1>6. \A i \in 1..Len(ch) : ch[i].pair \in Pairs /\ ch[i].r0 = ch[i].r1
                              /\ ch[i].r0 \in 0..(chain'[ch[i].pair] + undone')
  BY <1>1, <1>3 DEF Snapshot, chainVars
<1>7. CASE ch' = ch /\ pi' \in Pairs
           /\ (poller' = "store1" => res0'[pi'] = got'.r[pi'])
           /\ (poller' = "send" => pq'.pair \in Pairs /\ Snapshot(pq)')
           /\ \A p \in Pairs :
                /\ res0'[p] \in 0..Known(p) /\ res1'[p] \in 0..Known(p)
                /\ got'.r[p] \in 0..Known(p)
                /\ res0'[p] = res1'[p] \/ (poller' = "store1" /\ p = pi')
  BY <1>1, <1>2, <1>3, <1>6, <1>7 DEF Polled, Snapshot
<1>8. CASE Fetch
  <2>1. /\ UNCHANGED <<res0, res1, ch>> /\ pi' = 1 /\ poller' = "store0" /\ got'.r = chain
        /\ poller = "sleep"
    BY <1>8 DEF Fetch, resVars
  <2>2. 1 \in Pairs
    BY DEF FeedTyped, FeedTypeOK, Pairs
  <2> QED
    BY <1>7, <1>2, <1>3, <2>1, <2>2
<1>9. CASE Store0
  <2>1. /\ UNCHANGED <<res1, ch, pi, got>> /\ poller = "store0" /\ poller' = "store1"
        /\ res0' = [res0 EXCEPT ![pi] = got.r[pi]]
    BY <1>9 DEF Store0
  <2>2. \A p \in Pairs : res0'[p] = IF p = pi THEN got.r[pi] ELSE res0[p]
    BY <2>1, <1>4
  <2> QED
    BY <1>7, <1>3, <1>4, <2>1, <2>2
<1>10. CASE Store1
  <2>1. /\ UNCHANGED <<res0, ch, pi, got>> /\ poller = "store1" /\ poller' = "quote"
        /\ res1' = [res1 EXCEPT ![pi] = got.r[pi]]
    BY <1>10 DEF Store1
  <2>2. \A p \in Pairs : res1'[p] = IF p = pi THEN got.r[pi] ELSE res1[p]
    BY <2>1, <1>4
  <2>3. res0[pi] = got.r[pi]
    BY <2>1 DEF Polled
  <2> QED
    BY <1>7, <1>3, <1>4, <2>1, <2>2, <2>3
<1>11. CASE PollQuote
  <2>1. /\ UNCHANGED <<res0, res1, ch, pi, got>> /\ poller = "quote" /\ poller' = "send"
        /\ pq'.r0 = res0[pi] /\ pq'.r1 = res1[pi] /\ pq'.pair = pi
    BY <1>11 DEF PollQuote, resVars
  <2>2. res0[pi] = res1[pi] /\ res0[pi] \in 0..Known(pi)'
    BY <1>2, <1>3, <1>4, <2>1
  <2>3. Snapshot(pq)'
    BY <2>1, <2>2 DEF Snapshot, Known
  <2> QED
    BY <1>7, <1>3, <1>4, <2>1, <2>3
<1>12. CASE PollSend
  <2>1. /\ UNCHANGED <<res0, res1>> /\ poller = "send" /\ poller' \in {"store0", "sleep"}
        /\ ch' = Append(ch, pq)
    BY <1>12 DEF PollSend, resVars
  <2>2. ch \in Seq(Quote) /\ pq \in Quote
    BY DEF FeedTyped, FeedTypeOK
  <2>3. pq.pair \in Pairs /\ Snapshot(pq)
    BY <2>1 DEF Polled
  <2>4. pq.pair \in Pairs /\ pq.r0 = pq.r1 /\ pq.r0 \in 0..(chain'[pq.pair] + undone')
    BY <1>1, <2>3 DEF Snapshot, chainVars
  <2>5. \A i \in 1..Len(ch') : ch'[i].pair \in Pairs /\ Snapshot(ch[i])'
    <3>1. \A i \in 1..Len(ch') : ch'[i] = IF i <= Len(ch) THEN ch[i] ELSE pq
      BY <2>1, <2>2
    <3>2. \A i \in 1..Len(ch') : i \in 1..Len(ch) \/ ch'[i] = pq
      BY <2>1, <2>2, <3>1
    <3> QED
      BY <3>1, <3>2, <2>4, <1>6 DEF Snapshot
  <2>6. \A p \in Pairs : got'.r[p] \in 0..Known(p)
    BY <1>12, <1>2, <1>3, <1>1 DEF PollSend, NothingGot
  <2> QED
    BY <1>1, <1>2, <1>3, <2>1, <2>5, <2>6 DEF Polled
<1> QED
  BY <1>8, <1>9, <1>10, <1>11, <1>12 DEF Poller

LEMMA PolledTake == ASSUME FeedTyped, Polled, ~ws, Take
  PROVE  \A i \in 1..Len(ch') : ch'[i].pair \in Pairs /\ Snapshot(ch'[i])
<1>1. ch \in Seq(Quote) /\ ch # <<>> /\ ch' = Tail(ch)
  BY DEF Take, FeedTyped, FeedTypeOK
<1>2. \A i \in 1..Len(ch') : i + 1 \in 1..Len(ch) /\ ch'[i] = ch[i + 1]
  BY <1>1
<1> QED
  BY <1>2 DEF Polled

LEMMA PolledStep == FeedTyped /\ Polled /\ [FeedNext]_feedVars => Polled'
<1> SUFFICES ASSUME FeedTyped, Polled, [FeedNext]_feedVars PROVE Polled'
  OBVIOUS
<1>1. CASE ws
  BY <1>1, KnownGrows DEF Polled
<1>2. CASE ~ws
  <2>1. /\ ~subscribed /\ logs = <<>> /\ handler = "wait"
        /\ \A i \in 1..Len(ch) : ch[i].pair \in Pairs /\ Snapshot(ch[i])
    BY <1>2 DEF Polled
  <2>2. CASE \E p \in Pairs : Trade(p) \/ Reorg(p)
    <3>1. \A p \in Pairs : \A n, k : logs \o Logged(p, n, k) = <<>>
      BY <2>1 DEF Logged
    <3>2. UNCHANGED <<resVars, pollVars, logVars, subscribed, ch>> /\ logs' = <<>>
      BY <2>2, <3>1 DEF Trade, Reorg
    <3> QED
      BY <1>2, <2>1, <3>2, QuietPolled
  <2>3. CASE Loop \/ ReadLimit \/ TradeDone \/ UNCHANGED feedVars
    <3>1. UNCHANGED <<resVars, pollVars, logVars, subscribed, logs, ch>>
      BY <2>3 DEF Loop, ReadLimit, TradeDone, feedVars, wsVars
    <3> QED
      BY <1>2, <2>1, <3>1, QuietPolled
  <2>4. CASE Take
    <3>1. UNCHANGED <<resVars, pollVars, logVars, subscribed, logs>>
      BY <2>4 DEF Take, wsVars
    <3> QED
      BY <1>2, <2>1, <2>4, <3>1, QuietPolled, PolledTake
  <2>5. CASE Poller
    BY <1>2, <2>5, PolledByPoller
  <2>6. ~(Break \/ Subscribe \/ LogHandler)
    BY <1>2, <2>1 DEF Break, Subscribe, LogHandler, TakeLog, CopyPair, PrintOther, Swap0, Swap1, LogQuote, LogSend
  <2>7. CASE Dies
    <3>1. \A p \in Pairs : 0 \in 0..Known(p)'
      BY KnownGrows
    <3>2. Len(ch') = 0
      BY <2>7, DiesTo
    <3> QED
      BY <2>7, <3>1, <3>2, DiesTo DEF Polled, NothingGot
  <2> QED
    BY <2>2, <2>3, <2>4, <2>5, <2>6, <2>7 DEF FeedNext, Main
<1> QED
  BY <1>1, <1>2

LEMMA PolledInitial == FeedInit => Polled
BY FeedAssumption DEF FeedInit, Polled, Known, NothingGot, Pairs

\* Without a subscription every quote in the channel is a price its pair had, both
\* reserves of one block, for any number of pairs, whatever is traded or taken back
\* while the poller is between its two stores.
THEOREM FeedQuotesAreSnapshots == FeedSpec => []PollQuotesAreSnapshots
<1>1. Polled => PollQuotesAreSnapshots
  BY DEF Polled, PollQuotesAreSnapshots, QuotesAreSnapshots
<1> QED
  BY FeedInitial, FeedTypedStep, PolledInitial, PolledStep, <1>1, PTL DEF FeedSpec

-----------------------------------------------------------------------------
(* While no block is taken back, the reserves only grow. *)

NotNewer(q) == q.r0 \in 0..res0[q.pair] /\ q.r1 \in 0..res1[q.pair]

\* What the poller has fetched is no older than what it will replace, no quote is
\* newer than the reserves, and so no limit is older than the quote of its trade.
Fresh ==
  ~ws /\ undone = 0 =>
    /\ poller # "sleep" => \A p \in Pairs : res0[p] <= got.r[p] /\ res1[p] <= got.r[p]
    /\ poller = "send" => NotNewer(pq)
    /\ \A i \in 1..Len(ch) : NotNewer(ch[i])
    /\ price.pair \in Pairs => NotNewer(price)
    /\ price.pair = 1 /\ main \in {"buy1", "trade"} => limit.r0 \in Nat /\ limit.r0 >= price.r0
    /\ price.pair = 1 /\ main = "trade" => limit.r1 \in Nat /\ limit.r1 >= price.r1

\* Without a subscription only the poller writes the reserves, and it raises them.
LEMMA ReservesRise ==
  ASSUME FeedTyped, Polled, Fresh, [FeedNext]_feedVars, ~Dies, ~ws, undone' = 0
  PROVE  /\ undone = 0 /\ UNCHANGED <<confVars, handler>>
         /\ (UNCHANGED resVars) \/ Store0 \/ Store1
         /\ \A p \in Pairs : /\ res0[p] \in Nat /\ res0'[p] \in Nat /\ res0[p] <= res0'[p]
                             /\ res1[p] \in Nat /\ res1'[p] \in Nat /\ res1[p] <= res1'[p]
<1>1. undone \in Nat /\ pi \in Pairs /\ res0 \in [Pairs -> Value] /\ res1 \in [Pairs -> Value]
      /\ \A p \in Pairs : chain[p] \in Nat
  BY DEF FeedTyped, FeedTypeOK
<1>2. ~subscribed /\ logs = <<>> /\ handler = "wait"
  BY DEF Polled
<1>3. ~(Break \/ Subscribe \/ LogHandler)
  BY <1>2 DEF Break, Subscribe, LogHandler, TakeLog, CopyPair, PrintOther, Swap0, Swap1, LogQuote, LogSend
<1>4. ~(\E p \in Pairs : Reorg(p))
  BY <1>1 DEF Reorg
<1>5. (\E p \in Pairs : Trade(p)) \/ Poller \/ Main \/ UNCHANGED feedVars
  BY <1>3, <1>4 DEF FeedNext
<1>6. UNCHANGED <<confVars, undone, handler>> /\ ((UNCHANGED resVars) \/ Store0 \/ Store1)
  BY <1>5 DEF Trade, Poller, Fetch, Store0, Store1, PollQuote, PollSend, Main, Loop, Take,
              ReadLimit, TradeDone, feedVars, chainVars, logVars
<1>7. \A p \in Pairs : Known(p) \in Nat /\ res0[p] \in 0..Known(p) /\ res1[p] \in 0..Known(p)
                         /\ got.r[p] \in 0..Known(p)
  BY <1>1, KnownGrows DEF Polled
<1>8. \A p \in Pairs : res0[p] \in Nat /\ res1[p] \in Nat /\ got.r[p] \in Nat
  BY <1>7
<1>9. CASE UNCHANGED resVars
  BY <1>6, <1>8, <1>9 DEF resVars
<1>10. CASE Store0
  <2>1. UNCHANGED res1 /\ poller = "store0" /\ res0' = [res0 EXCEPT ![pi] = got.r[pi]]
    BY <1>10 DEF Store0
  <2>2. \A p \in Pairs : res0'[p] = IF p = pi THEN got.r[pi] ELSE res0[p]
    BY <1>1, <2>1
  <2>3. res0[pi] <= got.r[pi]
    BY <1>1, <1>6, <2>1 DEF Fresh
  <2> QED
    BY <1>1, <1>6, <1>8, <1>10, <2>1, <2>2, <2>3
<1>11. CASE Store1
  <2>1. UNCHANGED res0 /\ poller = "store1" /\ res1' = [res1 EXCEPT ![pi] = got.r[pi]]
    BY <1>11 DEF Store1
  <2>2. \A p \in Pairs : res1'[p] = IF p = pi THEN got.r[pi] ELSE res1[p]
    BY <1>1, <2>1
  <2>3. res1[pi] <= got.r[pi]
    BY <1>1, <1>6, <2>1 DEF Fresh
  <2> QED
    BY <1>1, <1>6, <1>8, <1>11, <2>1, <2>2, <2>3
<1> QED
  BY <1>6, <1>9, <1>10, <1>11

LEMMA FreshPoller ==
  ASSUME FeedTyped, Polled, Fresh, [FeedNext]_feedVars, ~Dies, ~ws, undone' = 0
  PROVE  /\ poller' # "sleep" => \A p \in Pairs : res0'[p] <= got'.r[p] /\ res1'[p] <= got'.r[p]
         /\ poller' = "send" => NotNewer(pq)'
<1>1. undone = 0 /\ UNCHANGED confVars /\ pi \in Pairs
  BY ReservesRise DEF FeedTyped, FeedTypeOK
<1>2. \A p \in Pairs : /\ res0[p] \in Nat /\ res0'[p] \in Nat /\ res0[p] <= res0'[p]
                       /\ res1[p] \in Nat /\ res1'[p] \in Nat /\ res1[p] <= res1'[p]
  BY ReservesRise
<1>3. CASE Fetch
  <2>1. UNCHANGED <<res0, res1>> /\ got'.r = chain /\ poller' = "store0"
    BY <1>3 DEF Fetch, resVars
  <2>2. \A p \in Pairs : /\ Known(p) = chain[p] /\ chain[p] \in Nat
                         /\ res0[p] \in 0..Known(p) /\ res1[p] \in 0..Known(p)
    BY <1>1 DEF Polled, Known, FeedTyped, FeedTypeOK
  <2> QED
    BY <2>1, <2>2
<1>4. CASE Store0
  <2>1. /\ UNCHANGED <<res1, got>> /\ poller = "store0" /\ poller' = "store1"
        /\ res0' = [res0 EXCEPT ![pi] = got.r[pi]]
    BY <1>4 DEF Store0
  <2>2. \A p \in Pairs : res0'[p] = IF p = pi THEN got.r[pi] ELSE res0[p]
    BY <1>1, <2>1 DEF FeedTyped, FeedTypeOK
  <2>3. \A p \in Pairs : res0[p] <= got.r[p] /\ res1[p] <= got.r[p]
    BY <1>1, <2>1 DEF Fresh
  <2> QED
    BY <1>1, <1>2, <2>1, <2>2, <2>3
<1>5. CASE Store1
  <2>1. /\ UNCHANGED <<res0, got>> /\ poller = "store1" /\ poller' = "quote"
        /\ res1' = [res1 EXCEPT ![pi] = got.r[pi]]
    BY <1>5 DEF Store1
  <2>2. \A p \in Pairs : res1'[p] = IF p = pi THEN got.r[pi] ELSE res1[p]
    BY <1>1, <2>1 DEF FeedTyped, FeedTypeOK
  <2>3. \A p \in Pairs : res0[p] <= got.r[p] /\ res1[p] <= got.r[p]
    BY <1>1, <2>1 DEF Fresh
  <2> QED
    BY <1>1, <1>2, <2>1, <2>2, <2>3
<1>6. CASE PollQuote
  <2>1. /\ UNCHANGED <<res0, res1, got>> /\ poller = "quote"
        /\ pq'.r0 = res0[pi] /\ pq'.r1 = res1[pi] /\ pq'.pair = pi
    BY <1>6 DEF PollQuote, resVars
  <2>2. NotNewer(pq)'
    BY <1>1, <1>2, <2>1 DEF NotNewer
  <2> QED
    BY <1>1, <2>1, <2>2 DEF Fresh
<1>7. CASE PollSend
  <2>1. /\ UNCHANGED <<res0, res1>> /\ poller = "send" /\ poller' \in {"store0", "sleep"}
        /\ poller' = "store0" => got' = got
    BY <1>7 DEF PollSend, resVars
  <2> QED
    BY <1>1, <2>1 DEF Fresh
<1>8. CASE ~Poller
  <2>1. UNCHANGED <<pollVars, resVars>>
    <3>1. ~(Break \/ Subscribe \/ LogHandler) /\ ~(\E p \in Pairs : Reorg(p))
      BY <1>1 DEF Polled, Break, Subscribe, LogHandler, TakeLog, CopyPair, PrintOther, Swap0, Swap1, LogQuote,
                  LogSend, Reorg
    <3> QED
      BY <1>8, <3>1 DEF FeedNext, Trade, Main, Loop, Take, ReadLimit, TradeDone, feedVars
  <2>2. UNCHANGED <<poller, got, pq, res0, res1>>
    BY <2>1 DEF pollVars, resVars
  <2>3. NotNewer(pq) => NotNewer(pq)'
    BY <2>2 DEF NotNewer
  <2> QED
    BY <1>1, <2>2, <2>3 DEF Fresh
<1> QED
  BY <1>3, <1>4, <1>5, <1>6, <1>7, <1>8 DEF Poller

LEMMA FreshChannel ==
  ASSUME FeedTyped, Polled, Fresh, [FeedNext]_feedVars, ~Dies, ~ws, undone' = 0
  PROVE  /\ \A i \in 1..Len(ch') : NotNewer(ch[i])'
         /\ price'.pair \in Pairs => NotNewer(price)'
<1>1. undone = 0 /\ UNCHANGED <<confVars, handler>> /\ handler = "wait"
  BY ReservesRise DEF Polled
<1>2. \A p \in Pairs : /\ res0[p] \in Nat /\ res0'[p] \in Nat /\ res0[p] <= res0'[p]
                       /\ res1[p] \in Nat /\ res1'[p] \in Nat /\ res1[p] <= res1'[p]
  BY ReservesRise
<1>3. ch \in Seq(Quote) /\ pq \in Quote
  BY DEF FeedTyped, FeedTypeOK
<1>4. \A i \in 1..Len(ch) : ch[i].pair \in Pairs /\ ch[i].r0 \in 0..res0'[ch[i].pair]
                              /\ ch[i].r1 \in 0..res1'[ch[i].pair]
  <2>1. ASSUME NEW i \in 1..Len(ch)
        PROVE  ch[i].pair \in Pairs /\ ch[i].r0 \in 0..res0[ch[i].pair] /\ ch[i].r1 \in 0..res1[ch[i].pair]
    BY <1>1, <2>1 DEF Polled, Fresh, NotNewer
  <2> QED
    BY <1>2, <2>1
<1>5. price.pair \in Pairs => price.r0 \in 0..res0'[price.pair] /\ price.r1 \in 0..res1'[price.pair]
  <2>1. price.pair \in Pairs => price.r0 \in 0..res0[price.pair] /\ price.r1 \in 0..res1[price.pair]
    BY <1>1 DEF Fresh, NotNewer
  <2> QED
    BY <1>2, <2>1
<1>6. CASE UNCHANGED <<ch, price>>
  BY <1>4, <1>5, <1>6 DEF NotNewer
<1>7. CASE PollSend
  <2>1. ch' = Append(ch, pq) /\ UNCHANGED <<res0, res1, price>> /\ poller = "send"
    BY <1>7 DEF PollSend, resVars
  <2>2. pq.r0 \in 0..res0'[pq.pair] /\ pq.r1 \in 0..res1'[pq.pair]
    BY <1>1, <2>1 DEF Fresh, NotNewer
  <2>3. \A i \in 1..Len(ch') : (i \in 1..Len(ch) /\ ch'[i] = ch[i]) \/ ch'[i] = pq
    BY <2>1, <1>3
  <2>4. \A i \in 1..Len(ch') : NotNewer(ch[i])'
    BY <1>4, <2>2, <2>3 DEF NotNewer
  <2> QED
    BY <1>5, <2>1, <2>4 DEF NotNewer
<1>8. CASE Take
  <2>1. /\ ch # <<>> /\ ch' = Tail(ch) /\ price' = [ch[1] EXCEPT !.epoch = 0]
    BY <1>8 DEF Take
  <2>2. 1 \in 1..Len(ch) /\ \A i \in 1..Len(ch') : i + 1 \in 1..Len(ch) /\ ch'[i] = ch[i + 1]
    BY <1>3, <2>1
  <2>3. ch[1] \in Quote
    BY <1>3, <2>2
  <2>4. price'.r0 = ch[1].r0 /\ price'.r1 = ch[1].r1 /\ price'.pair = ch[1].pair
    BY <2>1, <2>3 DEF Quote
  <2>5. \A i \in 1..Len(ch') : NotNewer(ch[i])'
    BY <1>4, <2>2 DEF NotNewer
  <2>6. NotNewer(price)'
    BY <1>4, <2>2, <2>4 DEF NotNewer
  <2> QED
    BY <2>5, <2>6
<1>9. (UNCHANGED <<ch, price>>) \/ PollSend \/ Take
  BY <1>1 DEF FeedNext, Trade, Reorg, Break, Subscribe, Poller, Fetch, Store0, Store1, PollQuote,
         LogHandler, TakeLog, CopyPair, PrintOther, Swap0, Swap1, LogQuote, LogSend, Main, Loop, ReadLimit,
         TradeDone, feedVars, mainVars
<1> QED
  BY <1>6, <1>7, <1>8, <1>9

LEMMA FreshLimit ==
  ASSUME FeedTyped, Polled, Fresh, [FeedNext]_feedVars, ~Dies, ~ws, undone' = 0, price'.pair = 1
  PROVE  /\ main' \in {"buy1", "trade"} => limit'.r0 \in Nat /\ limit'.r0 >= price'.r0
         /\ main' = "trade" => limit'.r1 \in Nat /\ limit'.r1 >= price'.r1
<1>1. undone = 0
  BY ReservesRise
<1>2. CASE UNCHANGED <<price, main, limit>>
  BY <1>1, <1>2 DEF Fresh
<1>3. CASE ReadLimit
  <2>1. 1 \in Pairs /\ limit \in [r0 : Value, r1 : Value] /\ price' = price
    BY <1>3 DEF ReadLimit, FeedTyped, FeedTypeOK, Pairs
  <2>2. price.r0 \in 0..res0[1] /\ price.r1 \in 0..res1[1]
    BY <1>1, <2>1 DEF Fresh, NotNewer
  <2>3. res0[1] \in Nat /\ res1[1] \in Nat
    BY <2>1, ReservesRise
  <2>4. CASE main = "buy0" /\ limit' = [limit EXCEPT !.r0 = res0[1]] /\ main' = "buy1"
    BY <2>1, <2>2, <2>3, <2>4
  <2>5. CASE main = "buy1" /\ limit' = [limit EXCEPT !.r1 = res1[1]] /\ main' = "trade"
    <3>1. limit.r0 \in Nat /\ limit.r0 >= price.r0
      BY <1>1, <2>1, <2>5 DEF Fresh
    <3> QED
      BY <2>1, <2>2, <2>3, <2>5, <3>1
  <2> QED
    BY <1>3, <2>4, <2>5 DEF ReadLimit
<1>4. (UNCHANGED <<price, main, limit>>) \/ ReadLimit \/ main' \notin {"buy1", "trade"}
  BY DEF FeedNext, Trade, Reorg, Break, Subscribe, Poller, Fetch, Store0, Store1, PollQuote, PollSend,
         LogHandler, TakeLog, CopyPair, PrintOther, Swap0, Swap1, LogQuote, LogSend, Main, Loop, Take,
         TradeDone, feedVars, mainVars
<1> QED
  BY <1>2, <1>3, <1>4

LEMMA FreshStep == FeedTyped /\ Polled /\ Fresh /\ [FeedNext]_feedVars => Fresh'
<1> SUFFICES ASSUME FeedTyped, Polled, Fresh, [FeedNext]_feedVars, ~ws', undone' = 0
             PROVE  Fresh'
  BY DEF Fresh
<1>1. ~ws /\ Pairs' = Pairs
  BY KnownGrows
<1>2. CASE Dies
  <2>1. Len(ch') = 0 /\ price'.pair = 0 /\ 0 \notin Pairs' /\ poller' = "sleep" /\ main' = "down"
    BY <1>2, DiesTo DEF NoQuote, Pairs
  <2> QED
    BY <2>1 DEF Fresh
<1>3. CASE ~Dies
  <2>1. /\ poller' # "sleep" => \A p \in Pairs : res0'[p] <= got'.r[p] /\ res1'[p] <= got'.r[p]
        /\ poller' = "send" => NotNewer(pq)'
    BY <1>1, <1>3, FreshPoller
  <2>2. /\ \A i \in 1..Len(ch') : NotNewer(ch[i])'
        /\ price'.pair \in Pairs => NotNewer(price)'
    BY <1>1, <1>3, FreshChannel
  <2>3. price'.pair = 1 =>
          /\ main' \in {"buy1", "trade"} => limit'.r0 \in Nat /\ limit'.r0 >= price'.r0
          /\ main' = "trade" => limit'.r1 \in Nat /\ limit'.r1 >= price'.r1
    BY <1>1, <1>3, FreshLimit
  <2> QED
    BY <1>1, <2>1, <2>2, <2>3 DEF Fresh
<1> QED
  BY <1>2, <1>3

LEMMA FreshInitial == FeedInit => Fresh
BY DEF FeedInit, Fresh, NoQuote, Pairs

\* Without a subscription and while no block is taken back, the limit of a trade is
\* never computed from older reserves than the quote that triggered it, for any
\* number of pairs and any capacity of the channel.
THEOREM FeedLimitsAreFresh == FeedSpec => []LimitNotOlderThanQuote
<1>1. Fresh => LimitNotOlderThanQuote
  BY DEF Fresh, LimitNotOlderThanQuote
<1> QED
  BY FeedInitial, FeedTypedStep, PolledInitial, PolledStep, FreshInitial, FreshStep, <1>1, PTL
     DEF FeedSpec

-----------------------------------------------------------------------------
(* Quotes from before a trade. *)

\* The places of a sequence s that hold a quote or log from before trade e.
StalePlaces(s, e) == {i \in 1..Len(s) : s[i].epoch < e}
StaleCount(s, e) == Cardinality(StalePlaces(s, e))
IsStale(q, e) == IF q.epoch < e THEN 1 ELSE 0

LEMMA StaleCountBounded ==
  ASSUME NEW Q, NEW s \in Seq(Q), NEW e \in Nat
  PROVE  /\ IsFiniteSet(StalePlaces(s, e))
         /\ StaleCount(s, e) \in Nat /\ StaleCount(s, e) <= Len(s)
<1>1. Len(s) \in Nat /\ StalePlaces(s, e) \in SUBSET (1..Len(s))
  BY DEF StalePlaces
<1>2. IsFiniteSet(1..Len(s)) /\ Cardinality(1..Len(s)) = Len(s)
  <2>1. /\ IsFiniteSet(1..Len(s))
        /\ Cardinality(1..Len(s)) = IF 1 > Len(s) THEN 0 ELSE Len(s) - 1 + 1
    <3>1. 1 \in Int /\ Len(s) \in Int
      BY <1>1
    <3> QED
      BY <3>1, FS_Interval, Zenon
  <2> QED
    BY <1>1, <2>1
<1>3. IsFiniteSet(StalePlaces(s, e)) /\ StaleCount(s, e) <= Len(s)
  BY <1>1, <1>2, FS_Subset DEF StaleCount
<1> QED
  BY <1>3, FS_CardinalityType DEF StaleCount

LEMMA StaleCountAppend ==
  ASSUME NEW Q, NEW s \in Seq(Q), NEW q \in Q, NEW e \in Nat
  PROVE  StaleCount(Append(s, q), e) <= StaleCount(s, e) + IsStale(q, e)
<1> DEFINE n == Len(s) + 1
<1>1. /\ Len(s) \in Nat /\ Append(s, q) \in Seq(Q) /\ Len(Append(s, q)) = n
      /\ \A i \in 1..n : Append(s, q)[i] = IF i = n THEN q ELSE s[i]
  OBVIOUS
<1>2. IsFiniteSet(StalePlaces(s, e)) /\ StaleCount(s, e) \in Nat
  BY StaleCountBounded
<1>3. n \notin StalePlaces(s, e)
  BY <1>1 DEF StalePlaces
<1>4. CASE q.epoch < e
  <2>1. StalePlaces(Append(s, q), e) \subseteq StalePlaces(s, e) \cup {n}
    BY <1>1 DEF StalePlaces
  <2>2. IsFiniteSet(StalePlaces(s, e) \cup {n})
        /\ Cardinality(StalePlaces(s, e) \cup {n}) = StaleCount(s, e) + 1
    BY <1>2, <1>3, FS_AddElement DEF StaleCount
  <2>3. StaleCount(Append(s, q), e) <= Cardinality(StalePlaces(s, e) \cup {n})
    BY <2>1, <2>2, FS_Subset DEF StaleCount
  <2> QED
    BY <1>4, <2>2, <2>3 DEF IsStale
<1>5. CASE ~(q.epoch < e)
  <2>1. StalePlaces(Append(s, q), e) = StalePlaces(s, e)
    BY <1>1, <1>5 DEF StalePlaces
  <2> QED
    BY <1>2, <1>5, <2>1 DEF StaleCount, IsStale
<1> QED
  BY <1>4, <1>5

\* What is left keeps its quotes, each a place further to the front.
LEMMA StaleCountTail ==
  ASSUME NEW Q, NEW s \in Seq(Q), s # <<>>, NEW e \in Nat
  PROVE  StaleCount(Tail(s), e) + IsStale(Head(s), e) <= StaleCount(s, e)
<1> DEFINE S == StalePlaces(s, e)  T == StalePlaces(Tail(s), e)  R == S \ {1}
           f == [i \in R |-> i - 1]
<1>1. /\ Len(s) \in Nat /\ Len(s) > 0 /\ Head(s) = s[1]
      /\ Tail(s) \in Seq(Q) /\ Len(Tail(s)) = Len(s) - 1
      /\ \A i \in 1..(Len(s) - 1) : Tail(s)[i] = s[i + 1]
  OBVIOUS
<1>2. IsFiniteSet(S) /\ StaleCount(s, e) \in Nat
  BY StaleCountBounded
<1>3. /\ IsFiniteSet(R)
      /\ Cardinality(R) = IF 1 \in S THEN StaleCount(s, e) - 1 ELSE StaleCount(s, e)
  BY <1>2, FS_RemoveElement DEF StaleCount
<1>4. Cardinality(R) = StaleCount(s, e) - IsStale(Head(s), e)
  <2>1. 1 \in S <=> Head(s).epoch < e
    BY <1>1 DEF StalePlaces
  <2> QED
    BY <1>2, <1>3, <2>1 DEF IsStale
<1>5. f \in Surjection(R, T)
  <2>1. ASSUME NEW i \in R PROVE i - 1 \in T
    <3>1. i \in 2..Len(s) /\ s[i].epoch < e
      BY <1>1 DEF StalePlaces
    <3>2. i - 1 \in 1..(Len(s) - 1) /\ (i - 1) + 1 = i
      BY <1>1, <3>1
    <3>3. Tail(s)[i - 1] = s[i]
      BY <1>1, <3>2
    <3> QED
      BY <1>1, <3>1, <3>2, <3>3 DEF StalePlaces
  <2>2. ASSUME NEW j \in T PROVE j + 1 \in R /\ f[j + 1] = j
    <3>1. j \in 1..(Len(s) - 1) /\ s[j + 1].epoch < e
      BY <1>1 DEF StalePlaces
    <3>2. j + 1 \in 1..Len(s) /\ j + 1 # 1 /\ (j + 1) - 1 = j
      BY <1>1, <3>1
    <3>3. j + 1 \in R
      BY <3>1, <3>2 DEF StalePlaces
    <3> QED
      BY <3>2, <3>3
  <2>3. f \in [R -> T]
    BY <2>1
  <2>4. \A j \in T : \E i \in R : f[i] = j
    BY <2>2
  <2> QED
    BY <2>3, <2>4 DEF Surjection
<1>6. StaleCount(Tail(s), e) <= Cardinality(R)
  BY <1>3, <1>5, FS_Surjection DEF StaleCount
<1>7. StaleCount(Tail(s), e) \in Nat
  BY <1>1, StaleCountBounded
<1> HIDE DEF R
<1> QED
  BY <1>2, <1>4, <1>6, <1>7 DEF IsStale

\* A log is never from before a trade when it is emitted.
LEMMA LoggedNotStale ==
  ASSUME FeedTyped, NEW p \in Pairs, NEW n \in Nat, NEW k \in Kinds
  PROVE  StaleCount(logs \o Logged(p, n, k), epoch) = StaleCount(logs, epoch)
<1> DEFINE new == Logged(p, n, k)
<1>1. epoch \in Nat /\ logs \in Seq(Log)
  BY DEF FeedTyped, FeedTypeOK
<1>2. new \in Seq(Log) /\ \A i \in 1..Len(new) : new[i].epoch = epoch
  <2>1. \A kind \in Kinds :
          /\ [pair |-> p, n |-> n, kind |-> kind, epoch |-> epoch] \in Log
          /\ [pair |-> p, n |-> n, kind |-> kind, epoch |-> epoch].epoch = epoch
    BY <1>1 DEF Log
  <2>2. CASE subscribed
    <3> DEFINE a == [pair |-> p, n |-> n, kind |-> "Sync", epoch |-> epoch]
               b == [pair |-> p, n |-> n, kind |-> k, epoch |-> epoch]
    <3>1. a \in Log /\ b \in Log /\ a.epoch = epoch /\ b.epoch = epoch
      BY <2>1 DEF Kinds
    <3>2. new = <<a, b>>
      BY <2>2 DEF Logged
    <3> HIDE DEF a, b, new
    <3> QED
      BY <3>1, <3>2
  <2>3. CASE ~subscribed
    <3>1. new = <<>>
      BY <2>3 DEF Logged
    <3> HIDE DEF new
    <3> QED
      BY <3>1
  <2> QED
    BY <2>2, <2>3
<1> HIDE DEF new
<1>3. /\ Len(logs \o new) = Len(logs) + Len(new) /\ Len(logs) \in Nat /\ Len(new) \in Nat
      /\ \A i \in 1..(Len(logs) + Len(new)) :
           (logs \o new)[i] = IF i <= Len(logs) THEN logs[i] ELSE new[i - Len(logs)]
  BY <1>1, <1>2
<1>4. ASSUME NEW i \in 1..(Len(logs) + Len(new))
      PROVE  (logs \o new)[i].epoch < epoch <=> i <= Len(logs) /\ logs[i].epoch < epoch
  <2>1. CASE i <= Len(logs)
    BY <1>3, <2>1
  <2>2. CASE ~(i <= Len(logs))
    <3>1. i - Len(logs) \in 1..Len(new)
      BY <1>3, <2>2
    <3>2. (logs \o new)[i].epoch = epoch
      BY <1>2, <1>3, <2>2, <3>1
    <3> QED
      BY <1>1, <2>2, <3>2
  <2> QED
    BY <2>1, <2>2
<1>5. StalePlaces(logs \o new, epoch) = StalePlaces(logs, epoch)
  BY <1>3, <1>4 DEF StalePlaces
<1> QED
  BY <1>5 DEF StaleCount, new

\* What the poller's round and the log in hand may still add from before a trade.
PollerOwes == IF poller # "sleep" /\ got.epoch < epoch THEN nPairs - pi + 1 ELSE 0
HandlerOwes == IF handler # "wait" THEN IsStale(hlog, epoch) ELSE 0

InChannel == StaleCount(ch, epoch)
InLogs    == StaleCount(logs, epoch)
BacklogMax == Cap + nPairs + late

\* The stale quotes taken, and all that may still come, are within the bound.
Owed ==
  /\ Len(ch) <= Cap
  /\ poller = "send" => pq.epoch = got.epoch
  /\ handler = "send" => hq.epoch = hlog.epoch
  /\ ~ws => handler = "wait" /\ ~subscribed /\ logs = <<>> /\ late = 0
  /\ stale + InChannel + InLogs + PollerOwes + HandlerOwes <= BacklogMax

LEMMA OwedTyped ==
  ASSUME FeedTyped
  PROVE  /\ ch \in Seq(Quote) /\ Len(ch) \in Nat /\ logs \in Seq(Log) /\ Len(logs) \in Nat
         /\ epoch \in Nat /\ stale \in Nat /\ late \in Nat /\ nPairs \in Nat /\ pi \in 1..nPairs
         /\ got.epoch \in Nat /\ pq \in Quote /\ hq \in Quote /\ hlog \in Log
         /\ Cap \in Nat /\ BacklogMax \in Nat
         /\ InChannel \in Nat /\ InChannel <= Len(ch) /\ InLogs \in Nat /\ InLogs <= Len(logs)
         /\ PollerOwes \in 0..nPairs /\ HandlerOwes \in 0..1
<1>1. /\ ch \in Seq(Quote) /\ logs \in Seq(Log) /\ epoch \in Nat /\ stale \in Nat /\ late \in Nat
      /\ nPairs \in Nat /\ pi \in 1..nPairs /\ got.epoch \in Nat
      /\ pq \in Quote /\ hq \in Quote /\ hlog \in Log
  BY FeedAssumption DEF FeedTyped, FeedTypeOK, Pairs
<1>2. Len(ch) \in Nat /\ Len(logs) \in Nat
  BY <1>1
<1>3. /\ InChannel \in Nat /\ InChannel <= Len(ch)
      /\ InLogs \in Nat /\ InLogs <= Len(logs)
  BY <1>1, StaleCountBounded DEF InChannel, InLogs
<1>4. PollerOwes \in 0..nPairs
  BY <1>1 DEF PollerOwes
<1>5. HandlerOwes \in 0..1
  BY DEF HandlerOwes, IsStale
<1>6. Cap \in Nat /\ BacklogMax \in Nat
  BY <1>1, FeedAssumption DEF BacklogMax
<1> QED
  BY <1>1, <1>2, <1>3, <1>4, <1>5, <1>6

\* Without a subscription there is no log to handle.
LEMMA OwedQuiet ==
  ASSUME Owed, [FeedNext]_feedVars
  PROVE  /\ UNCHANGED confVars
         /\ ~ws' => handler' = "wait" /\ ~subscribed' /\ logs' = <<>> /\ late' = 0
<1>1. UNCHANGED confVars
  BY DEF FeedNext, Trade, Reorg, Break, Subscribe, Poller, Fetch, Store0, Store1, PollQuote,
         PollSend, LogHandler, TakeLog, CopyPair, PrintOther, Swap0, Swap1, LogQuote, LogSend,
         Main, Loop, Take, ReadLimit, TradeDone, Dies, feedVars
<1>2. CASE ~ws
  <2>1. handler = "wait" /\ ~subscribed /\ logs = <<>> /\ late = 0
    BY <1>2 DEF Owed
  <2>2. CASE \E p \in Pairs : Trade(p) \/ Reorg(p)
    <3>1. \A p \in Pairs : \A n, k : logs \o Logged(p, n, k) = <<>>
      BY <2>1 DEF Logged
    <3> QED
      BY <1>1, <2>1, <2>2, <3>1 DEF Trade, Reorg, logVars, mainVars
  <2>3. ~(Break \/ Subscribe \/ LogHandler)
    BY <1>2, <2>1 DEF Break, Subscribe, LogHandler, TakeLog, CopyPair, PrintOther, Swap0, Swap1, LogQuote,
                      LogSend
  <2>4. CASE Poller \/ Loop \/ Take \/ ReadLimit \/ UNCHANGED feedVars
    <3>1. UNCHANGED <<subscribed, logs, handler, late>>
      BY <2>4 DEF Poller, Fetch, Store0, Store1, PollQuote, PollSend, Loop, Take, ReadLimit,
                  feedVars, wsVars, logVars, mainVars
    <3> QED
      BY <1>1, <2>1, <3>1
  <2>5. CASE TradeDone
    <3>1. UNCHANGED <<subscribed, logs, handler>> /\ late' = Len(logs) + 0 /\ Len(logs) = 0
      BY <2>1, <2>5 DEF TradeDone, wsVars, logVars
    <3> QED
      BY <1>1, <2>1, <3>1
  <2>6. CASE Dies
    BY <1>1, <2>6, DiesTo
  <2> QED
    BY <2>2, <2>3, <2>4, <2>5, <2>6 DEF FeedNext, Main
<1> QED
  BY <1>1, <1>2 DEF confVars

LEMMA OwedTypedNext ==
  ASSUME FeedTyped'
  PROVE  InChannel' \in Nat /\ InLogs' \in Nat /\ PollerOwes' \in Nat /\ HandlerOwes' \in Nat
<1>1. /\ ch' \in Seq(Quote) /\ logs' \in Seq(Log') /\ epoch' \in Nat
      /\ nPairs' \in Nat /\ pi' \in 1..nPairs'
  BY FeedAssumption DEF FeedTyped, FeedTypeOK, Pairs
<1>2. InChannel' \in Nat /\ InLogs' \in Nat
  BY <1>1, StaleCountBounded DEF InChannel, InLogs, StaleCount, StalePlaces
<1>3. nPairs' - pi' + 1 \in Nat
  <2>1. \A n \in Nat : \A i \in 1..n : n - i + 1 \in Nat
    OBVIOUS
  <2> QED
    BY <1>1, <2>1
<1>4. PollerOwes' \in Nat
  BY <1>3 DEF PollerOwes
<1>5. HandlerOwes' \in Nat
  BY DEF HandlerOwes, IsStale
<1> QED
  BY <1>2, <1>4, <1>5

\* Steps that take no quote and end no trade: what they move, they do not add.
LEMMA OwedMoved ==
  ASSUME FeedTyped, Owed, [FeedNext]_feedVars, FeedTyped', UNCHANGED <<epoch, stale, late>>,
         InChannel' + InLogs' + PollerOwes' + HandlerOwes'
           <= InChannel + InLogs + PollerOwes + HandlerOwes,
         Len(ch') <= Cap,
         poller' = "send" => pq'.epoch = got'.epoch,
         handler' = "send" => hq'.epoch = hlog'.epoch
  PROVE  Owed'
<1>1. UNCHANGED confVars /\ (~ws' => handler' = "wait" /\ ~subscribed' /\ logs' = <<>> /\ late' = 0)
  BY OwedQuiet
<1>2. BacklogMax' = BacklogMax
  BY <1>1 DEF BacklogMax, confVars
<1>3. InChannel' \in Nat /\ InLogs' \in Nat /\ PollerOwes' \in Nat /\ HandlerOwes' \in Nat
  BY OwedTypedNext
<1>4. /\ stale \in Nat /\ InChannel \in Nat /\ InLogs \in Nat /\ PollerOwes \in Nat
      /\ HandlerOwes \in Nat /\ BacklogMax \in Nat
  <2>1. /\ stale \in Nat /\ InChannel \in Nat /\ InLogs \in Nat /\ nPairs \in Nat
        /\ PollerOwes \in 0..nPairs /\ HandlerOwes \in 0..1 /\ BacklogMax \in Nat
    BY OwedTyped, Zenon
  <2>2. PollerOwes \in Nat /\ HandlerOwes \in Nat
    BY <2>1
  <2> QED
    BY <2>1, <2>2
<1>5. stale + InChannel + InLogs + PollerOwes + HandlerOwes <= BacklogMax
  BY DEF Owed
<1>6. stale + InChannel' + InLogs' + PollerOwes' + HandlerOwes' <= BacklogMax
  <2> DEFINE c == InChannel  l == InLogs  p == PollerOwes  h == HandlerOwes
             cc == InChannel'  ll == InLogs'  pp == PollerOwes'  hh == HandlerOwes'
  <2>1. /\ c \in Nat /\ l \in Nat /\ p \in Nat /\ h \in Nat
        /\ cc \in Nat /\ ll \in Nat /\ pp \in Nat /\ hh \in Nat
        /\ cc + ll + pp + hh <= c + l + p + h /\ stale + c + l + p + h <= BacklogMax
    BY <1>3, <1>4, <1>5
  <2> HIDE DEF c, l, p, h, cc, ll, pp, hh
  <2>2. stale + cc + ll + pp + hh <= BacklogMax
    BY <1>4, <2>1
  <2> QED
    BY <2>2 DEF cc, ll, pp, hh
<1> QED
  BY <1>1, <1>2, <1>6 DEF Owed

\* A send moves a quote from what is owed to the channel.
LEMMA OwedPollSend == ASSUME FeedTyped, Owed, [FeedNext]_feedVars, PollSend PROVE Owed'
<1>1. /\ poller = "send" /\ Len(ch) < Cap /\ ch' = Append(ch, pq)
      /\ UNCHANGED <<stale, late, epoch, nPairs, handler, hq, hlog, logs>>
      /\ \/ pi < nPairs /\ pi' = pi + 1 /\ poller' = "store0" /\ got' = got
         \/ pi = nPairs /\ poller' = "sleep"
  BY DEF PollSend, confVars, logVars, wsVars
<1>2. /\ ch \in Seq(Quote) /\ Len(ch) \in Nat /\ epoch \in Nat /\ nPairs \in Nat /\ pi \in 1..nPairs
      /\ got.epoch \in Nat /\ pq \in Quote /\ Cap \in Nat
      /\ InChannel \in Nat /\ InLogs \in Nat /\ HandlerOwes \in Nat /\ PollerOwes \in Nat
  BY OwedTyped
<1>3. pq.epoch = got.epoch /\ (handler = "send" => hq.epoch = hlog.epoch)
  BY <1>1 DEF Owed
<1>4. PollerOwes' + IsStale(pq, epoch) <= PollerOwes /\ PollerOwes' \in Nat
  <2>1. CASE got.epoch < epoch
    <3>1. PollerOwes = nPairs - pi + 1 /\ IsStale(pq, epoch) = 1
      BY <1>1, <1>3, <2>1 DEF PollerOwes, IsStale
    <3>2. CASE pi < nPairs /\ pi' = pi + 1 /\ poller' = "store0" /\ got' = got
      <4>1. PollerOwes' = nPairs - (pi + 1) + 1
        BY <1>1, <2>1, <3>2 DEF PollerOwes
      <4> QED
        BY <1>2, <3>1, <3>2, <4>1
    <3>3. CASE pi = nPairs /\ poller' = "sleep"
      <4>1. PollerOwes' = 0
        BY <3>3 DEF PollerOwes
      <4> QED
        BY <1>2, <3>1, <3>3, <4>1
    <3> QED
      BY <1>1, <3>2, <3>3
  <2>2. CASE ~(got.epoch < epoch)
    <3>1. PollerOwes = 0 /\ IsStale(pq, epoch) = 0
      BY <1>3, <2>2 DEF PollerOwes, IsStale
    <3>2. PollerOwes' = 0
      BY <1>1, <2>2 DEF PollerOwes
    <3> QED
      BY <3>1, <3>2
  <2> QED
    BY <2>1, <2>2
<1>5. StaleCount(ch', epoch) <= InChannel + IsStale(pq, epoch) /\ IsStale(pq, epoch) \in Nat
  BY <1>1, <1>2, StaleCountAppend DEF InChannel, IsStale
<1>6. ch' \in Seq(Quote) /\ Len(ch') <= Cap /\ StaleCount(ch', epoch) \in Nat
  <2>1. ch' \in Seq(Quote) /\ Len(ch') <= Cap
    BY <1>1, <1>2
  <2> QED
    BY <1>2, <2>1, StaleCountBounded
<1>7. HandlerOwes' = HandlerOwes /\ InChannel' = StaleCount(ch', epoch) /\ InLogs' = InLogs
  BY <1>1 DEF HandlerOwes, IsStale, InChannel, InLogs, StaleCount, StalePlaces
<1>8. InChannel' + InLogs' + PollerOwes' + HandlerOwes'
        <= InChannel + InLogs + PollerOwes + HandlerOwes
  <2> DEFINE c == InChannel  l == InLogs  p == PollerOwes  h == HandlerOwes
             cc == InChannel'  pp == PollerOwes'  k == IsStale(pq, epoch)
  <2>1. /\ c \in Nat /\ l \in Nat /\ p \in Nat /\ h \in Nat /\ k \in Nat /\ pp \in Nat /\ cc \in Nat
        /\ cc <= c + k /\ pp + k <= p /\ InLogs' = l /\ HandlerOwes' = h
    BY <1>2, <1>4, <1>5, <1>6, <1>7
  <2> HIDE DEF c, l, p, h, cc, pp, k
  <2>2. cc + l + pp + h <= c + l + p + h
    BY <2>1
  <2> QED
    BY <2>1, <2>2 DEF c, l, p, h, cc, pp
<1>9. FeedTyped'
  BY FeedTypedStep
<1> QED
  BY <1>1, <1>3, <1>6, <1>8, <1>9, OwedMoved

\* The quote of a log is as old as the log.
LEMMA OwedLogSend == ASSUME FeedTyped, Owed, [FeedNext]_feedVars, LogSend PROVE Owed'
<1>1. /\ handler = "send" /\ handler' = "wait" /\ Len(ch) < Cap /\ ch' = Append(ch, hq)
      /\ UNCHANGED <<stale, late, epoch, nPairs, poller, pi, got, pq, logs>>
  BY DEF LogSend, confVars, pollVars, mainVars, wsVars
<1>2. /\ ch \in Seq(Quote) /\ Len(ch) \in Nat /\ epoch \in Nat /\ hq \in Quote /\ Cap \in Nat
      /\ InChannel \in Nat /\ InLogs \in Nat /\ PollerOwes \in Nat
  BY OwedTyped
<1>3. HandlerOwes = IsStale(hq, epoch) /\ HandlerOwes' = 0 /\ IsStale(hq, epoch) \in Nat
      /\ (poller = "send" => pq.epoch = got.epoch)
  BY <1>1 DEF Owed, HandlerOwes, IsStale
<1>4. StaleCount(ch', epoch) <= InChannel + IsStale(hq, epoch)
  BY <1>1, <1>2, StaleCountAppend DEF InChannel
<1>5. Len(ch') <= Cap /\ StaleCount(ch', epoch) \in Nat
  <2>1. ch' \in Seq(Quote) /\ Len(ch') <= Cap
    BY <1>1, <1>2
  <2> QED
    BY <1>2, <2>1, StaleCountBounded
<1>6. PollerOwes' = PollerOwes /\ InChannel' = StaleCount(ch', epoch) /\ InLogs' = InLogs
  BY <1>1 DEF PollerOwes, InChannel, InLogs, StaleCount, StalePlaces
<1>7. InChannel' + InLogs' + PollerOwes' + HandlerOwes'
        <= InChannel + InLogs + PollerOwes + HandlerOwes
  BY <1>2, <1>3, <1>4, <1>5, <1>6
<1>8. FeedTyped'
  BY FeedTypedStep
<1> QED
  BY <1>1, <1>3, <1>5, <1>7, <1>8, OwedMoved

\* A log that is only printed is owed no more.
LEMMA OwedPrintOther == ASSUME FeedTyped, Owed, [FeedNext]_feedVars, PrintOther PROVE Owed'
<1>1. /\ handler' = "wait"
      /\ UNCHANGED <<stale, late, epoch, nPairs, poller, pi, got, pq, logs, ch>>
  BY DEF PrintOther, confVars, pollVars, mainVars, wsVars
<1>2. InChannel \in Nat /\ InLogs \in Nat /\ PollerOwes \in Nat /\ HandlerOwes \in Nat
  BY OwedTyped
<1>3. /\ HandlerOwes' = 0 /\ PollerOwes' = PollerOwes
      /\ InChannel' = InChannel /\ InLogs' = InLogs
  BY <1>1 DEF HandlerOwes, PollerOwes, InChannel, InLogs, StaleCount, StalePlaces
<1>4. InChannel' + InLogs' + PollerOwes' + HandlerOwes'
        <= InChannel + InLogs + PollerOwes + HandlerOwes
  BY <1>2, <1>3
<1>5. FeedTyped' /\ Len(ch') <= Cap /\ (poller' = "send" => pq'.epoch = got'.epoch)
  BY <1>1, FeedTypedStep DEF Owed
<1> QED
  BY <1>1, <1>4, <1>5, OwedMoved

\* A log that is taken is in hand and waits no more.
LEMMA OwedTakeLog == ASSUME FeedTyped, Owed, [FeedNext]_feedVars, TakeLog PROVE Owed'
<1>1. /\ handler = "wait" /\ handler' = "copy1" /\ logs # <<>>
      /\ hlog' = Head(logs) /\ logs' = Tail(logs)
      /\ UNCHANGED <<stale, late, epoch, nPairs, poller, pi, got, pq, ch>>
  BY DEF TakeLog, confVars, pollVars, mainVars
<1>2. /\ logs \in Seq(Log) /\ epoch \in Nat /\ InChannel \in Nat /\ InLogs \in Nat /\ PollerOwes \in Nat
  BY OwedTyped
<1>3. HandlerOwes = 0 /\ HandlerOwes' = IsStale(Head(logs), epoch) /\ IsStale(Head(logs), epoch) \in Nat
  BY <1>1 DEF HandlerOwes, IsStale
<1>4. StaleCount(logs', epoch) + IsStale(Head(logs), epoch) <= InLogs
  BY <1>1, <1>2, StaleCountTail DEF InLogs
<1>5. StaleCount(logs', epoch) \in Nat
  <2>1. logs' \in Seq(Log)
    BY <1>1, <1>2
  <2> QED
    BY <1>2, <2>1, StaleCountBounded
<1>6. PollerOwes' = PollerOwes /\ InChannel' = InChannel /\ InLogs' = StaleCount(logs', epoch)
  BY <1>1 DEF PollerOwes, InChannel, InLogs, StaleCount, StalePlaces
<1>7. InChannel' + InLogs' + PollerOwes' + HandlerOwes'
        <= InChannel + InLogs + PollerOwes + HandlerOwes
  BY <1>2, <1>3, <1>4, <1>5, <1>6
<1>8. FeedTyped' /\ Len(ch') <= Cap /\ (poller' = "send" => pq'.epoch = got'.epoch)
  BY <1>1, FeedTypedStep DEF Owed
<1> QED
  BY <1>1, <1>7, <1>8, OwedMoved

\* A stale quote leaves the channel and is counted.
LEMMA OwedTake == ASSUME FeedTyped, Owed, [FeedNext]_feedVars, Take PROVE Owed'
<1>1. /\ ch # <<>> /\ ch' = Tail(ch) /\ stale' = stale + IsStale(Head(ch), epoch)
      /\ UNCHANGED <<epoch, late, nPairs, poller, pi, got, pq, handler, hq, hlog, logs>>
  <2>1. stale \in Nat
    BY OwedTyped
  <2> QED
    BY <2>1 DEF Take, confVars, pollVars, logVars, wsVars, IsStale
<1>2. /\ ch \in Seq(Quote) /\ Len(ch) \in Nat /\ stale \in Nat /\ epoch \in Nat
      /\ Cap \in Nat /\ BacklogMax \in Nat
      /\ InChannel \in Nat /\ InLogs \in Nat /\ PollerOwes \in Nat /\ HandlerOwes \in Nat
  BY OwedTyped
<1>3. StaleCount(ch', epoch) + IsStale(Head(ch), epoch) <= InChannel
  BY <1>1, <1>2, StaleCountTail DEF InChannel
<1>4. ch' \in Seq(Quote) /\ Len(ch') = Len(ch) - 1
  BY <1>1, <1>2
<1>5. StaleCount(ch', epoch) \in Nat /\ IsStale(Head(ch), epoch) \in Nat
  BY <1>2, <1>4, StaleCountBounded DEF IsStale
<1>6. /\ PollerOwes' = PollerOwes /\ HandlerOwes' = HandlerOwes /\ BacklogMax' = BacklogMax
      /\ InChannel' = StaleCount(ch', epoch) /\ InLogs' = InLogs
  BY <1>1 DEF PollerOwes, HandlerOwes, IsStale, BacklogMax, InChannel, InLogs, StaleCount, StalePlaces
<1>7. /\ stale + InChannel + InLogs + PollerOwes + HandlerOwes <= BacklogMax /\ Len(ch) <= Cap
      /\ (poller = "send" => pq.epoch = got.epoch) /\ (handler = "send" => hq.epoch = hlog.epoch)
  BY DEF Owed
<1>8. stale' + InChannel' + InLogs' + PollerOwes' + HandlerOwes' <= BacklogMax'
  <2> DEFINE i == IsStale(Head(ch), epoch)  n == StaleCount(ch', epoch)
             c == InChannel  l == InLogs  p == PollerOwes  h == HandlerOwes
  <2>1. /\ i \in Nat /\ n \in Nat /\ c \in Nat /\ l \in Nat /\ p \in Nat /\ h \in Nat
        /\ n + i <= c /\ stale + c + l + p + h <= BacklogMax
    BY <1>2, <1>3, <1>5, <1>7
  <2> HIDE DEF i, n, c, l, p, h
  <2>2. stale + i + n + l + p + h <= BacklogMax
    BY <1>2, <2>1
  <2> QED
    BY <1>1, <1>6, <2>2 DEF i, n, l, p, h
<1>9. Len(ch') <= Cap
  BY <1>2, <1>4, <1>7
<1> QED
  BY <1>1, <1>7, <1>8, <1>9, OwedQuiet DEF Owed

\* When a trade ends, all that is under way is stale: a full channel, a round of the
\* poller and the logs that are left.
LEMMA OwedTradeDone == ASSUME FeedTyped, Owed, [FeedNext]_feedVars, TradeDone PROVE Owed'
<1>1. /\ stale' = 0 /\ epoch' = epoch + 1
      /\ late' = Len(logs) + (IF handler = "wait" THEN 0 ELSE 1)
      /\ UNCHANGED <<ch, nPairs, poller, pi, got, pq, handler, hq, hlog, logs>>
  BY DEF TradeDone, confVars, pollVars, logVars, wsVars
<1>2. /\ ch \in Seq(Quote) /\ Len(ch) \in Nat /\ logs \in Seq(Log) /\ Len(logs) \in Nat
      /\ epoch' \in Nat /\ Cap \in Nat /\ nPairs \in Nat /\ pi \in 1..nPairs
  <2>1. /\ ch \in Seq(Quote) /\ Len(ch) \in Nat /\ logs \in Seq(Log) /\ Len(logs) \in Nat
        /\ epoch \in Nat /\ Cap \in Nat /\ nPairs \in Nat /\ pi \in 1..nPairs
    BY OwedTyped, Zenon
  <2>2. epoch' \in Nat
    BY <1>1, <2>1
  <2> QED
    BY <2>1, <2>2
<1>3. StaleCount(ch, epoch') \in Nat /\ StaleCount(ch, epoch') <= Len(ch)
      /\ StaleCount(logs, epoch') \in Nat /\ StaleCount(logs, epoch') <= Len(logs)
  BY <1>2, StaleCountBounded
<1>4. Len(ch) <= Cap /\ (poller = "send" => pq.epoch = got.epoch)
      /\ (handler = "send" => hq.epoch = hlog.epoch)
  BY DEF Owed
<1>5. PollerOwes' \in 0..nPairs
  BY <1>1, <1>2 DEF PollerOwes
<1>6. HandlerOwes' \in 0..(IF handler = "wait" THEN 0 ELSE 1)
  BY <1>1 DEF HandlerOwes, IsStale
<1>7. /\ BacklogMax' = Cap + nPairs + late' /\ InChannel' = StaleCount(ch, epoch')
      /\ InLogs' = StaleCount(logs, epoch')
  BY <1>1 DEF BacklogMax, InChannel, InLogs, StaleCount, StalePlaces
<1>8. stale' + InChannel' + InLogs' + PollerOwes' + HandlerOwes' <= BacklogMax'
  <2> DEFINE c == StaleCount(ch, epoch')  l == StaleCount(logs, epoch')
             p == PollerOwes'  h == HandlerOwes'  w == IF handler = "wait" THEN 0 ELSE 1
  <2>1. c \in 0..Cap /\ l \in 0..Len(logs) /\ p \in 0..nPairs /\ h \in 0..w /\ w \in 0..1
    BY <1>2, <1>3, <1>4, <1>5, <1>6
  <2>2. late' = Len(logs) + w
    BY <1>1
  <2> HIDE DEF c, l, p, h, w
  <2>3. 0 + c + l + p + h <= Cap + nPairs + late'
    BY <1>2, <2>1, <2>2
  <2> QED
    BY <1>1, <1>7, <2>3 DEF c, l, p, h
<1> QED
  BY <1>1, <1>4, <1>8, OwedQuiet DEF Owed

LEMMA OwedDies == ASSUME FeedTyped, Owed, [FeedNext]_feedVars, Dies PROVE Owed'
<1>1. /\ ch' = <<>> /\ Len(ch') = 0 /\ logs' = <<>> /\ Len(logs') = 0
      /\ poller' = "sleep" /\ handler' = "wait" /\ stale' = 0 /\ late' = 0
      /\ nPairs' = nPairs /\ epoch' = epoch
  BY DiesTo
<1>2. epoch \in Nat /\ nPairs \in Nat /\ Cap \in Nat /\ ch' \in Seq(Quote) /\ logs' \in Seq(Log)
  BY <1>1, OwedTyped
<1>3. InChannel' = 0 /\ InLogs' = 0
  <2>1. /\ StaleCount(ch', epoch) \in Nat /\ StaleCount(ch', epoch) <= 0
        /\ StaleCount(logs', epoch) \in Nat /\ StaleCount(logs', epoch) <= 0
    BY <1>1, <1>2, StaleCountBounded
  <2>2. InChannel' = StaleCount(ch', epoch) /\ InLogs' = StaleCount(logs', epoch)
    BY <1>1 DEF InChannel, InLogs, StaleCount, StalePlaces
  <2> QED
    BY <2>1, <2>2
<1>4. PollerOwes' = 0 /\ HandlerOwes' = 0 /\ BacklogMax' \in Nat
  BY <1>1, <1>2 DEF PollerOwes, HandlerOwes, BacklogMax
<1>5. stale' + InChannel' + InLogs' + PollerOwes' + HandlerOwes' <= BacklogMax'
  BY <1>1, <1>3, <1>4
<1> QED
  BY <1>1, <1>2, <1>5, OwedQuiet DEF Owed

LEMMA OwedStep == FeedTyped /\ Owed /\ [FeedNext]_feedVars => Owed'
<1> SUFFICES ASSUME FeedTyped, Owed, [FeedNext]_feedVars PROVE Owed'
  OBVIOUS
<1>1. FeedTyped'
  BY FeedTypedStep
<1>2. /\ poller = "send" => pq.epoch = got.epoch
      /\ handler = "send" => hq.epoch = hlog.epoch
      /\ Len(ch) <= Cap
  BY DEF Owed
<1>3. InChannel \in Nat /\ InLogs \in Nat /\ PollerOwes \in Nat /\ HandlerOwes \in Nat
  BY OwedTyped
<1>4. CASE /\ UNCHANGED <<ch, epoch, stale, late>>
           /\ InLogs' \in Nat /\ InLogs' <= InLogs
           /\ PollerOwes' = PollerOwes /\ HandlerOwes' = HandlerOwes
           /\ poller' = "send" => pq'.epoch = got'.epoch
           /\ handler' = "send" => hq'.epoch = hlog'.epoch
  <2>1. InChannel' = InChannel
    BY <1>4 DEF InChannel, StaleCount, StalePlaces
  <2>2. InChannel' + InLogs' + PollerOwes' + HandlerOwes'
          <= InChannel + InLogs + PollerOwes + HandlerOwes
    <3> DEFINE c == InChannel  l == InLogs  p == PollerOwes  h == HandlerOwes  ll == InLogs'
    <3>1. c \in Nat /\ l \in Nat /\ p \in Nat /\ h \in Nat /\ ll \in Nat /\ ll <= l
      BY <1>3, <1>4
    <3> HIDE DEF c, l, p, h, ll
    <3>2. c + ll + p + h <= c + l + p + h
      BY <3>1
    <3> QED
      BY <1>4, <2>1, <3>2 DEF c, l, p, h, ll
  <2> QED
    BY <1>1, <1>2, <1>4, <2>2, OwedMoved
<1>5. CASE (\E p \in Pairs : Trade(p) \/ Reorg(p)) \/ Break
  <2>1. UNCHANGED <<nPairs, poller, pi, got, pq, handler, hlog, hq, ch, epoch, stale, late>>
    BY <1>5 DEF Trade, Reorg, Break, confVars, pollVars, logVars, mainVars
  <2>2. PollerOwes' = PollerOwes /\ HandlerOwes' = HandlerOwes
    BY <2>1 DEF PollerOwes, HandlerOwes, IsStale
  <2>3. InLogs' = StaleCount(logs', epoch)
    BY <2>1 DEF InLogs, StaleCount, StalePlaces
  <2>4. InLogs' \in Nat /\ InLogs' <= InLogs
    <3>1. CASE Break
      <4>1. logs' = <<>> /\ Len(logs') = 0 /\ logs' \in Seq(Log) /\ epoch \in Nat
        BY <3>1, OwedTyped DEF Break
      <4>2. StaleCount(logs', epoch) \in Nat /\ StaleCount(logs', epoch) <= 0
        BY <4>1, StaleCountBounded
      <4> QED
        BY <1>3, <2>3, <4>2
    <3>2. CASE \E p \in Pairs : Trade(p) \/ Reorg(p)
      <4>1. PICK p \in Pairs : Trade(p) \/ Reorg(p)
        BY <3>2
      <4>2. chain[p] \in Nat /\ chain'[p] \in Nat
        <5>1. Pairs' = Pairs
          BY KnownGrows
        <5> QED
          BY <1>1, <5>1 DEF FeedTyped, FeedTypeOK
      <4>3. PICK n \in Nat, k \in Kinds : logs' = logs \o Logged(p, n, k)
        BY <4>1, <4>2 DEF Trade, Reorg, Kinds
      <4>4. StaleCount(logs', epoch) = StaleCount(logs, epoch)
        BY <4>3, LoggedNotStale
      <4> QED
        BY <1>3, <2>3, <4>4 DEF InLogs
    <3> QED
      BY <1>5, <3>1, <3>2
  <2> QED
    BY <1>2, <1>4, <2>1, <2>2, <2>4
<1>6. CASE Subscribe \/ Loop \/ ReadLimit \/ UNCHANGED feedVars
  <2>1. UNCHANGED <<nPairs, poller, pi, got, pq, handler, hlog, hq, logs, ch, epoch, stale, late>>
    BY <1>6 DEF Subscribe, Loop, ReadLimit, feedVars, confVars, pollVars, logVars, wsVars, mainVars
  <2>2. PollerOwes' = PollerOwes /\ HandlerOwes' = HandlerOwes /\ InLogs' = InLogs
    BY <2>1 DEF PollerOwes, HandlerOwes, IsStale, InLogs, StaleCount, StalePlaces
  <2> QED
    BY <1>2, <1>3, <1>4, <2>1, <2>2
<1>7. CASE Fetch \/ Store0 \/ Store1 \/ PollQuote
  <2>1. /\ UNCHANGED <<nPairs, handler, hlog, hq, logs, ch, epoch, stale, late>>
        /\ poller' # "sleep" /\ (poller' = "send" => pq'.epoch = got'.epoch)
        /\ \/ poller = "sleep" /\ got'.epoch = epoch
           \/ poller # "sleep" /\ pi' = pi /\ got' = got
    BY <1>7 DEF Fetch, Store0, Store1, PollQuote, confVars, logVars, wsVars, mainVars
  <2>2. epoch \in Nat
    BY OwedTyped
  <2>3. PollerOwes' = PollerOwes
    BY <2>1, <2>2 DEF PollerOwes
  <2>4. HandlerOwes' = HandlerOwes /\ InLogs' = InLogs
    BY <2>1 DEF HandlerOwes, IsStale, InLogs, StaleCount, StalePlaces
  <2> QED
    BY <1>2, <1>3, <1>4, <2>1, <2>3, <2>4
<1>8. CASE CopyPair \/ Swap0 \/ Swap1 \/ LogQuote
  <2>1. /\ UNCHANGED <<nPairs, poller, pi, got, pq, hlog, logs, ch, epoch, stale, late>>
        /\ handler # "wait" /\ handler' # "wait"
        /\ handler' = "send" => hq'.epoch = hlog'.epoch
    BY <1>8 DEF CopyPair, Swap0, Swap1, LogQuote, confVars, pollVars, wsVars, mainVars
  <2>2. PollerOwes' = PollerOwes /\ HandlerOwes' = HandlerOwes /\ InLogs' = InLogs
    BY <2>1 DEF PollerOwes, HandlerOwes, IsStale, InLogs, StaleCount, StalePlaces
  <2> QED
    BY <1>2, <1>3, <1>4, <2>1, <2>2
<1> QED
  BY <1>5, <1>6, <1>7, <1>8, OwedPollSend, OwedLogSend, OwedPrintOther,
     OwedTakeLog, OwedTake, OwedTradeDone, OwedDies
     DEF FeedNext, Poller, LogHandler, Main

LEMMA OwedInitial == FeedInit => Owed
<1> SUFFICES ASSUME FeedInit PROVE Owed
  OBVIOUS
<1>1. /\ poller = "sleep" /\ handler = "wait" /\ ~subscribed /\ logs = <<>> /\ ch = <<>>
      /\ epoch = 0 /\ stale = 0 /\ late = 0
  BY DEF FeedInit
<1>2. FeedTyped
  BY FeedInitial
<1>3. Len(ch) = 0 /\ Len(logs) = 0
  BY <1>1
<1>4. /\ PollerOwes = 0 /\ HandlerOwes = 0 /\ InChannel = 0 /\ InLogs = 0
      /\ BacklogMax \in Nat /\ Cap \in Nat
  BY <1>1, <1>2, <1>3, OwedTyped DEF PollerOwes, HandlerOwes
<1> QED
  BY <1>1, <1>3, <1>4 DEF Owed

\* After a trade, main takes no more quotes from before its end than the channel holds,
\* the poller has fetched and logs were left to turn into quotes, for any number of
\* pairs and any capacity: it decides on fresh quotes again after at most that many.
\* A quote of a log counts as old as the log, however late it is handled.
THEOREM FeedBacklogIsBounded == FeedSpec => []BacklogBound
<1>1. FeedTyped /\ Owed => BacklogBound
  <2> SUFFICES ASSUME FeedTyped, Owed PROVE BacklogBound
    OBVIOUS
  <2>1. /\ stale \in Nat /\ InChannel \in Nat /\ InLogs \in Nat /\ PollerOwes \in Nat
        /\ HandlerOwes \in Nat /\ BacklogMax \in Nat
    BY OwedTyped
  <2>2. stale + InChannel + InLogs + PollerOwes + HandlerOwes <= BacklogMax
        /\ (~ws => late = 0)
    BY DEF Owed
  <2>3. stale <= BacklogMax
    BY <2>1, <2>2
  <2> QED
    BY <2>2, <2>3 DEF BacklogBound, BacklogMax
<1> QED
  BY FeedInitial, FeedTypedStep, OwedInitial, OwedStep, <1>1, PTL DEF FeedSpec

-----------------------------------------------------------------------------
(* The start. *)

\* The first query is alone: what it has sent is in the channel, and nobody else sends
\* or takes anything.
StartFits ==
  /\ Len(ch) <= Cap
  /\ main \in {"startup", "down"} => handler = "wait" /\ ~subscribed /\ logs = <<>>
  /\ main = "startup" => Len(ch) = (IF poller = "sleep" THEN 0 ELSE pi - 1)
  /\ main = "down" => poller = "sleep"
  /\ nPairs > Cap => main \in {"startup", "down"}

LEMMA StartInitial == FeedInit => StartFits
<1> SUFFICES ASSUME FeedInit PROVE StartFits
  OBVIOUS
<1>1. Len(ch) = 0 /\ Cap \in Nat
  BY FeedAssumption DEF FeedInit
<1> QED
  BY <1>1 DEF FeedInit, StartFits

LEMMA StartStep == FeedTyped /\ StartFits /\ [FeedNext]_feedVars => StartFits' /\ nPairs' = nPairs
<1> SUFFICES ASSUME FeedTyped, StartFits, [FeedNext]_feedVars PROVE StartFits' /\ nPairs' = nPairs
  OBVIOUS
<1>1. /\ ch \in Seq(Quote) /\ Len(ch) \in Nat /\ Cap \in Nat /\ Len(ch) <= Cap
      /\ nPairs \in Nat /\ pi \in 1..nPairs
  BY FeedAssumption DEF FeedTyped, FeedTypeOK, Pairs, StartFits
<1>2. CASE \/ \E p \in Pairs : Trade(p) \/ Reorg(p)
           \/ Break \/ Subscribe \/ UNCHANGED feedVars
  <2>1. UNCHANGED <<nPairs, ch, poller, pi, main, handler>>
    BY <1>2 DEF Trade, Reorg, Break, Subscribe, feedVars, confVars, pollVars, logVars, mainVars
  <2>2. main \in {"startup", "down"} => ~subscribed' /\ logs' = <<>>
    <3>1. CASE \E p \in Pairs : Trade(p) \/ Reorg(p)
      <4>1. ~subscribed => \A p, n, k : logs \o Logged(p, n, k) = logs
        <5>1. logs \o <<>> = logs
          BY DEF FeedTyped, FeedTypeOK
        <5> QED
          BY <5>1 DEF Logged
      <4> QED
        BY <3>1, <4>1 DEF StartFits, Trade, Reorg
    <3>2. CASE Break \/ Subscribe \/ UNCHANGED feedVars
      BY <3>2 DEF StartFits, Break, Subscribe, feedVars, wsVars
    <3> QED
      BY <1>2, <3>1, <3>2
  <2> QED
    BY <2>1, <2>2 DEF StartFits
<1>3. CASE Fetch
  <2>1. /\ UNCHANGED <<nPairs, ch, main, handler, wsVars>> /\ main # "down"
        /\ poller = "sleep" /\ poller' = "store0" /\ pi' = 1
    BY <1>3 DEF Fetch, Polling, confVars, logVars, mainVars
  <2> QED
    BY <2>1 DEF StartFits, wsVars
<1>4. CASE Store0 \/ Store1 \/ PollQuote
  <2>1. UNCHANGED <<nPairs, ch, main, handler, wsVars, pi>> /\ poller # "sleep" /\ poller' # "sleep"
    BY <1>4 DEF Store0, Store1, PollQuote, confVars, logVars, mainVars
  <2> QED
    BY <2>1 DEF StartFits, wsVars
\* The last quote of the first round fits only if all of them do.
<1>5. CASE PollSend
  <2>1. /\ UNCHANGED <<nPairs, handler, wsVars>> /\ poller = "send"
        /\ Len(ch) < Cap /\ Len(ch') = Len(ch) + 1
    BY <1>1, <1>5 DEF PollSend, confVars, logVars, FeedTyped, FeedTypeOK
  <2>2. CASE pi < nPairs /\ pi' = pi + 1 /\ poller' = "store0" /\ main' = main
    BY <1>1, <2>1, <2>2 DEF StartFits, wsVars
  <2>3. CASE pi = nPairs /\ main' = (IF main = "startup" THEN "approving" ELSE main)
    <3>1. nPairs <= Cap /\ main' \notin {"startup", "down"}
      BY <1>1, <2>1, <2>3 DEF StartFits
    <3> QED
      BY <1>1, <2>1, <3>1 DEF StartFits
  <2> QED
    BY <1>5, <2>2, <2>3 DEF PollSend
<1>6. CASE LogHandler \/ Main
  <2>1. /\ main \notin {"startup", "down"} /\ main' \notin {"startup", "down"}
        /\ nPairs' = nPairs
    BY <1>6 DEF LogHandler, TakeLog, CopyPair, PrintOther, Swap0, Swap1, LogQuote, LogSend,
                Main, Loop, Take, ReadLimit, TradeDone, StartFits, confVars, mainVars
  <2>2. Len(ch') <= Cap
    BY <1>1, <1>6 DEF LogHandler, TakeLog, CopyPair, PrintOther, Swap0, Swap1, LogQuote, LogSend,
                      Main, Loop, Take, ReadLimit, TradeDone
  <2> QED
    BY <2>1, <2>2 DEF StartFits
<1>7. CASE Dies
  <2>1. /\ Len(ch') = 0 /\ main' = "down" /\ nPairs' = nPairs
        /\ poller' = "sleep" /\ handler' = "wait" /\ ~subscribed' /\ logs' = <<>>
    BY <1>7, DiesTo
  <2> QED
    BY <1>1, <2>1 DEF StartFits
<1> QED
  BY <1>2, <1>3, <1>4, <1>5, <1>6, <1>7 DEF FeedNext, Poller

\* With more pairs than the channel holds the process never leaves its start, unless it
\* dies: the first query waits for room that main, which has not begun, will not make.
THEOREM FeedStartHangs == FeedSpec => StartupHangs
<1> DEFINE Hung == FeedTyped /\ StartFits /\ nPairs > Cap
<1>1. FeedInit /\ nPairs > Cap => Hung
  BY FeedInitial, StartInitial
<1>2. Hung /\ [FeedNext]_feedVars => Hung'
  BY FeedTypedStep, StartStep
<1>3. Hung => main \in {"startup", "down"}
  BY DEF StartFits
<1> QED
  BY <1>1, <1>2, <1>3, PTL DEF FeedSpec, StartupHangs

\* With no more pairs than the channel holds, and no other bound, the first query never
\* waits for room, so nothing keeps it from returning.
THEOREM FeedStartNeverWaits ==
  FeedSpec => [](main = "startup" /\ nPairs <= Cap /\ poller = "send" => Len(ch) < Cap)
<1>1. FeedTyped /\ StartFits => (main = "startup" /\ nPairs <= Cap /\ poller = "send" => Len(ch) < Cap)
  BY FeedAssumption DEF FeedTyped, FeedTypeOK, StartFits, Pairs
<1> QED
  BY FeedInitial, FeedTypedStep, StartInitial, StartStep, <1>1, PTL DEF FeedSpec

=============================================================================
