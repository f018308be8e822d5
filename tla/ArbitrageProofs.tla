--------------------------- MODULE ArbitrageProofs ---------------------------
(***************************************************************************)
(* What the arbitrage promises for any number of lots, any faults and any  *)
(* bounds: it uses its account as UniWallet says, it is never short and    *)
(* long by at most one lot per start, what is at Binance is owed there,    *)
(* and its books are those of HedgeBook.  The argument is about what can   *)
(* still be mined: at most one nonce is open, so at most one buy or        *)
(* transfer, whichever process it is of.                                   *)
(***************************************************************************)
EXTENDS Arbitrage, UniWalletProofs

\* Where onTick is, and what the wallet does meanwhile.
FlowIInv ==
  /\ at \in {"off", "tick", "buying", "hedge", "topUp", "toppingUp", "deposit",
             "repay", "fatal"}
  /\ phase \in {"down", "idle", "sending", "waiting"}
  /\ at = "off" <=> phase = "down"
  /\ at \in {"buying", "toppingUp"} <=> phase \in {"sending", "waiting"}
  /\ at = "buying" => cur.call = BuyEth
  /\ at = "toppingUp" => cur.call = TransferEth

-----------------------------------------------------------------------------
\* Before the first start nothing is in flight.
LEMMA FlowInitial == ArbitrageInit => FlowIInv
BY DEF ArbitrageInit, WalletInit, FlowIInv

\* onTick has a transaction in flight while it buys or transfers, and only then.
LEMMA FlowInductive ==
  FlowIInv /\ [ArbitrageNext]_arbitrageVars => FlowIInv'
<1> SUFFICES ASSUME FlowIInv, [ArbitrageNext]_arbitrageVars
             PROVE  FlowIInv'
  OBVIOUS
<1> USE DEF FlowIInv
<1>1. CASE Start \/ Fatal \/ Die
  BY <1>1 DEF Start, Fatal, Die, Crash, NewUniBroker, Exit
<1>2. CASE PollBalance \/ NotEnoughAssets \/ HedgeOk \/ Spot2MarginOk \/ RepayOk \/ BinanceErr
  BY <1>2 DEF PollBalance, NotEnoughAssets, HedgeOk, Spot2MarginOk, RepayOk, BinanceErr,
              Answered, SleepOver, walletVars, procVars
<1>3. CASE Buy \/ TopUp
  BY <1>3 DEF Buy, TopUp, Send
<1>4. CASE Sent
  BY <1>4 DEF Sent, SendOk
<1>5. CASE BuyReturns \/ TopUpReturns
  BY <1>5 DEF BuyReturns, TopUpReturns, SendErr, WaitMined
<1>6. ASSUME NEW tx \in pool, NEW ok \in BOOLEAN, Include(tx, ok)
      PROVE  FlowIInv'
  BY <1>6 DEF Include, Mine, procVars
<1>7. CASE Pool \/ Credit
  BY <1>7 DEF Pool, Credit, NodeAccept, NodeReject, Drop, walletVars, procVars
<1>8. CASE UNCHANGED arbitrageVars
  BY <1>8 DEF arbitrageVars, walletVars, procVars
<1> QED
  BY <1>1, <1>2, <1>3, <1>4, <1>5, <1>6, <1>7, <1>8 DEF ArbitrageNext, OnTick

\* A step of the arbitrage is a step of the wallet, or leaves it alone.
LEMMA ArbitrageStepIsWalletStep ==
  FlowIInv /\ [ArbitrageNext]_arbitrageVars => [WalletNext]_walletVars
<1> SUFFICES ASSUME FlowIInv, [ArbitrageNext]_arbitrageVars
             PROVE  WalletNext \/ UNCHANGED walletVars
  OBVIOUS
<1>1. CASE Start
  BY <1>1 DEF Start, WalletNext, ProcStep
<1>2. CASE PollBalance \/ NotEnoughAssets \/ HedgeOk \/ Spot2MarginOk \/ RepayOk \/ BinanceErr
           \/ Credit \/ UNCHANGED arbitrageVars
  BY <1>2 DEF PollBalance, NotEnoughAssets, HedgeOk, Spot2MarginOk, RepayOk, BinanceErr,
              Credit, arbitrageVars
<1>3. CASE Buy \/ TopUp
  BY <1>3, ArbitrageAssumption DEF Buy, TopUp, WalletNext, ProcStep
<1>4. CASE Sent \/ BuyReturns \/ TopUpReturns
  BY <1>4 DEF Sent, BuyReturns, TopUpReturns, WalletNext, ProcStep
\* log.Fatalln of onTick ends a process with nothing in flight.
<1>5. CASE Fatal
  <2>1. phase = "idle"
    BY <1>5 DEF Fatal, FlowIInv
  <2> QED
    BY <1>5, <2>1 DEF Fatal, WalletNext, ProcStep
<1>6. CASE Die
  BY <1>6 DEF Die, WalletNext, ProcStep
<1>7. ASSUME NEW tx \in pool, NEW ok \in BOOLEAN, Include(tx, ok)
      PROVE  WalletNext
  BY <1>7 DEF Include, WalletNext, NodeStep
<1>8. CASE Pool
  BY <1>8 DEF Pool, WalletNext, NodeStep
<1> QED
  BY <1>1, <1>2, <1>3, <1>4, <1>5, <1>6, <1>7, <1>8 DEF ArbitrageNext, OnTick

\* onTick uses the account as UniWallet says, for any lots, faults and bounds.
THEOREM ArbitrageImplementsWallet == ArbitrageSpec => WalletSpec
<1>1. ArbitrageInit => WalletInit
  BY DEF ArbitrageInit
<1> QED
  BY <1>1, FlowInitial, FlowInductive, ArbitrageStepIsWalletStep, PTL
     DEF ArbitrageSpec, WalletSpec

\* So does its stronger invariant.
LEMMA ArbitrageInvariant == ArbitrageSpec => [](FlowIInv /\ WalletIInv)
<1>1. ArbitrageSpec => []FlowIInv
  BY FlowInitial, FlowInductive, PTL DEF ArbitrageSpec
<1> QED
  BY <1>1, ArbitrageImplementsWallet, WalletInvariant, PTL

-----------------------------------------------------------------------------
(* The trades. *)

\* Lots at Binance or on their way there.
Stock == transit + spot + free

\* Another lot may be bought and left unhedged.
Room == Long < debt + starts

\* The transactions there are, in flight or mined.
EverSent == wire \cup pool \cup {m.tx : m \in mined}

\* A transaction is answered once, and none is signed twice.
AnswersFit ==
  /\ phase # "sending" => answer = "none"
  /\ phase = "waiting" \/ answer # "none" => cur \notin wire
  /\ phase = "waiting" => chainNonce <= nonce
  /\ \A tx \in EverSent : tx.id <= signed

\* What can still be mined has room for a lot, or a lot to transfer.
OpenIsCovered ==
  \A tx \in wire \cup pool :
    tx.nonce >= chainNonce => Room /\ (tx.call = TransferEth => Stock < debt)

\* Nothing can be mined: the account waits for this process.
Quiet == nonce = chainNonce /\ \A tx \in wire \cup pool : tx.nonce < chainNonce

\* What each step of onTick has to go on with.
StepsAreCovered ==
  /\ at = "tick" /\ nonce >= chainNonce => Room
  /\ at \in {"hedge", "topUp", "deposit", "repay"} => Quiet
  /\ at = "hedge" => Long > debt
  /\ at \in {"topUp", "deposit", "repay"} => Room
  /\ at = "topUp" => Stock < debt
  /\ at \in {"buying", "toppingUp"} =>
       /\ chainNonce <= cur.nonce => Room /\ (at = "toppingUp" => Stock < debt)
       /\ \A m \in mined :
            m.tx = cur => IF m.ok /\ at = "buying" THEN Long > debt ELSE Room

\* The bounds themselves.
BooksBalance ==
  /\ debt <= Long /\ Long <= debt + starts
  /\ Stock <= debt
  /\ debt <= starts
  /\ at \in {"tick", "buying", "hedge"} => debt < starts
  /\ Up => starts >= 1

TradeIInv ==
  ArbitrageTypeOK /\ AnswersFit /\ OpenIsCovered /\ StepsAreCovered /\ BooksBalance

-----------------------------------------------------------------------------
\* At first there are no lots and no transactions.
LEMMA TradeInitial == ArbitrageInit => TradeIInv
BY WalletAssumption, ArbitrageAssumption
   DEF ArbitrageInit, WalletInit, TradeIInv, ArbitrageTypeOK, WalletTypeOK, AnswersFit, EverSent,
       OpenIsCovered, StepsAreCovered, Quiet, BooksBalance, Stock, Room, Long, Up

\* No step of onTick, of the poller, of the chain or of Binance breaks it.
LEMMA TradeInductive ==
  /\ FlowIInv /\ WalletIInv /\ TradeIInv /\ [ArbitrageNext]_arbitrageVars
  /\ WalletIInv' /\ FlowIInv'
  => TradeIInv'
<1> SUFFICES ASSUME FlowIInv, WalletIInv, TradeIInv, [ArbitrageNext]_arbitrageVars,
                    WalletIInv', FlowIInv'
             PROVE  TradeIInv'
  OBVIOUS
<1> USE WalletAssumption, ArbitrageAssumption
    DEF TradeIInv, ArbitrageTypeOK, AnswersFit, EverSent, OpenIsCovered, StepsAreCovered, Quiet,
        BooksBalance, Stock, Room, Long, Up, FlowIInv, WalletIInv, WalletTypeOK, CurFits,
        MinedBelowChain, NoNonceGap, NoneAheadOfCache, CacheLagsByAtMostOne, Tx,
        chainVars, binanceVars
\* A start makes room for a lot.
<1>1. CASE Start
  BY <1>1 DEF Start, NewUniBroker, nodeVars
<1>2. CASE PollBalance \/ NotEnoughAssets \/ BinanceErr
  BY <1>2 DEF PollBalance, NotEnoughAssets, BinanceErr, SleepOver, walletVars, procVars, nodeVars
\* A process whose cache is behind may send, but what it sends cannot be mined.
<1>3. CASE Buy \/ TopUp
  <2>1. /\ cur' = [id |-> signed + 1, nonce |-> nonce, call |-> cur'.call]
        /\ cur' \in Tx /\ cur'.nonce = nonce /\ cur'.id = signed + 1
        /\ wire' = wire \cup {cur'} /\ phase' = "sending" /\ answer' = "none"
        /\ signed' = signed + 1
        /\ UNCHANGED <<nonce, starts, pool, chainNonce, mined, seen, chainVars, binanceVars>>
    BY <1>3 DEF Buy, TopUp, Send
  <2>2. \/ at = "tick" /\ at' = "buying" /\ cur'.call = BuyEth
        \/ at = "topUp" /\ at' = "toppingUp" /\ cur'.call = TransferEth
    BY <1>3 DEF Buy, TopUp, Send
  \* It is new, so nothing mined is it.
  <2>3. \A m \in mined : m.tx # cur'
    BY <2>1
  <2>4. ArbitrageTypeOK' /\ AnswersFit'
    BY <2>1, <2>2
  <2>5. OpenIsCovered'
    BY <2>1, <2>2
  <2>6. StepsAreCovered'
    BY <2>1, <2>2, <2>3
  <2>7. BooksBalance'
    BY <2>1, <2>2
  <2> QED
    BY <2>4, <2>5, <2>6, <2>7
<1>4. CASE Sent
  BY <1>4 DEF Sent, SendOk
\* An error leaves the nonce: with it mined the process is behind.
<1>5. CASE (BuyReturns \/ TopUpReturns) /\ SendErr
  <2>1. /\ phase = "sending" /\ phase' = "idle" /\ result' = "err" /\ cur.nonce = nonce
        /\ cur' = NoTx /\ answer' = "none"
        /\ UNCHANGED <<nonce, starts, signed, wire, pool, chainNonce, mined>>
    BY <1>5 DEF SendErr
  <2>2. /\ at' \in {"tick", "fatal"} /\ (at' = "tick" => at = "buying")
        /\ at \in {"buying", "toppingUp"} /\ UNCHANGED <<seen, chainVars, binanceVars>>
    BY <1>5, <2>1 DEF BuyReturns, TopUpReturns
  <2> QED
    BY <2>1, <2>2
\* A receipt uses up what was waited for, and the rest with it.
<1>6. CASE (BuyReturns \/ TopUpReturns) /\ WaitMined
  <2>1. /\ phase = "waiting" /\ phase' = "idle" /\ cur' = NoTx
        /\ UNCHANGED <<nonce, starts, signed, answer, wire, pool, chainNonce, mined>>
    BY <1>6 DEF WaitMined, nodeVars
  <2>2. PICK m \in mined : m.tx = cur /\ result' = IF m.ok THEN "ok" ELSE "err"
    BY <1>6 DEF WaitMined
  <2>3. \/ at = "buying" /\ at' = IF m.ok THEN "hedge" ELSE "tick"
        \/ at = "toppingUp" /\ at' = IF m.ok THEN "deposit" ELSE "fatal"
    BY <1>6, <2>2 DEF BuyReturns, TopUpReturns
  <2>4. UNCHANGED <<seen, chainVars, binanceVars>>
    BY <1>6 DEF BuyReturns, TopUpReturns
  <2>5. Quiet'
    <3>1. cur.nonce < chainNonce /\ nonce = cur.nonce + 1 /\ chainNonce <= nonce
      BY <2>1, <2>2
    <3>2. \A tx \in wire \cup pool : tx.nonce + 1 <= nonce
      BY <2>1
    <3> QED
      BY <2>1, <3>1, <3>2
  <2>6. /\ at' = "hedge" => Long' > debt'
        /\ at' \in {"tick", "deposit"} => Room'
    BY <2>1, <2>2, <2>3, <2>4
  <2>7. ArbitrageTypeOK' /\ AnswersFit'
    BY <2>1, <2>3, <2>4
  <2>8. OpenIsCovered' /\ StepsAreCovered'
    BY <2>1, <2>3, <2>4, <2>5, <2>6
  <2>9. BooksBalance'
    BY <2>1, <2>3, <2>4
  <2> QED
    BY <2>7, <2>8, <2>9
\* The lot just bought is sold, out of the margin account or borrowed.
<1>7. CASE HedgeOk
  BY <1>7 DEF HedgeOk, Answered, walletVars, procVars, nodeVars
<1>8. CASE Spot2MarginOk
  BY <1>8 DEF Spot2MarginOk, SleepOver, Answered, walletVars, procVars, nodeVars
<1>9. CASE RepayOk
  BY <1>9 DEF RepayOk, Answered, walletVars, procVars, nodeVars
<1>10. CASE Fatal \/ Die
  BY <1>10 DEF Fatal, Die, Crash, Exit
\* What is mined was covered, and what is left has its nonce used up.
<1>11. ASSUME NEW tx \in pool, NEW ok \in BOOLEAN, Include(tx, ok)
       PROVE  TradeIInv'
  BY <1>11 DEF Include, Mine, CanExecute, procVars
\* What waits in the pool was on its way before: nothing new can be mined.
<1>12. CASE Pool
  <2>1. /\ wire' \subseteq wire /\ wire' \cup pool' \subseteq wire \cup pool
        /\ UNCHANGED <<at, seen, chainVars, binanceVars, procVars, chainNonce, mined>>
    BY <1>12 DEF Pool, NodeAccept, NodeReject, Drop
  <2>2. \/ answer' = answer
        \/ cur \in wire /\ wire' = wire \ {cur}
    BY <1>12 DEF Pool, NodeAccept, NodeReject, Drop
  <2>3. AnswersFit'
    <3>1. phase # "sending" => cur \notin wire
      OBVIOUS
    <3> QED
      BY <2>1, <2>2, <3>1 DEF procVars
  <2>4. ArbitrageTypeOK'
    BY <2>1
  <2>5. OpenIsCovered'
    BY <2>1 DEF procVars
  <2>6. StepsAreCovered'
    BY <2>1 DEF procVars
  <2>7. BooksBalance'
    BY <2>1 DEF procVars
  <2> QED
    BY <2>3, <2>4, <2>5, <2>6, <2>7
<1>13. CASE Credit
  BY <1>13 DEF Credit, walletVars, procVars, nodeVars
<1>14. CASE UNCHANGED arbitrageVars
  BY <1>14 DEF arbitrageVars, walletVars, procVars, nodeVars
<1> QED
  BY <1>1, <1>2, <1>3, <1>4, <1>5, <1>6, <1>7, <1>8, <1>9, <1>10, <1>11, <1>12,
     <1>13, <1>14 DEF ArbitrageNext, OnTick, BuyReturns, TopUpReturns

\* The invariant holds in every behaviour.
LEMMA TradeInvariant == ArbitrageSpec => []TradeIInv
BY TradeInitial, TradeInductive, ArbitrageInvariant, PTL DEF ArbitrageSpec

-----------------------------------------------------------------------------
\* Lots and lots owed stay natural numbers: nothing is spent that is not there.
THEOREM ArbitrageTyped == ArbitrageSpec => []ArbitrageTypeOK
<1>1. TradeIInv => ArbitrageTypeOK
  BY DEF TradeIInv
<1> QED
  BY <1>1, TradeInvariant, PTL

\* Never short; long by at most one lot per start, and by less while the
\* process can still trade.
THEOREM ArbitrageExposure == ArbitrageSpec => []ExposureBound
<1>1. FlowIInv /\ TradeIInv => ExposureBound
  <2> SUFFICES ASSUME FlowIInv, TradeIInv
               PROVE  ExposureBound
    OBVIOUS
  <2>1. at = "tick" /\ ~Behind => nonce >= chainNonce
    BY DEF FlowIInv, TradeIInv, AnswersFit, Behind, ArbitrageTypeOK, WalletTypeOK
  <2> QED
    BY <2>1 DEF TradeIInv, BooksBalance, StepsAreCovered, Room, ExposureBound
<1> QED
  BY <1>1, TradeInvariant, ArbitrageInvariant, PTL

\* Nothing reaches Binance that is not owed there: TransferEth follows a hedge.
THEOREM ArbitrageStock == ArbitrageSpec => []UnhedgedStaysOnChain
<1>1. TradeIInv => UnhedgedStaysOnChain
  BY DEF TradeIInv, BooksBalance, Stock, UnhedgedStaysOnChain
<1> QED
  BY <1>1, TradeInvariant, PTL

\* Each start leaves at most one debt behind, since a failed Repay ends it.
THEOREM ArbitrageDebt == ArbitrageSpec => []DebtBound
<1>1. TradeIInv => DebtBound
  BY DEF TradeIInv, BooksBalance, DebtBound
<1> QED
  BY <1>1, TradeInvariant, PTL

\* Whoever sent it, a transfer that can be mined finds a lot in the account.
THEOREM ArbitrageFunds == ArbitrageSpec => []TransfersAreFunded
<1>1. TradeIInv => TransfersAreFunded
  BY DEF TradeIInv, ArbitrageTypeOK, WalletTypeOK, Tx, OpenIsCovered, BooksBalance, Stock, Long,
         TransfersAreFunded
<1> QED
  BY <1>1, TradeInvariant, PTL

-----------------------------------------------------------------------------
\* A step of the arbitrage is one of HedgeBook, or does not change the books.
LEMMA ArbitrageStepIsBookStep ==
  FlowIInv /\ WalletIInv /\ TradeIInv /\ [ArbitrageNext]_arbitrageVars
  => [Book!BookNext]_(Book!bookVars)
<1> SUFFICES ASSUME FlowIInv, WalletIInv, TradeIInv, [ArbitrageNext]_arbitrageVars
             PROVE  Book!BookNext \/ UNCHANGED <<Long, debt, starts>>
  BY DEF Book!bookVars
<1> USE DEF TradeIInv, ArbitrageTypeOK, Long, chainVars, binanceVars
<1>1. CASE Start
  BY <1>1 DEF Start, NewUniBroker, Book!BookNext, Book!Start
\* The lot that is sold was bought.
<1>2. CASE HedgeOk
  <2>1. Long > debt
    BY <1>2 DEF HedgeOk, StepsAreCovered
  <2> QED
    BY <1>2, <2>1 DEF HedgeOk, Book!BookNext, Book!Hedge, walletVars, procVars
<1>3. CASE RepayOk
  BY <1>3 DEF RepayOk, Book!BookNext, Book!Repay, walletVars, procVars
\* A buy that can be mined has room.
<1>4. ASSUME NEW tx \in pool, NEW ok \in BOOLEAN, Include(tx, ok)
      PROVE  Book!BookNext \/ UNCHANGED <<Long, debt, starts>>
  <2>1. Room
    BY <1>4 DEF Include, Mine, OpenIsCovered, WalletTypeOK
  <2> QED
    BY <1>4, <2>1 DEF Include, CanExecute, Mine, Room, Book!BookNext, Book!Buy, procVars
<1>5. CASE Spot2MarginOk \/ Credit
  BY <1>5 DEF Spot2MarginOk, SleepOver, Credit, walletVars, procVars
<1>6. CASE PollBalance \/ NotEnoughAssets \/ BinanceErr \/ UNCHANGED arbitrageVars
  BY <1>6 DEF PollBalance, NotEnoughAssets, BinanceErr, arbitrageVars, walletVars, procVars
<1>7. CASE Buy \/ TopUp
  BY <1>7 DEF Buy, TopUp, Send
<1>8. CASE Sent \/ BuyReturns \/ TopUpReturns
  BY <1>8 DEF Sent, BuyReturns, TopUpReturns, SendOk, SendErr, WaitMined
<1>9. CASE Fatal \/ Die
  BY <1>9 DEF Fatal, Die, Crash, Exit
<1>10. CASE Pool
  BY <1>10 DEF Pool, NodeAccept, NodeReject, Drop, procVars
<1> QED
  BY <1>1, <1>2, <1>3, <1>4, <1>5, <1>6, <1>7, <1>8, <1>9, <1>10 DEF ArbitrageNext, OnTick

\* The arbitrage keeps the books of HedgeBook, whatever fails and however often
\* the process is started again.
THEOREM ArbitrageKeepsBooks == ArbitrageSpec => BookSpec
<1>1. ArbitrageInit => Book!BookInit
  BY DEF ArbitrageInit, WalletInit, Book!BookInit, Long
<1> QED
  BY <1>1, ArbitrageStepIsBookStep, TradeInvariant, ArbitrageInvariant, PTL
     DEF ArbitrageSpec, BookSpec, Book!BookSpec

-----------------------------------------------------------------------------
(* A trade ends: this is the part of TradeEnds that is not fairness.           *)

\* How many steps onTick has left at most in the trade it is in.
TradeLeft ==
  CASE at = "buying"    -> IF phase = "sending" THEN 10 ELSE 9
    [] at = "hedge"     -> 8
    [] at = "topUp"     -> 7
    [] at = "toppingUp" -> IF phase = "sending" THEN 6 ELSE 5
    [] at = "deposit"   -> 4
    [] at = "repay"     -> 3
    [] at = "fatal"     -> 1
    [] OTHER            -> 0

\* Each step of onTick in a trade is one less to go, and nothing else adds one.
TradeShrinks ==
  [][InTrade => /\ OnTick => TradeLeft' < TradeLeft
                /\ TradeLeft' <= TradeLeft]_arbitrageVars

\* Where onTick waits it waits for what will come: an answer of the node that is
\* on its way, a transaction that is pending or mined if it is not lost, or the
\* credit of a deposit that was executed.  The bound on transactions does not
\* stop it.
TradeWaits ==
  /\ at \in {"buying", "toppingUp"} =>
       \/ phase = "sending" /\ (answer # "none" \/ cur \in wire)
       \/ phase = "waiting" /\ (cur \in pool \/ (\E m \in mined : m.tx = cur) \/ Orphaned)
  /\ at = "deposit" => SleepOver \/ transit >= 1
  /\ at = "topUp" => signed < MaxTx

\* A trade makes at most ten steps, whatever fails.
THEOREM ArbitrageTradeShrinks == ArbitrageSpec => [](TradeLeft \in 0..10) /\ TradeShrinks
<1>1. TradeLeft \in 0..10
  BY DEF TradeLeft
<1>2. ASSUME FlowIInv, ArbitrageNext, InTrade
      PROVE  TradeLeft' <= TradeLeft /\ (OnTick => TradeLeft' < TradeLeft)
  <2> USE <1>2 DEF FlowIInv, InTrade, TradeLeft
  <2>1. CASE NotEnoughAssets \/ Buy
    BY <2>1 DEF NotEnoughAssets, Buy
  <2>2. CASE Sent
    BY <2>2 DEF Sent, SendOk
  <2>3. CASE BuyReturns \/ TopUpReturns
    BY <2>3 DEF BuyReturns, TopUpReturns
  <2>4. CASE HedgeOk \/ Spot2MarginOk \/ RepayOk
    BY <2>4 DEF HedgeOk, Spot2MarginOk, RepayOk, Answered, SleepOver
  <2>5. CASE TopUp
    BY <2>5 DEF TopUp, Send
  <2>6. CASE BinanceErr \/ Fatal
    BY <2>6 DEF BinanceErr, Fatal, SleepOver
  \* The rest is not onTick.
  <2>7. CASE ~OnTick
    <3>1. CASE Start \/ Die
      BY <2>7, <3>1 DEF Start, NewUniBroker, Die
    <3>2. CASE PollBalance \/ Pool \/ Credit \/ \E tx \in pool, ok \in BOOLEAN : Include(tx, ok)
      <4>1. at' = at /\ phase' = phase
        BY <3>2 DEF PollBalance, Pool, Credit, Include, Mine, NodeAccept, NodeReject, Drop,
                    walletVars, procVars
      <4> QED
        BY <2>7, <4>1
    <3> QED
      BY <2>7, <3>1, <3>2 DEF ArbitrageNext
  <2> QED
    BY <2>1, <2>2, <2>3, <2>4, <2>5, <2>6, <2>7 DEF OnTick
<1>3. FlowIInv /\ [ArbitrageNext]_arbitrageVars =>
        [InTrade => /\ OnTick => TradeLeft' < TradeLeft
                    /\ TradeLeft' <= TradeLeft]_arbitrageVars
  BY <1>2
<1> QED
  BY <1>1, <1>3, ArbitrageInvariant, PTL DEF ArbitrageSpec, TradeShrinks

\* The transfer was counted when the buy was signed.
RoomForTransfer == at \in {"buying", "hedge", "topUp"} => signed < MaxTx

\* Only onTick signs.
LEMMA RoomStep ==
  WalletTypeOK /\ RoomForTransfer /\ [ArbitrageNext]_arbitrageVars => RoomForTransfer'
<1> SUFFICES ASSUME WalletTypeOK, RoomForTransfer, [ArbitrageNext]_arbitrageVars
             PROVE  RoomForTransfer'
  OBVIOUS
<1> USE DEF RoomForTransfer
<1>1. CASE Buy
  BY <1>1, WalletAssumption DEF Buy, Send, WalletTypeOK
<1>2. CASE TopUp \/ Start \/ Die \/ Fatal \/ NotEnoughAssets
  BY <1>2 DEF TopUp, Start, Die, Fatal, NotEnoughAssets
<1>3. CASE Sent \/ BuyReturns \/ TopUpReturns
  BY <1>3 DEF Sent, BuyReturns, TopUpReturns, SendOk, SendErr, WaitMined
<1>4. CASE HedgeOk \/ Spot2MarginOk \/ RepayOk \/ BinanceErr
  BY <1>4 DEF HedgeOk, Spot2MarginOk, RepayOk, BinanceErr, Answered, SleepOver, walletVars, procVars
<1>5. CASE \/ PollBalance \/ Pool \/ Credit \/ UNCHANGED arbitrageVars
           \/ \E tx \in pool, ok \in BOOLEAN : Include(tx, ok)
  BY <1>5 DEF PollBalance, Pool, Credit, Include, Mine, NodeAccept, NodeReject, Drop,
              arbitrageVars, walletVars, procVars
<1> QED
  BY <1>1, <1>2, <1>3, <1>4, <1>5 DEF ArbitrageNext, OnTick

\* A trade never waits for what the node or Binance has forgotten, but for a
\* transaction the pool dropped or replaced.
THEOREM ArbitrageTradeWaits == ArbitrageSpec => []TradeWaits
<1>1. ArbitrageInit => RoomForTransfer
  BY DEF ArbitrageInit, RoomForTransfer
<1>2. ArbitrageSpec => []RoomForTransfer
  <2>1. WalletIInv => WalletTypeOK
    BY DEF WalletIInv
  <2> QED
    BY <1>1, <2>1, RoomStep, ArbitrageInvariant, PTL DEF ArbitrageSpec
<1>3. ArbitrageTypeOK /\ FlowIInv /\ HistoryFits /\ RoomForTransfer => TradeWaits
  BY DEF ArbitrageTypeOK, FlowIInv, HistoryFits, AnswerFits, RoomForTransfer, TradeWaits,
         SleepOver, Orphaned
<1> QED
  BY <1>2, <1>3, ArbitrageTyped, ArbitrageInvariant, ArbitrageImplementsWallet, WalletHistory, PTL

=============================================================================
