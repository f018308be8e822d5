------------------------------ MODULE Arbitrage ------------------------------
(***************************************************************************)
(* The trading loop of cmd/arbitrage/main.go.  onTick buys a lot of ETH    *)
(* (FTM, the gas coin) on chain, sells a lot on margin at Binance, moves   *)
(* the bought lot there and repays the debt, in the one main goroutine:    *)
(*                                                                         *)
(*   tick -> buying -> hedge -> topUp -> toppingUp -> deposit -> repay     *)
(*                                                                         *)
(* A failed BuyEth goes back to the loop; any failure after that, or too   *)
(* little USDC before it, ends the process.  The on-chain half goes        *)
(* through UniWallet.  Binance (exchange/binance.go) is external: a ledger *)
(* of lots that each request reads or changes, whose answer may be lost.   *)
(*                                                                         *)
(* Amounts are lots of 12 FTM (main.go:69) and the 6 USDC one costs; gas   *)
(* and interest are left out.  The tokens were approved before.            *)
(***************************************************************************)
EXTENDS UniWallet

CONSTANTS
  BuyEth, TransferEth,  \* the two calls onTick makes
  Usdc0                 \* lots the account can pay at first

ASSUME ArbitrageAssumption ==
  /\ BuyEth \in Calls /\ TransferEth \in Calls /\ BuyEth # TransferEth
  /\ Usdc0 \in Nat

VARIABLES
  at,       \* where the main goroutine is; "off" when there is none
  seen,     \* uni.Usdc, polled by another goroutine
  usdc,     \* what the account can pay
  eth,      \* lots in the account
  transit,  \* lots sent to the deposit address and not credited
  spot,     \* lots in the spot account
  free,     \* lots in the margin account
  debt      \* lots owed to the margin account

chainVars     == <<usdc, eth, transit>>
binanceVars   == <<spot, free, debt>>
arbitrageVars == <<at, seen, chainVars, binanceVars, walletVars>>

ArbitrageTypeOK ==
  /\ WalletTypeOK
  /\ at \in {"off", "tick", "buying", "hedge", "topUp", "toppingUp", "deposit",
             "repay", "fatal"}
  /\ seen \in Nat /\ usdc \in Nat /\ eth \in Nat /\ transit \in Nat
  /\ spot \in Nat /\ free \in Nat /\ debt \in Nat

ArbitrageInit ==
  /\ WalletInit
  /\ at = "off" /\ seen = 0 /\ usdc = Usdc0
  /\ eth = 0 /\ transit = 0 /\ spot = 0 /\ free = 0 /\ debt = 0

Long == eth + transit + spot + free

-----------------------------------------------------------------------------
(* Variants of the actions below with a plausible bug, to show what the       *)
(* properties of this module detect.                                          *)

\* A hedge whatever BuyEth returned.
BuyReturns_AnyOutcome ==
  /\ at = "buying" /\ (SendErr \/ WaitMined)
  /\ at' = "hedge"
  /\ UNCHANGED <<seen, chainVars, binanceVars>>

\* An onTick that returns when Binance refuses, as it does when BuyEth fails.
BinanceErr_Returns ==
  /\ \/ at = "hedge" /\ "refuse" \in Faults
     \/ at = "deposit" /\ (transit = 0 \/ "slow" \in Faults) /\ (spot = 0 \/ "refuse" \in Faults)
     \/ at = "repay" /\ ((debt >= 1 /\ free = 0) \/ "refuse" \in Faults)
  /\ at' = "tick"
  /\ UNCHANGED <<seen, chainVars, binanceVars, walletVars>>

\* An onTick that only logs that the hedge was refused, and goes on.
BinanceErr_GoesOn ==
  /\ \/ at = "hedge" /\ "refuse" \in Faults /\ at' = "topUp"
     \/ /\ at = "deposit" /\ (transit = 0 \/ "slow" \in Faults)
        /\ (spot = 0 \/ "refuse" \in Faults) /\ at' = "fatal"
     \/ at = "repay" /\ ((debt >= 1 /\ free = 0) \/ "refuse" \in Faults) /\ at' = "fatal"
  /\ UNCHANGED <<seen, chainVars, binanceVars, walletVars>>

\* An onTick that returns when the transfer fails, as it does when BuyEth fails.
TopUpReturns_ToTick ==
  /\ at = "toppingUp" /\ (SendErr \/ WaitMined)
  /\ at' = IF result' = "ok" THEN "deposit" ELSE "tick"
  /\ UNCHANGED <<seen, chainVars, binanceVars>>

\* Repay with a negative amount, which borrows (binance.go:183).
RepayOk_Borrows ==
  /\ at = "repay"
  /\ debt' = debt + 1 /\ free' = free + 1 /\ at' = "tick"
  /\ UNCHANGED <<seen, chainVars, spot, walletVars>>

-----------------------------------------------------------------------------
(* The loop and onTick. *)

\* main up to its loop: the balance was queried once (Mainloop).
Start ==
  /\ at = "off" /\ NewUniBroker
  /\ at' = "tick" /\ seen' = usdc
  /\ UNCHANGED <<chainVars, binanceVars>>

\* The goroutine that polls balance and gas price, at any moment.
PollBalance ==
  /\ at # "off"
  /\ seen' = usdc
  /\ UNCHANGED <<at, chainVars, binanceVars, walletVars>>

\* The spread is wide enough but uni.Usdc is not: log.Fatalln.
NotEnoughAssets ==
  /\ at = "tick" /\ seen < 1
  /\ at' = "fatal"
  /\ UNCHANGED <<seen, chainVars, binanceVars, walletVars>>

\* (The bound leaves room for the transfer.)
Buy ==
  /\ at = "tick" /\ seen >= 1
  /\ signed + 1 < MaxTx /\ Send(BuyEth)
  /\ at' = "buying"
  /\ UNCHANGED <<seen, chainVars, binanceVars>>

\* SendTransaction of BuyEth or TransferEth has returned nil.
Sent ==
  /\ at \in {"buying", "toppingUp"} /\ SendOk
  /\ UNCHANGED <<at, seen, chainVars, binanceVars>>

\* BuyEth fails and onTick returns, or is executed.
BuyReturns ==
  /\ at = "buying"
  /\ SendErr \/ WaitMined
  /\ at' = IF result' = "ok" THEN "hedge" ELSE "tick"
  /\ UNCHANGED <<seen, chainVars, binanceVars>>

\* A request to Binance that it executes: the answer arrives and onTick goes on
\* to next, or is lost and the process ends.
Answered(next) ==
  \/ at' = next
  \/ "lost" \in Faults /\ at' = "fatal"

\* PostMarginOrder, market sell with AUTO_BORROW_REPAY: a lot of the margin
\* account is sold, or a borrowed one.  Then the 5 seconds' sleep.
HedgeOk ==
  /\ at = "hedge"
  /\ IF free >= 1 THEN free' = free - 1 /\ debt' = debt
                  ELSE debt' = debt + 1 /\ free' = free
  /\ Answered("topUp")
  /\ UNCHANGED <<seen, chainVars, spot, walletVars>>

TopUp ==
  /\ at = "topUp" /\ Send(TransferEth)
  /\ at' = "toppingUp"
  /\ UNCHANGED <<seen, chainVars, binanceVars>>

TopUpReturns ==
  /\ at = "toppingUp"
  /\ SendErr \/ WaitMined
  /\ at' = IF result' = "ok" THEN "deposit" ELSE "fatal"
  /\ UNCHANGED <<seen, chainVars, binanceVars>>

\* After 45 seconds, in which the deposit is credited unless it is slow,
\* Spot2Margin.
SleepOver == at = "deposit" /\ (transit = 0 \/ "slow" \in Faults)

Spot2MarginOk ==
  /\ SleepOver /\ spot >= 1
  /\ spot' = spot - 1 /\ free' = free + 1
  /\ Answered("repay")
  /\ UNCHANGED <<seen, chainVars, debt, walletVars>>

\* Repay; without a debt it does nothing and is no error (binance.go:180).
RepayOk ==
  /\ at = "repay"
  /\ \/ debt = 0 /\ UNCHANGED <<free, debt>>
     \/ debt >= 1 /\ free >= 1 /\ debt' = debt - 1 /\ free' = free - 1
  /\ Answered("tick")
  /\ UNCHANGED <<seen, chainVars, spot, walletVars>>

\* Binance refuses: for what is missing, or for another reason.
BinanceErr ==
  /\ \/ at = "hedge" /\ "refuse" \in Faults
     \/ SleepOver /\ (spot = 0 \/ "refuse" \in Faults)
     \/ at = "repay" /\ ((debt >= 1 /\ free = 0) \/ "refuse" \in Faults)
  /\ at' = "fatal"
  /\ UNCHANGED <<seen, chainVars, binanceVars, walletVars>>

\* log.Fatalln.
Fatal ==
  /\ at = "fatal" /\ Exit
  /\ at' = "off" /\ seen' = 0
  /\ UNCHANGED <<chainVars, binanceVars>>

Die ==
  /\ Crash
  /\ at' = "off" /\ seen' = 0
  /\ UNCHANGED <<chainVars, binanceVars>>

-----------------------------------------------------------------------------
(* The chain and Binance's deposits (external). *)

CanExecute(tx) ==
  IF tx.call = BuyEth THEN usdc >= 1 ELSE eth >= 1

\* A mined transaction is executed if it can be, unless it is reverted.
Include(tx, ok) ==
  /\ IF ok THEN CanExecute(tx) ELSE ~CanExecute(tx) \/ "revert" \in Faults
  /\ Mine(tx, ok)
  /\ \/ ~ok /\ UNCHANGED chainVars
     \/ /\ ok /\ tx.call = BuyEth
        /\ usdc' = usdc - 1 /\ eth' = eth + 1 /\ transit' = transit
     \/ /\ ok /\ tx.call = TransferEth
        /\ eth' = eth - 1 /\ transit' = transit + 1 /\ usdc' = usdc
  /\ UNCHANGED <<at, seen, binanceVars>>

Pool ==
  /\ \/ \E tx \in wire : NodeAccept(tx) \/ NodeReject(tx)
     \/ \E tx \in pool : Drop(tx)
  /\ UNCHANGED <<at, seen, chainVars, binanceVars>>

Credit ==
  /\ transit >= 1
  /\ transit' = transit - 1 /\ spot' = spot + 1
  /\ UNCHANGED <<at, seen, usdc, eth, free, debt, walletVars>>

-----------------------------------------------------------------------------
OnTick ==
  \/ NotEnoughAssets \/ Buy \/ Sent \/ BuyReturns \/ HedgeOk \/ TopUp \/ TopUpReturns
  \/ Spot2MarginOk \/ RepayOk \/ BinanceErr \/ Fatal

ArbitrageNext ==
  \/ Start \/ PollBalance \/ OnTick \/ Die
  \/ \E tx \in pool, ok \in BOOLEAN : Include(tx, ok)
  \/ Pool \/ Credit

ArbitrageSpec == ArbitrageInit /\ [][ArbitrageNext]_arbitrageVars

\* The main goroutine goes on once it has bought, the node answers, blocks are
\* made and deposits are credited.
InTrade == at \notin {"off", "tick"}

ArbitrageFairSpec ==
  /\ ArbitrageSpec
  /\ WF_arbitrageVars(InTrade /\ OnTick)
  /\ WF_arbitrageVars(Pool)
  /\ WF_arbitrageVars(\E tx \in pool, ok \in BOOLEAN : Include(tx, ok))
  /\ WF_arbitrageVars(Credit)

-----------------------------------------------------------------------------
(* Properties. *)

\* Never short of the currency, and long by at most one lot per start of the
\* process: a buy whose outcome is unknown leaves the nonce behind, so no other
\* buy of that process is accepted, and every failure after a buy ends it.  A
\* process that can still trade has left nothing unhedged itself.
ExposureBound ==
  /\ debt <= Long
  /\ Long <= debt + starts
  /\ at = "tick" /\ ~Behind => Long < debt + starts

\* What is at Binance, or on its way there, is never more than what is owed
\* there: a lot that was not hedged stays in the account on chain.
UnhedgedStaysOnChain == transit + spot + free <= debt

\* Each start leaves at most one lot of debt behind it.
DebtBound ==
  /\ debt <= starts
  /\ at = "tick" => debt < starts

\* A transfer that can still be mined has its lot in the account, so one left
\* over from an earlier process never takes the lot of another.
TransfersAreFunded ==
  \A tx \in wire \cup pool :
    tx.call = TransferEth /\ tx.nonce = chainNonce => eth >= 1

\* The books of the arbitrage are those of HedgeBook.
Book == INSTANCE HedgeBook WITH long <- Long, short <- debt, lives <- starts
BookSpec == Book!BookSpec

\* Whatever fails, a trade ends: the loop goes on or the process has ended, unless
\* the node lost the very transaction it waits for.
TradeEnds == InTrade ~> (~InTrade \/ Orphaned)

=============================================================================
