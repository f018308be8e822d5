---------------------------- MODULE Calculations ----------------------------
(***************************************************************************)
(* One calculation of the program, on any small input: a call of Swap,     *)
(* BuyEth or SellEth (SwapMath), a secret of the configuration (KeyFormat) *)
(* or a request to Binance (BinanceRest).  The price of a pair serves the  *)
(* price demo as well, whose amounts are computed in the same way.         *)
(***************************************************************************)
EXTENDS SwapMath, KeyFormat, BinanceRest

CONSTANTS
  MaxReserve,  \* bound: reserves of a pair
  MaxUnit,     \* bound: size of a whole unit
  MaxAmount,   \* bound: amount of a swap
  MaxText      \* bound: length of a secret

VARIABLES
  task,   \* what is calculated, from what
  result  \* what came out; none before

calcVars == <<task, result, restVars>>

Pairs ==
  {p \in [r0 : 0..MaxReserve, r1 : 0..MaxReserve, d0 : 1..MaxUnit, d1 : 1..MaxUnit,
          quoteIsToken1 : BOOLEAN] :
     p.d0 = QuoteUnit \/ p.d1 = QuoteUnit}

Texts == UNION {[1..n -> Byte] : n \in 0..MaxText}

PairTasks == [op : {"swapBuy", "swapSell", "buyEth", "sellEth"}, pair : Pairs, amount : 1..MaxAmount]
KeyTasks  ==
  [op : {"encrypt"}, text : Texts]
  \cup [op : {"decrypt"}, cipher : [hex : BOOLEAN, bytes : Texts]]

None == {}

CalcInit ==
  \/ task \in PairTasks \cup KeyTasks /\ result = None /\ RestIdle
  \/ task = [op |-> "request"] /\ result = None /\ RestInit

Ready(op) == task.op = op /\ result = None /\ UNCHANGED <<task, restVars>>

SwapBuy  == Ready("swapBuy") /\ result' = {SwapCall(task.pair, "buy", task.amount)}
SwapSell == Ready("swapSell") /\ result' = {SwapCall(task.pair, "sell", task.amount)}

BuyEth  == Ready("buyEth") /\ result' = BuyCall(task.pair, task.amount)
SellEth == Ready("sellEth") /\ result' = SellCall(task.pair, task.amount)

\* NewConfig decrypts what the command aes encrypted, or what was written by hand.
Encrypt == Ready("encrypt") /\ result' = {Decrypted(Encrypted(task.text))}
Decrypt == Ready("decrypt") /\ result' = {Decrypted(task.cipher)}

CalcNext ==
  \/ SwapBuy \/ SwapSell \/ BuyEth \/ SellEth \/ Encrypt \/ Decrypt
  \/ RestNext /\ UNCHANGED <<task, result>>

CalcSpec == CalcInit /\ [][CalcNext]_calcVars

-----------------------------------------------------------------------------
(* Properties. *)

BaseToken(p)  == IF p.quoteIsToken1 THEN "token0" ELSE "token1"
QuoteToken(p) == IF p.quoteIsToken1 THEN "token1" ELSE "token0"

\* What the router is called with.
Calls == {c \in result : c.kind # "panic"}

\* A buy that its limit lets through costs at most 0.27% more, and a sale brings at
\* most 0.24% less, than the amount at the exact price, but for the price's error
\* and one unit: this is what the limits protect from.
LimitsBoundPrice ==
  task.op \in {"buyEth", "sellEth"} /\ IsNumber(Price(task.pair))
    /\ QuoteMul(task.pair) = QuoteUnit =>
    LET p == task.pair
        a == task.amount
        price == Price(p)
    IN \A c \in Calls :
         IF task.op = "buyEth"
           THEN c.limit * price.den * Base(p) * 10000 <= 10027 * a * Quote(p) * (price.den + 1)
           ELSE (c.limit + 1) * (price.num + 1) * Base(p) * 10000 >= 9976 * a * Quote(p) * price.num

\* The path of a call begins with the token that is paid and ends with the one that
\* is obtained, as the comments at uniswap.go:613 and 677 say: a buy pays the quote
\* (its limit) for the base (its amount), and a sale the other way round.
PathPaidToObtained ==
  task.op \in {"buyEth", "sellEth"} =>
    \A c \in {d \in Calls : d.limit > 0} :
      c.path = IF task.op = "buyEth" THEN <<QuoteToken(task.pair), BaseToken(task.pair)>>
                                     ELSE <<BaseToken(task.pair), QuoteToken(task.pair)>>

\* A secret that was encrypted is read back as it was, whatever its length.
SecretsSurvive ==
  task.op = "encrypt" => result \subseteq {[ends |-> "ok", text |-> task.text]}

=============================================================================
