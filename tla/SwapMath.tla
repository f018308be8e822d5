------------------------------ MODULE SwapMath ------------------------------
(***************************************************************************)
(* The arithmetic of an exchange on a pair: the price (config/config.go)   *)
(* and what Swap, BuyEth and SellEth (exchange/uniswap.go) ask of the pair *)
(* and of the router.                                                      *)
(*                                                                         *)
(* A pair is [r0, r1, d0, d1, quoteIsToken1]: its reserves, the size of a  *)
(* whole unit of each token (DecimalsMul0, DecimalsMul1) and which token   *)
(* is the quote.  Amounts are in the smallest units.  Price is a float64:  *)
(* here it is the exact quotient, kept as numerator and denominator, and   *)
(* float64's own rounding is left out.                                     *)
(***************************************************************************)
EXTENDS Integers

CONSTANT
  QuoteUnit  \* the 1e6 that BuyEth and SellEth take for a whole unit of the quote

ASSUME MathAssumption == QuoteUnit \in Nat \ {0}

Pair == [r0 : Nat, r1 : Nat, d0 : Nat \ {0}, d1 : Nat \ {0}, quoteIsToken1 : BOOLEAN]

Base(p)     == IF p.quoteIsToken1 THEN p.r0 ELSE p.r1
Quote(p)    == IF p.quoteIsToken1 THEN p.r1 ELSE p.r0
BaseMul(p)  == IF p.quoteIsToken1 THEN p.d0 ELSE p.d1
QuoteMul(p) == IF p.quoteIsToken1 THEN p.d1 ELSE p.d0

\* Variants, here and below: the same with a plausible bug.
Price_Inverted(p) == [num |-> p.r1 \div p.d1, den |-> p.r0 \div p.d0]

Amount0(p) == p.r0 \div p.d0
Amount1(p) == p.r1 \div p.d1

\* Price in whole units of quote for one of base; den = 0 is NaN or an infinity.
Price(p) ==
  IF p.quoteIsToken1 THEN [num |-> Amount1(p), den |-> Amount0(p)]
                     ELSE [num |-> Amount0(p), den |-> Amount1(p)]

IsNumber(price) == price.den # 0

\* The demo (cmd/uniswap_get_price_demo) computes its price as config does, and a
\* priceFloat beside it, whose whole units keep what is after the point.
DemoPrice(p) == Price(p)

AmountFloat0(p) == [num |-> p.r0, den |-> p.d0]
AmountFloat1(p) == [num |-> p.r1, den |-> p.d1]

Over(x, y) == [num |-> x.num * y.den, den |-> x.den * y.num]

PriceFloat(p) ==
  IF p.quoteIsToken1 THEN Over(AmountFloat1(p), AmountFloat0(p))
                     ELSE Over(AmountFloat0(p), AmountFloat1(p))

-----------------------------------------------------------------------------
(* Swap: the pair is called directly and told how much to give. *)

BuyOut(p, a)  == a

\* What leaves x*y at the floor of k.
SellOut(p, a) == Quote(p) - (p.r0 * p.r1) \div (Base(p) + a)

\* The call of Swap: what it asks for of each token, and the coins it sends.
SwapCall(p, side, a) ==
  LET out == IF side = "buy" THEN BuyOut(p, a) ELSE SellOut(p, a)
      ofToken1 == IF side = "buy" THEN ~p.quoteIsToken1 ELSE p.quoteIsToken1
  IN [ amount0Out |-> IF ofToken1 THEN 0 ELSE out,
       amount1Out |-> IF ofToken1 THEN out ELSE 0,
       value      |-> IF side = "buy" THEN 0 ELSE a ]

-----------------------------------------------------------------------------
(* BuyEth and SellEth: the router is told a limit and a path. *)

\* Price * amount * 1e6 * (1 + fee + slippage), cut to an int64.
Limit(p, a, tenThousandths) ==
  LET price == Price(p) IN
  (price.num * a * QuoteUnit * tenThousandths) \div (price.den * BaseMul(p) * 10000)

BuyLimit(p, a)  == Limit(p, a, 10000 + 19 + 8)
SellLimit(p, a) == Limit(p, a, 10000 - 19 - 5)

\* Both paths are written with the tokens' numbers, whichever is the quote.
BuyPath  == <<"token0", "token1">>
SellPath == <<"token1", "token0">>

Call(limit, path) == {[kind |-> "call", limit |-> limit, path |-> path]}

\* int64(x) of a float64 that is no number: what it is depends on the processor.
AnyInt64(path) ==
  {[kind |-> k, limit |-> 0, path |-> path] : k \in {"lowest", "zero", "highest"}}

\* BuyEth first divides by what is left of the base, though it does not use the
\* result: there is a panic when nothing is left.
BuyCall(p, a) ==
  IF Base(p) = a THEN {[kind |-> "panic", limit |-> 0, path |-> <<>>]}
  ELSE IF IsNumber(Price(p)) THEN Call(BuyLimit(p, a), BuyPath) ELSE AnyInt64(BuyPath)

SellCall(p, a) ==
  IF IsNumber(Price(p)) THEN Call(SellLimit(p, a), SellPath) ELSE AnyInt64(SellPath)

-----------------------------------------------------------------------------
(* The pair (external). *)

\* The pair's check of x*y for a sale: out is given for the base tokens that were
\* paid into the pair, less a fee in thousandths.  It looks at its balances of the
\* two tokens alone.  The coins that Swap sends along are none of them, and Swap
\* pays no tokens in.
PairGives(p, fee, paid, out) ==
  (Base(p) * 1000 + paid * (1000 - fee)) * (Quote(p) - out) >= Base(p) * Quote(p) * 1000

=============================================================================
