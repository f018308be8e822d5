-------------------------- MODULE CalculationsProofs --------------------------
(***************************************************************************)
(* The calculations on reserves, units, amounts and secrets of any size,   *)
(* and the requests in any order of their parameters.                      *)
(***************************************************************************)
EXTENDS Calculations, FiniteSetTheorems, TLAPS

-----------------------------------------------------------------------------
(* Arithmetic. *)

\* What Div and the truncations leave out is less than the divisor.
LEMMA Quotient ==
  ASSUME NEW x \in Nat, NEW d \in Nat \ {0}
  PROVE  /\ x \div d \in Nat
         /\ (x \div d) * d <= x
         /\ x < (x \div d + 1) * d
<1>1. x \in Int /\ d \in Int /\ d > 0 /\ x \div d \in Int
  OBVIOUS
<1>2. d * (x \div d) <= x /\ x < d * (x \div d) + d
  BY <1>1
<1>3. x \div d >= 0
  BY <1>1, <1>2
<1> QED
  BY <1>1, <1>2, <1>3

\* A positive factor cancels.
LEMMA Cancel ==
  ASSUME NEW x \in Nat, NEW y \in Nat, NEW z \in Nat \ {0}, x * z <= y * z
  PROVE  x <= y
OBVIOUS

-----------------------------------------------------------------------------
(* What a calculation results in. *)

\* The result is that of its task, and there is none before.
ResultFits ==
  /\ task \in PairTasks \cup KeyTasks \cup {[op |-> "request"]}
  /\ \/ result = None
     \/ task.op = "swapBuy" /\ result = {SwapCall(task.pair, "buy", task.amount)}
     \/ task.op = "swapSell" /\ result = {SwapCall(task.pair, "sell", task.amount)}
     \/ task.op = "buyEth" /\ result = BuyCall(task.pair, task.amount)
     \/ task.op = "sellEth" /\ result = SellCall(task.pair, task.amount)
     \/ task.op = "encrypt" /\ result = {Decrypted(Encrypted(task.text))}
     \/ task.op = "decrypt" /\ result = {Decrypted(task.cipher)}

LEMMA ResultInvariant == CalcSpec => []ResultFits
<1>1. CalcInit => ResultFits
  BY DEF CalcInit, ResultFits
<1>2. ResultFits /\ [CalcNext]_calcVars => ResultFits'
  BY DEF ResultFits, calcVars, CalcNext, Ready, SwapBuy, SwapSell, BuyEth, SellEth,
         Encrypt, Decrypt
<1> QED
  BY <1>1, <1>2, PTL DEF CalcSpec

\* The pair and the amount of a task are those of the program: natural numbers, and
\* positive where something is divided by them.
LEMMA PairTaskFits ==
  ASSUME ResultFits, task.op \in {"swapBuy", "swapSell", "buyEth", "sellEth"}
  PROVE  task.amount \in Nat \ {0} /\ task.pair \in Pair
<1>1. task \in PairTasks
  BY DEF ResultFits, KeyTasks
<1> QED
  BY <1>1 DEF PairTasks, Pairs, Pair

-----------------------------------------------------------------------------
(* Swap. *)

\* Swap never sells: the pair refuses what it asks for, whatever its reserves and the
\* amount, even if the whole amount had been paid into it as tokens (Swap pays none)
\* and if its fee were the least there is.  The comment at uniswap.go:522 has it that
\* x*y=k tells how much is obtained.
THEOREM SwapNeverSells ==
  ASSUME NEW p \in Pair, p.r0 > 0, p.r1 > 0,
         NEW amount \in Nat \ {0}, NEW fee \in 1..1000, NEW paid \in 0..amount
  PROVE  LET call == SwapCall(p, "sell", amount)
         IN ~PairGives(p, fee, paid, call.amount0Out + call.amount1Out)
<1> DEFINE b == Base(p)
           q == Quote(p)
           kept == (b * q) \div (b + amount)
           call == SwapCall(p, "sell", amount)
<1>1. p.quoteIsToken1 \in BOOLEAN /\ p.r0 \in Nat \ {0} /\ p.r1 \in Nat \ {0}
  BY DEF Pair
<1>2. b \in Nat \ {0} /\ q \in Nat \ {0} /\ p.r0 * p.r1 = b * q
  BY <1>1 DEF Base, Quote
\* What stays is the floor of k, and asked for is all the rest.
<1>3. kept \in Nat /\ kept * (b + amount) <= b * q /\ b * q \in Nat /\ b * q > 0
  <2> DEFINE k == b * q
             d == b + amount
  <2>1. k \in Nat /\ k > 0 /\ d \in Nat \ {0} /\ kept = k \div d
    BY <1>2
  <2> HIDE DEF k, d, kept
  <2>2. kept \in Nat /\ kept * d <= k
    BY <2>1, Quotient
  <2> QED
    BY <2>1, <2>2 DEF k, d
<1>4. call.amount0Out + call.amount1Out = q - kept
  <2>1. SellOut(p, amount) = q - kept
    BY <1>2 DEF SellOut
  <2> QED
    BY <1>1, <1>2, <1>3, <2>1 DEF SwapCall
<1>5. b \in Int /\ q \in Int /\ amount \in Int /\ fee \in Int /\ paid \in Int /\ kept \in Int
  BY <1>2, <1>3
<1>6. b >= 1 /\ q >= 1 /\ fee >= 1 /\ fee <= 1000 /\ paid >= 0 /\ paid <= amount /\ kept >= 0
  BY <1>2, <1>3
<1> DEFINE out == call.amount0Out + call.amount1Out
<1>7. PairGives(p, fee, paid, out)
        <=> (b * 1000 + paid * (1000 - fee)) * (q - out) >= b * q * 1000
  BY DEF PairGives
<1> HIDE DEF b, q, kept, call
<1>8. q - out = kept
  BY <1>4, <1>5
\* The fee takes something of what comes in, if anything stays.
<1>9. (b * 1000 + paid * (1000 - fee)) * kept < b * q * 1000
  <2>1. CASE kept = 0
    BY <1>3, <1>5, <2>1
  <2>2. CASE kept > 0
    <3>1. paid * (1000 - fee) <= amount * 1000 /\ paid * (1000 - fee) \in Int
      BY <1>5, <1>6
    <3>2. paid * (1000 - fee) < amount * 1000
      <4>1. CASE paid = 0
        BY <1>5, <1>6, <4>1
      <4>2. CASE paid > 0
        <5>1. paid * (1000 - fee) = paid * 1000 - paid * fee /\ paid * fee \in Int /\ paid * fee > 0
          BY <1>5, <1>6, <4>2
        <5> QED
          BY <1>5, <1>6, <5>1
      <4> QED
        BY <1>5, <1>6, <4>1, <4>2
    <3> DEFINE x == paid * (1000 - fee)
    <3>3. (b * 1000 + x) * kept < (b * 1000 + amount * 1000) * kept
      <4>1. x \in Int /\ x < amount * 1000
        BY <3>1, <3>2
      <4> HIDE DEF x
      <4> QED
        BY <1>5, <2>2, <4>1
    <3>4. (b * 1000 + amount * 1000) * kept = 1000 * (kept * (b + amount))
      BY <1>5
    <3>5. kept * (b + amount) \in Int /\ (b * 1000 + x) * kept \in Int
      BY <1>5, <3>1
    <3> QED
      BY <1>3, <3>3, <3>4, <3>5
  <2> QED
    BY <1>5, <1>6, <2>1, <2>2
<1>10. (b * 1000 + paid * (1000 - fee)) * kept \in Int /\ b * q * 1000 \in Int
  BY <1>5
<1>11. ~PairGives(p, fee, paid, out)
  BY <1>7, <1>8, <1>9, <1>10
<1> QED
  BY <1>11 DEF call

-----------------------------------------------------------------------------
(* The price and the limits. *)

\* The two sides of a pair in whole units, and what the truncations leave out.
LEMMA WholeUnits ==
  ASSUME NEW p \in Pair
  PROVE  /\ Base(p) \in Nat /\ Quote(p) \in Nat
         /\ BaseMul(p) \in Nat \ {0} /\ QuoteMul(p) \in Nat \ {0}
         /\ Price(p).num \in Nat /\ Price(p).den \in Nat
         /\ Price(p).num * QuoteMul(p) <= Quote(p)
         /\ Quote(p) < (Price(p).num + 1) * QuoteMul(p)
         /\ Price(p).den * BaseMul(p) <= Base(p)
         /\ Base(p) < (Price(p).den + 1) * BaseMul(p)
<1>1. /\ p.quoteIsToken1 \in BOOLEAN
      /\ p.r0 \in Nat /\ p.r1 \in Nat /\ p.d0 \in Nat \ {0} /\ p.d1 \in Nat \ {0}
  BY DEF Pair
<1>2. /\ Amount0(p) \in Nat /\ Amount0(p) * p.d0 <= p.r0 /\ p.r0 < (Amount0(p) + 1) * p.d0
      /\ Amount1(p) \in Nat /\ Amount1(p) * p.d1 <= p.r1 /\ p.r1 < (Amount1(p) + 1) * p.d1
  BY <1>1, Quotient DEF Amount0, Amount1
<1> QED
  BY <1>1, <1>2 DEF Base, Quote, BaseMul, QuoteMul, Price

\* The price of a pair with N whole units of each token is within one part in N of
\* the priceFloat that the demo computes beside it, above and below.  The demo's
\* comment (main.go:57) has almost no error between the two, and docs/01 (line 104)
\* one below 1e-8 for every pair: that takes 1e8 whole units of either token.
THEOREM PriceIsWithinAPart ==
  ASSUME NEW p \in Pair, NEW N \in Nat \ {0}, DemoPrice(p).num >= N, DemoPrice(p).den >= N
  PROVE  LET quoted == DemoPrice(p).num * PriceFloat(p).den
             exact  == PriceFloat(p).num * DemoPrice(p).den
         IN quoted * N <= exact * (N + 1) /\ exact * N <= quoted * (N + 1)
<1> DEFINE b == Base(p)
           q == Quote(p)
           bm == BaseMul(p)
           qm == QuoteMul(p)
           n == Price(p).num
           d == Price(p).den
<1>1. /\ b \in Nat /\ q \in Nat /\ bm \in Nat /\ qm \in Nat /\ n \in Nat /\ d \in Nat
      /\ n * qm <= q /\ q <= (n + 1) * qm
      /\ d * bm <= b /\ b <= (d + 1) * bm
      /\ n >= N /\ d >= N
  BY WholeUnits DEF DemoPrice
<1> HIDE DEF b, q, bm, qm, n, d
\* Cutting one more unit off is less than one part in N.
<1>2. (d + 1) * N <= d * (N + 1) /\ (n + 1) * N <= n * (N + 1)
  BY <1>1
<1>3. (n * qm * b) * N <= (q * bm * d) * (N + 1)
  <2>1. n * qm * b <= q * b /\ q * b <= (q * bm) * (d + 1)
    BY <1>1
  <2>2. n * qm * b <= (q * bm) * (d + 1) /\ n * qm * b \in Nat /\ q * bm \in Nat
    BY <1>1, <2>1
  <2> DEFINE x == n * qm * b
             y == q * bm
  <2>3. x \in Nat /\ y \in Nat /\ x <= y * (d + 1)
    BY <2>2
  <2> HIDE DEF x, y
  <2>4. x * N <= y * ((d + 1) * N) /\ y * ((d + 1) * N) <= y * (d * (N + 1))
    <3>1. x * N <= (y * (d + 1)) * N
      BY <1>1, <2>3
    <3> QED
      BY <1>1, <1>2, <2>3, <3>1
  <2>5. x * N <= (y * d) * (N + 1)
    BY <1>1, <2>3, <2>4
  <2> QED
    BY <1>1, <2>5 DEF x, y
<1>4. (q * bm * d) * N <= (n * qm * b) * (N + 1)
  <2>1. q * bm * d <= q * b /\ q * b <= (n + 1) * (qm * b)
    BY <1>1
  <2> DEFINE x == q * bm * d
             y == qm * b
  <2>2. x \in Nat /\ y \in Nat /\ x <= (n + 1) * y
    BY <1>1, <2>1
  <2> HIDE DEF x, y
  <2>3. x * N <= y * ((n + 1) * N) /\ y * ((n + 1) * N) <= y * (n * (N + 1))
    <3>1. x * N <= ((n + 1) * y) * N
      BY <1>1, <2>2
    <3> QED
      BY <1>1, <1>2, <2>2, <3>1
  <2>4. x * N <= (n * y) * (N + 1)
    BY <1>1, <2>2, <2>3
  <2>5. n * y = n * qm * b
    BY <1>1 DEF y
  <2> QED
    BY <2>4, <2>5 DEF x
<1>5. PriceFloat(p) = [num |-> q * bm, den |-> qm * b]
  BY DEF PriceFloat, Over, AmountFloat0, AmountFloat1, Base, Quote, BaseMul, QuoteMul,
         b, q, bm, qm
<1> QED
  <2>1. /\ DemoPrice(p).num * PriceFloat(p).den = n * qm * b
        /\ PriceFloat(p).num * DemoPrice(p).den = q * bm * d
    <3>1. DemoPrice(p).num = n /\ DemoPrice(p).den = d
      BY DEF DemoPrice, n, d
    <3>2. n * (qm * b) = n * qm * b
      BY <1>1
    <3> QED
      BY <1>5, <3>1, <3>2
  <2> QED
    BY <1>3, <1>4, <2>1

\* BuyEth and SellEth are refused beyond their fee and slippage from the exact
\* price, but for the price's truncations and one unit.
THEOREM LimitsProtect == CalcSpec => []LimitsBoundPrice
<1>1. ResultFits => LimitsBoundPrice
  <2> DEFINE p == task.pair
             a == task.amount
             b == Base(p)
             q == Quote(p)
             bm == BaseMul(p)
             n == Price(p).num
             d == Price(p).den
  <2> SUFFICES ASSUME ResultFits, task.op \in {"buyEth", "sellEth"}, IsNumber(Price(p)),
                      QuoteMul(p) = QuoteUnit, NEW c \in Calls
               PROVE  IF task.op = "buyEth"
                        THEN c.limit * d * b * 10000 <= 10027 * a * q * (d + 1)
                        ELSE (c.limit + 1) * (n + 1) * b * 10000 >= 9976 * a * q * n
    BY DEF LimitsBoundPrice
  <2>1. /\ b \in Nat /\ q \in Nat /\ bm \in Nat \ {0} /\ n \in Nat /\ d \in Nat \ {0}
        /\ n * QuoteUnit <= q /\ q <= (n + 1) * QuoteUnit
        /\ d * bm <= b /\ b <= (d + 1) * bm
    BY PairTaskFits, WholeUnits DEF IsNumber
  <2>2. a \in Nat \ {0} /\ QuoteUnit \in Nat \ {0}
    BY PairTaskFits, MathAssumption
  <2>3. CASE task.op = "buyEth"
    <3> DEFINE limit == c.limit
               x == n * a * QuoteUnit * 10027
               y == d * bm * 10000
    <3>1. limit = x \div y
      BY <2>3 DEF ResultFits, None, Calls, BuyCall, Call, BuyLimit, Limit
    <3> HIDE DEF p, a, b, q, bm, n, d, limit
    <3>2. x \in Nat /\ y \in Nat \ {0}
      <4>1. n * a * QuoteUnit * 10027 \in Nat /\ d * bm * 10000 \in Nat \ {0}
        BY <2>1, <2>2
      <4> QED
        BY <4>1
    <3>3. x <= 10027 * a * q
      BY <2>1, <2>2
    <3> HIDE DEF x
    <3>4. limit \in Nat /\ limit * y <= x
      <4> HIDE DEF y
      <4> QED
        BY <3>1, <3>2, Quotient
    <3>5. (limit * d * b * 10000) * bm <= (10027 * a * q * (d + 1)) * bm
      <4>1. (limit * d * b * 10000) * bm = (limit * y) * b
        BY <2>1, <3>4
      <4>2. (limit * y) * b <= (10027 * a * q) * b
        BY <2>1, <2>2, <3>2, <3>3, <3>4
      <4>3. (10027 * a * q) * b <= (10027 * a * q) * ((d + 1) * bm)
        BY <2>1, <2>2
      <4>4. (10027 * a * q) * ((d + 1) * bm) = (10027 * a * q * (d + 1)) * bm
        BY <2>1, <2>2
      <4> QED
        BY <2>1, <2>2, <3>4, <4>1, <4>2, <4>3, <4>4
    <3>6. limit * d * b * 10000 \in Nat /\ 10027 * a * q * (d + 1) \in Nat
      BY <2>1, <2>2, <3>4
    <3>7. limit * d * b * 10000 <= 10027 * a * q * (d + 1)
      BY <2>1, <3>5, <3>6, Cancel
    <3> QED
      BY <2>3, <3>7 DEF limit
  <2>4. CASE task.op = "sellEth"
    <3> DEFINE limit == c.limit
               x == n * a * QuoteUnit * 9976
               y == d * bm * 10000
    <3>1. limit = x \div y
      BY <2>4 DEF ResultFits, None, Calls, SellCall, Call, SellLimit, Limit
    <3> HIDE DEF p, a, b, q, bm, n, d, limit
    <3>2. x \in Nat /\ y \in Nat \ {0} /\ y <= b * 10000
      <4>1. n * a * QuoteUnit * 9976 \in Nat /\ d * bm * 10000 \in Nat \ {0}
        BY <2>1, <2>2
      <4> QED
        BY <2>1, <4>1
    <3>3. limit \in Nat /\ x <= (limit + 1) * y
      <4> HIDE DEF x, y
      <4> QED
        BY <3>1, <3>2, Quotient
    <3>4. (n + 1) * x <= (n + 1) * ((limit + 1) * (b * 10000))
      <4> HIDE DEF x, y
      <4>1. (limit + 1) * y <= (limit + 1) * (b * 10000)
        BY <2>1, <3>2, <3>3
      <4> QED
        BY <2>1, <3>2, <3>3, <4>1
    <3>5. 9976 * a * q * n <= (n + 1) * x
      <4>1. (9976 * a * n) * q <= (9976 * a * n) * ((n + 1) * QuoteUnit)
        BY <2>1, <2>2
      <4> QED
        BY <2>1, <2>2, <4>1
    <3>6. (n + 1) * ((limit + 1) * (b * 10000)) = (limit + 1) * (n + 1) * b * 10000
      BY <2>1, <3>3
    <3>7. /\ 9976 * a * q * n \in Nat /\ (limit + 1) * (n + 1) * b * 10000 \in Nat
          /\ (n + 1) * x \in Nat
      BY <2>1, <2>2, <3>3
    <3> HIDE DEF x
    <3> QED
      BY <2>4, <3>4, <3>5, <3>6, <3>7 DEF limit
  <2> QED
    BY <2>3, <2>4
<1> QED
  BY <1>1, ResultInvariant, PTL

-----------------------------------------------------------------------------
(* The secrets. *)

\* A text and its padding fill whole blocks, and at least one.
LEMMA PaddingFills ==
  ASSUME NEW n \in Nat
  PROVE  PaddingOf(n) \in 1..BlockSize /\ (n + PaddingOf(n)) % BlockSize = 0
<1>1. BlockSize \in Int /\ BlockSize > 0 /\ n \in Int
  BY KeyAssumption
<1>2. /\ n % BlockSize \in 0..(BlockSize - 1) /\ n \div BlockSize \in Int
      /\ n = BlockSize * (n \div BlockSize) + (n % BlockSize)
  BY <1>1, Z3
<1>3. n + PaddingOf(n) = BlockSize * (n \div BlockSize + 1)
  BY <1>1, <1>2 DEF PaddingOf
<1>4. ASSUME NEW q \in Int
      PROVE  (BlockSize * q) % BlockSize = 0
  BY <1>1, Z3
<1> QED
  BY <1>1, <1>2, <1>3, <1>4 DEF PaddingOf

\* What was encrypted decrypts to the same text, of any length and any bytes.
LEMMA RoundTrip ==
  ASSUME NEW m \in Seq(Byte)
  PROVE  Decrypted(Encrypted(m)) = [ends |-> "ok", text |-> m]
<1> DEFINE n == Len(m)
           k == PaddingOf(n)
           padded == Padded(m)
<1>1. n \in Nat /\ k \in Nat \ {0} /\ (n + k) % BlockSize = 0
  <2>1. n \in Nat
    OBVIOUS
  <2> HIDE DEF n
  <2>2. k \in 1..BlockSize /\ (n + k) % BlockSize = 0
    BY <2>1, PaddingFills
  <2> QED
    BY <2>1, <2>2, KeyAssumption
<1>2. /\ padded = [i \in 1..(n + k) |-> IF i <= n THEN m[i] ELSE k]
      /\ Len(padded) = n + k
  BY <1>1 DEF Padded
<1> HIDE DEF k, padded
<1>3. padded # <<>> /\ padded[Len(padded)] = k /\ k <= Len(padded)
  BY <1>1, <1>2
<1>4. SubSeq(padded, 1, Len(padded) - padded[Len(padded)]) = m
  <2>1. SubSeq(padded, 1, n) = [i \in 1..n |-> m[i]]
    BY <1>1, <1>2
  <2> QED
    BY <1>1, <1>2, <1>3, <2>1
<1> DEFINE c == Encrypted(m)
<1>5. c.hex /\ c.bytes = padded
  BY DEF Encrypted, padded
<1>6. Len(c.bytes) % BlockSize = 0 /\ c.bytes # <<>> /\ ~(c.bytes[Len(c.bytes)] > Len(c.bytes))
  BY <1>1, <1>2, <1>3, <1>5
<1>7. Unpadded(c.bytes) = m
  BY <1>4, <1>5 DEF Unpadded
<1> HIDE DEF c
<1>8. Decrypted(c) = [ends |-> "ok", text |-> Unpadded(c.bytes)]
  BY <1>5, <1>6 DEF Decrypted
<1> QED
  BY <1>7, <1>8 DEF c

\* The program reads back every secret it encrypted.
THEOREM SecretsAreReadBack == CalcSpec => []SecretsSurvive
<1>1. ResultFits => SecretsSurvive
  <2> SUFFICES ASSUME ResultFits, task.op = "encrypt", NEW r \in result
               PROVE  r = [ends |-> "ok", text |-> task.text]
    BY DEF SecretsSurvive
  <2>1. task \in KeyTasks /\ task.text \in Texts
    BY DEF ResultFits, PairTasks, KeyTasks
  <2>2. task.text \in Seq(Byte)
    BY <2>1 DEF Texts
  <2>3. r = Decrypted(Encrypted(task.text))
    BY DEF ResultFits, None
  <2> QED
    BY <2>2, <2>3, RoundTrip
<1> QED
  BY <1>1, ResultInvariant, PTL

-----------------------------------------------------------------------------
(* The requests. *)

\* Parameters of a request, written as parts.
Parts == {Part(n, request.params[n]) : n \in DOMAIN request.params}

\* req has written each parameter that is not left once, and at the end all of them.
WalkFits ==
  rest # "idle" =>
    /\ request \in Requests
    /\ qs \in Seq(Parts)
    /\ left \subseteq DOMAIN request.params
    /\ Names(qs) = DOMAIN request.params \ left
    /\ IsFiniteSet(Names(qs)) /\ Cardinality(Names(qs)) = Len(qs)
    /\ rest = "sent" =>
         /\ left = {}
         /\ IF request.auth THEN signed = Append(qs, Timestamp) /\ sent = Append(signed, Signature)
                            ELSE sent = qs

\* One part more is one name more.
LEMMA AppendNames ==
  ASSUME NEW S, NEW q \in Seq(S), NEW x
  PROVE  /\ Names(Append(q, x)) = Names(q) \cup {x.name}
         /\ Len(Append(q, x)) = Len(q) + 1
         /\ Append(q, x) \in Seq(S \cup {x})
<1>1. /\ Len(q) \in Nat /\ Len(Append(q, x)) = Len(q) + 1
      /\ \A i \in 1..Len(q) : Append(q, x)[i] = q[i]
      /\ Append(q, x)[Len(q) + 1] = x
  OBVIOUS
<1>2. 1..(Len(q) + 1) = 1..Len(q) \cup {Len(q) + 1}
  BY <1>1
<1>3. Append(q, x) \in Seq(S \cup {x})
  OBVIOUS
<1> QED
  BY <1>1, <1>2, <1>3 DEF Names

LEMMA WalkInvariant == CalcSpec => []WalkFits
<1>1. CalcInit => WalkFits
  <2> SUFFICES ASSUME CalcInit, rest # "idle" PROVE WalkFits
    BY DEF WalkFits
  <2>1. request \in Requests /\ rest = "walk" /\ left = DOMAIN request.params /\ qs = <<>>
    BY DEF CalcInit, RestInit, RestIdle
  <2>2. Names(qs) = {} /\ Len(qs) = 0 /\ qs \in Seq(Parts)
    BY <2>1 DEF Names
  <2> QED
    BY <2>1, <2>2, FS_EmptySet DEF WalkFits
<1>2. WalkFits /\ [CalcNext]_calcVars => WalkFits'
  <2> SUFFICES ASSUME WalkFits, [CalcNext]_calcVars PROVE WalkFits'
    OBVIOUS
  <2>1. CASE UNCHANGED restVars
    BY <2>1 DEF restVars, WalkFits, Parts, Names
  <2>2. CASE WriteParam
    <3>1. PICK n \in left : qs' = Append(qs, Part(n, request.params[n])) /\ left' = left \ {n}
      BY <2>2 DEF WriteParam
    <3>2. rest = "walk" /\ UNCHANGED <<request, rest>>
      BY <2>2 DEF WriteParam
    <3>3. /\ request \in Requests /\ qs \in Seq(Parts) /\ left \subseteq DOMAIN request.params
          /\ Names(qs) = DOMAIN request.params \ left
          /\ IsFiniteSet(Names(qs)) /\ Cardinality(Names(qs)) = Len(qs)
      BY <3>2 DEF WalkFits
    <3> DEFINE x == Part(n, request.params[n])
    <3>4. x \in Parts /\ x.name = n /\ n \notin Names(qs) /\ n \in DOMAIN request.params
      BY <3>1, <3>3 DEF Parts, Part
    <3> HIDE DEF x
    <3>5. Names(qs') = Names(qs) \cup {n} /\ Len(qs') = Len(qs) + 1 /\ qs' \in Seq(Parts)
      <4>1. Names(Append(qs, x)) = Names(qs) \cup {x.name}
        BY <3>3, AppendNames
      <4>2. Len(Append(qs, x)) = Len(qs) + 1 /\ Append(qs, x) \in Seq(Parts)
        BY <3>3, <3>4
      <4> QED
        BY <3>1, <3>4, <4>1, <4>2 DEF x
    <3>6. IsFiniteSet(Names(qs) \cup {n}) /\ Cardinality(Names(qs) \cup {n}) = Cardinality(Names(qs)) + 1
      BY <3>3, <3>4, FS_AddElement
    <3>7. Parts' = Parts
      BY <3>2 DEF Parts
    <3>8. Names(qs)' = Names(qs')
      BY DEF Names
    <3>9. Names(qs') = DOMAIN request.params \ left'
      BY <3>1, <3>3, <3>4, <3>5
    <3> QED
      BY <3>1, <3>2, <3>3, <3>5, <3>6, <3>7, <3>8, <3>9 DEF WalkFits
  <2>3. CASE SendSigned \/ SendPlain
    <3>1. Parts' = Parts /\ Names(qs)' = Names(qs)
      BY <2>3 DEF SendSigned, SendPlain, Parts, Names
    <3> QED
      BY <2>3, <3>1 DEF SendSigned, SendPlain, WalkFits
  <2> QED
    BY <2>1, <2>2, <2>3 DEF CalcNext, RestNext, Ready, SwapBuy, SwapSell, BuyEth, SellEth,
                            Encrypt, Decrypt, calcVars
<1> QED
  BY <1>1, <1>2, PTL DEF CalcSpec

\* What the calls of the client have in common.
LEMMA RequestsFit ==
  ASSUME NEW r \in Requests
  PROVE  /\ {"timestamp", "signature"} \cap DOMAIN r.params = {}
         /\ "type" \in DOMAIN r.params /\ r.params["type"] = "MARKET" =>
              {"price", "timeInForce"} \cap DOMAIN r.params = {}
         /\ "type" \in DOMAIN r.params /\ r.params["type"] = "LIMIT" =>
              {"price", "timeInForce"} \subseteq DOMAIN r.params
         /\ "type" \in DOMAIN r.params /\ r.params["type"] \in {"REPAY", "BORROW"} =>
              "amount" \in DOMAIN r.params /\ r.params["amount"] = "positive"
<1>1. ASSUME NEW s \in Sides, NEW t \in Tifs, r.params = OrderParams(s, t)
      PROVE  /\ DOMAIN r.params = OrderNames(t)
             /\ r.params["type"] = IF t = "MARKET" THEN "MARKET" ELSE "LIMIT"
  BY <1>1 DEF OrderParams, OrderNames
<1>2. ASSUME NEW s \in Sides, NEW t \in Tifs, r.params = OrderParams(s, t)
      PROVE  /\ {"timestamp", "signature"} \cap DOMAIN r.params = {}
             /\ r.params["type"] = "MARKET" => {"price", "timeInForce"} \cap DOMAIN r.params = {}
             /\ r.params["type"] = "LIMIT" => {"price", "timeInForce"} \subseteq DOMAIN r.params
             /\ r.params["type"] \notin {"REPAY", "BORROW"}
  BY <1>1, <1>2 DEF OrderNames, Tifs
<1>3. ASSUME NEW v \in Amounts, r.params = RepayParams(v)
      PROVE  /\ DOMAIN r.params = {"type", "asset", "amount"}
             /\ r.params["type"] \in {"BORROW", "REPAY"} /\ r.params["amount"] = "positive"
  BY <1>3 DEF RepayParams
<1>4. ASSUME NEW v \in Amounts, r.params = TransferParams(v)
      PROVE  DOMAIN r.params = {"type", "asset", "amount"} /\ r.params["type"] = "MAIN_MARGIN"
  BY <1>4 DEF TransferParams
<1>5. CASE r.params \in {InterestParams, RenewParams, NoParams}
  BY <1>5 DEF InterestParams, RenewParams, NoParams
<1>6. \/ \E s \in Sides, t \in Tifs : r.params = OrderParams(s, t)
      \/ \E v \in Amounts : r.params = RepayParams(v)
      \/ \E v \in Amounts : r.params = TransferParams(v)
      \/ r.params \in {InterestParams, RenewParams, NoParams}
  BY DEF Requests
<1> QED
  BY <1>2, <1>3, <1>4, <1>5, <1>6

\* Whatever order req walks the parameters in, it sends what it signed, each of them
\* once, and the parameters that Binance takes together.
THEOREM RequestsAreWellFormed == CalcSpec => []RequestWellFormed
<1>1. WalkFits => RequestWellFormed
  <2> SUFFICES ASSUME WalkFits, rest = "sent" PROVE RequestWellFormed
    BY DEF RequestWellFormed
  <2>1. /\ request \in Requests /\ qs \in Seq(Parts)
        /\ Names(qs) = DOMAIN request.params
        /\ IsFiniteSet(Names(qs)) /\ Cardinality(Names(qs)) = Len(qs)
        /\ IF request.auth THEN signed = Append(qs, Timestamp) /\ sent = Append(signed, Signature)
                           ELSE sent = qs
    BY DEF WalkFits
  <2>2. {"timestamp", "signature"} \cap Names(qs) = {}
    BY <2>1, RequestsFit
  <2>3. Timestamp.name = "timestamp" /\ Signature.name = "signature"
    BY DEF Timestamp, Signature, Part
  \* What is sent beside the parameters.
  <2>4. request.auth => /\ Names(sent) = Names(qs) \cup {"timestamp", "signature"}
                        /\ Len(sent) = Len(qs) + 2
                        /\ sent \in Seq(Parts \cup {Timestamp} \cup {Signature})
    <3> HAVE request.auth
    <3> DEFINE ts == Timestamp
               sg == Signature
               S == Parts
               R == S \cup {ts}
    <3>0. /\ qs \in Seq(S) /\ signed = Append(qs, ts) /\ sent = Append(signed, sg)
          /\ ts.name = "timestamp" /\ sg.name = "signature"
      BY <2>1, <2>3
    <3> HIDE DEF ts, sg, S
    <3>1. /\ Names(signed) = Names(qs) \cup {"timestamp"} /\ Len(signed) = Len(qs) + 1
          /\ signed \in Seq(R)
      BY <3>0, AppendNames
    <3> HIDE DEF R
    <3>2. /\ Names(sent) = Names(signed) \cup {"signature"} /\ Len(sent) = Len(signed) + 1
          /\ sent \in Seq(R \cup {sg})
      <4>1. /\ Names(Append(signed, sg)) = Names(signed) \cup {sg.name}
            /\ Len(Append(signed, sg)) = Len(signed) + 1
            /\ Append(signed, sg) \in Seq(R \cup {sg})
        BY <3>1, AppendNames
      <4> QED
        BY <3>0, <4>1
    <3>3. Len(qs) \in Nat
      BY <2>1
    <3> QED
      BY <3>1, <3>2, <3>3 DEF R, S, ts, sg
  <2>5. Len(sent) = Cardinality(Names(sent))
    <3>1. CASE request.auth
      <4>1. /\ IsFiniteSet(Names(qs) \cup {"timestamp"})
            /\ Cardinality(Names(qs) \cup {"timestamp"}) = Len(qs) + 1
        <5> DEFINE N == Names(qs)
        <5>1. IsFiniteSet(N) /\ Cardinality(N) = Len(qs) /\ "timestamp" \notin N
          BY <2>1, <2>2
        <5> HIDE DEF N
        <5> QED
          BY <5>1, FS_AddElement DEF N
      <4>2. Cardinality((Names(qs) \cup {"timestamp"}) \cup {"signature"}) = Len(qs) + 1 + 1
        BY <2>2, <4>1, FS_AddElement
      <4>3. (Names(qs) \cup {"timestamp"}) \cup {"signature"} = Names(sent)
        BY <2>4, <3>1
      <4>4. Len(qs) \in Nat /\ Len(qs) + 1 + 1 = Len(qs) + 2
        BY <2>1
      <4>5. Cardinality(Names(sent)) = Len(qs) + 2
        BY <4>2, <4>3, <4>4
      <4> QED
        BY <2>4, <3>1, <4>5
    <3> QED
      BY <2>1, <3>1
  \* A value in what is sent is that of the parameter of its name.
  <2>6. ASSUME NEW m \in {"type", "amount"}, NEW v \in Value(sent, m)
        PROVE  m \in DOMAIN request.params /\ v = request.params[m]
    <3>1. sent \in Seq(Parts \cup {Timestamp} \cup {Signature})
      BY <2>1, <2>4
    <3>2. PICK j \in 1..Len(sent) : sent[j].name = m /\ v = sent[j].value
      BY <2>6 DEF Value
    <3>3. sent[j] \in Parts
      <4>1. sent[j] \in Parts \cup {Timestamp} \cup {Signature}
        BY <3>1
      <4> QED
        BY <2>3, <3>2, <4>1
    <3>4. PICK n \in DOMAIN request.params : sent[j] = Part(n, request.params[n])
      BY <3>3 DEF Parts
    <3> QED
      BY <3>2, <3>4 DEF Part
  <2>7. Names(sent) \cap {"price", "timeInForce"} = DOMAIN request.params \cap {"price", "timeInForce"}
    BY <2>1, <2>4
  <2>8. Value(sent, "type") = {"MARKET"} => Names(sent) \cap {"price", "timeInForce"} = {}
    BY <2>1, <2>6, <2>7, RequestsFit
  <2>9. Value(sent, "type") = {"LIMIT"} => {"price", "timeInForce"} \subseteq Names(sent)
    BY <2>1, <2>6, <2>7, RequestsFit
  <2>10. Value(sent, "type") \in {{"REPAY"}, {"BORROW"}} => Value(sent, "amount") = {"positive"}
    <3> HAVE Value(sent, "type") \in {{"REPAY"}, {"BORROW"}}
    <3>1. "type" \in DOMAIN request.params /\ request.params["type"] \in {"REPAY", "BORROW"}
      <4>1. PICK v \in {"REPAY", "BORROW"} : v \in Value(sent, "type")
        OBVIOUS
      <4> QED
        BY <2>6, <4>1
    <3>2. "amount" \in DOMAIN request.params /\ request.params["amount"] = "positive"
      BY <2>1, <3>1, RequestsFit
    <3>3. "amount" \in Names(sent)
      BY <2>1, <2>4, <3>2
    <3>4. PICK i \in 1..Len(sent) : sent[i].name = "amount"
      BY <3>3 DEF Names
    <3> DEFINE w == sent[i].value
               at == {j \in 1..Len(sent) : sent[j].name = "amount"}
    <3>5. w \in Value(sent, "amount")
      <4>1. i \in at
        BY <3>4
      <4>2. w \in {sent[j].value : j \in at}
        <5> HIDE DEF at
        <5> QED
          BY <4>1
      <4> QED
        BY <4>2 DEF Value
    <3>6. \A v \in Value(sent, "amount") : v = "positive"
      BY <2>6, <3>2
    <3> QED
      BY <3>5, <3>6
  <2> QED
    BY <2>1, <2>2, <2>5, <2>8, <2>9, <2>10 DEF RequestWellFormed
<1> QED
  BY <1>1, WalkInvariant, PTL

=============================================================================
