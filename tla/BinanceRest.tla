---------------------------- MODULE BinanceRest -----------------------------
(***************************************************************************)
(* The requests of the Binance client (exchange/binance.go) and how req    *)
(* builds and signs them.  The parameters are a Go map: it is walked once, *)
(* in an order that is another one each time.  The HTTP client, the        *)
(* signature itself and Binance are external; what the answers lead to is  *)
(* in Arbitrage.                                                           *)
(***************************************************************************)
EXTENDS Naturals, Sequences, FiniteSets

VARIABLES
  request,  \* the call: its parameters, as a function of their names, and auth
  left,     \* the parameters not yet written
  qs,       \* the query string so far, as a sequence of its parts
  signed,   \* what the signature was computed from
  sent,     \* "no", or what is sent: the query
  rest      \* "idle", "walk" or "sent"

restVars == <<request, left, qs, signed, sent, rest>>

Part(name, value) == [name |-> name, value |-> value]
Signature == Part("signature", "of what is signed")
Timestamp == Part("timestamp", "now")

-----------------------------------------------------------------------------
(* The parameters of each call. *)

Sides == {"BUY", "SELL"}
Tifs  == {"IOC", "GTC", "MARKET"}
Amounts == {"positive", "negative"}

\* A variant with a bug: timeInForce with a market order too, which Binance refuses.
OrderNames_Tif(tif) ==
  {"symbol", "quantity", "sideEffectType", "side", "type", "timeInForce"}
  \cup (IF tif = "MARKET" THEN {} ELSE {"price"})

OrderNames(tif) ==
  {"symbol", "quantity", "sideEffectType", "side", "type"}
  \cup (IF tif = "MARKET" THEN {} ELSE {"price", "timeInForce"})

OrderParams(side, tif) ==
  [n \in OrderNames(tif) |->
     CASE n = "side" -> side
       [] n = "type" -> IF tif = "MARKET" THEN "MARKET" ELSE "LIMIT"
       [] n = "timeInForce" -> tif
       [] OTHER -> "given"]

\* A negative amount is borrowed instead.  A positive one may be zero as well.
RepayParams(amount) ==
  [type |-> IF amount = "negative" THEN "BORROW" ELSE "REPAY",
   asset |-> "given", amount |-> "positive"]

\* What the caller asks for is passed on, whatever its sign.
TransferParams(amount) == [type |-> "MAIN_MARGIN", asset |-> "given", amount |-> amount]
InterestParams == [assets |-> "given", isIsolated |-> "FALSE"]
RenewParams    == [listenKey |-> "given"]
NoParams       == [n \in {} |-> "given"]

\* The listen key's calls carry only the API key; the others are signed.
Requests ==
  {[auth |-> TRUE, params |-> OrderParams(s, t)] : s \in Sides, t \in Tifs}
  \cup {[auth |-> TRUE, params |-> RepayParams(a)] : a \in Amounts}
  \cup {[auth |-> TRUE, params |-> TransferParams(a)] : a \in Amounts}
  \cup {[auth |-> TRUE, params |-> p] : p \in {InterestParams, NoParams}}
  \cup {[auth |-> FALSE, params |-> p] : p \in {RenewParams, NoParams}}

RestIdle ==
  /\ request = [auth |-> FALSE, params |-> NoParams]
  /\ rest = "idle" /\ left = {} /\ qs = <<>> /\ signed = <<>> /\ sent = <<>>

RestInit ==
  /\ request \in Requests
  /\ rest = "walk" /\ left = DOMAIN request.params
  /\ qs = <<>> /\ signed = <<>> /\ sent = <<>>

-----------------------------------------------------------------------------
(* req *)

WriteParam ==
  /\ rest = "walk"
  /\ \E n \in left :
       /\ qs' = Append(qs, Part(n, request.params[n]))
       /\ left' = left \ {n}
  /\ UNCHANGED <<request, signed, sent, rest>>

SendSigned ==
  /\ rest = "walk" /\ left = {} /\ request.auth
  /\ signed' = Append(qs, Timestamp)
  /\ sent' = Append(signed', Signature)
  /\ rest' = "sent"
  /\ UNCHANGED <<request, left, qs>>

SendPlain ==
  /\ rest = "walk" /\ left = {} /\ ~request.auth
  /\ sent' = qs /\ rest' = "sent"
  /\ UNCHANGED <<request, left, qs, signed>>

RestNext == WriteParam \/ SendSigned \/ SendPlain

-----------------------------------------------------------------------------
(* Properties. *)

Names(q) == {q[i].name : i \in 1..Len(q)}
Value(q, name) == {q[i].value : i \in {j \in 1..Len(q) : q[j].name = name}}

\* What Binance is sent is what was signed, whatever order the map was walked in;
\* every parameter is there once; a market order has neither a price nor a time in
\* force, a limit order has both; what is repaid or borrowed is never negative.
RequestWellFormed ==
  rest = "sent" =>
    /\ Len(sent) = Cardinality(Names(sent))
    /\ IF request.auth
         THEN sent = Append(signed, Signature) /\ signed = Append(qs, Timestamp)
         ELSE Names(sent) \cap {"timestamp", "signature"} = {}
    /\ Names(qs) = DOMAIN request.params
    /\ Value(sent, "type") = {"MARKET"} => Names(sent) \cap {"price", "timeInForce"} = {}
    /\ Value(sent, "type") = {"LIMIT"} => {"price", "timeInForce"} \subseteq Names(sent)
    /\ Value(sent, "type") \in {{"REPAY"}, {"BORROW"}} => Value(sent, "amount") = {"positive"}

=============================================================================
