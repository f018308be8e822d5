----------------------------- MODULE LogDelivery -----------------------------
(***************************************************************************)
(* What the event half of the bindings promises its caller: the logs asked *)
(* for, each once and in the order of the chain.  A stream that says it is *)
(* at its end has given everything, unless it was stopped; a stream fails  *)
(* only when it was stopped or at the first log that does not unpack; and  *)
(* after either, nothing more comes.                                       *)
(***************************************************************************)
EXTENDS Naturals, Sequences

CONSTANTS
  Item,  \* logs
  Good   \* those that unpack

VARIABLES
  asked,      \* the logs asked for, so far
  delivered,  \* the logs given
  stopped,    \* closed by the caller, or broken off by the node
  state       \* "open", "ended" or "failed"

deliveryVars == <<asked, delivered, stopped, state>>

DeliveryInit == asked = <<>> /\ delivered = <<>> /\ stopped = FALSE /\ state = "open"

Undelivered == Len(delivered) < Len(asked)
Upcoming    == asked[Len(delivered) + 1]

Ask ==
  /\ state = "open"
  /\ \E l \in Item : asked' = Append(asked, l)
  /\ UNCHANGED <<delivered, stopped, state>>

Deliver ==
  /\ state = "open"
  /\ Undelivered /\ Upcoming \in Good
  /\ delivered' = Append(delivered, Upcoming)
  /\ UNCHANGED <<asked, stopped, state>>

Stop ==
  /\ stopped' = TRUE
  /\ UNCHANGED <<asked, delivered, state>>

End ==
  /\ state = "open"
  /\ delivered = asked \/ stopped
  /\ state' = "ended"
  /\ UNCHANGED <<asked, delivered, stopped>>

Fail ==
  /\ state = "open"
  /\ stopped \/ (Undelivered /\ Upcoming \notin Good)
  /\ state' = "failed" /\ stopped' \in {stopped, TRUE}
  /\ UNCHANGED <<asked, delivered>>

DeliveryNext == Ask \/ Deliver \/ Stop \/ End \/ Fail

DeliverySpec == DeliveryInit /\ [][DeliveryNext]_deliveryVars

=============================================================================
