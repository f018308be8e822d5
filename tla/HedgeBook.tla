------------------------------ MODULE HedgeBook ------------------------------
(***************************************************************************)
(* What the arbitrage promises, seen from its books: how many lots of the  *)
(* base currency it owns, wherever they are, and how many it owes.  A lot  *)
(* is bought, then sold short or out of what is owned, then the debt is    *)
(* repaid with the lot.  Each start of the process may leave at most one   *)
(* lot bought and not hedged; nothing is ever sold that was not bought.    *)
(***************************************************************************)
EXTENDS Naturals

VARIABLES
  long,   \* lots owned
  short,  \* lots owed
  lives   \* starts of the process

bookVars == <<long, short, lives>>

BookInit == long = 0 /\ short = 0 /\ lives = 0

Start == lives' = lives + 1 /\ UNCHANGED <<long, short>>

Buy ==
  /\ long < short + lives
  /\ long' = long + 1
  /\ UNCHANGED <<short, lives>>

\* A sale of a borrowed lot, or of one that is owned.
Hedge ==
  /\ long > short
  /\ \/ short' = short + 1 /\ long' = long
     \/ short' = short /\ long' = long - 1
  /\ UNCHANGED lives

Repay ==
  /\ long > 0 /\ short > 0
  /\ long' = long - 1 /\ short' = short - 1
  /\ UNCHANGED lives

BookNext == Start \/ Buy \/ Hedge \/ Repay

BookSpec == BookInit /\ [][BookNext]_bookVars

=============================================================================
