----------------------------- MODULE MCUniBroker -----------------------------
(* UniBroker on two pairs that share a token. *)
EXTENDS UniBroker

CONSTANTS usdc, wftm, dai

TwoPairs == <<usdc, wftm, usdc, dai>>
OnePair  == <<usdc, wftm>>
=============================================================================
