------------------------------ MODULE UniWallet ------------------------------
(***************************************************************************)
(* How UniBroker (exchange/uniswap.go) sends transactions of its one       *)
(* account.  Every operation that sends one (Approve in Mainloop, BuyEth,  *)
(* SellEth, TransferEth, Swap) has the same shape:                         *)
(*                                                                         *)
(*     sign with u.nonce ; SendTransaction ; on error return it ;          *)
(*     u.nonce += 1 ; bind.WaitMined ; look at the receipt's status        *)
(*                                                                         *)
(* u.nonce is a cache: NonceAt(latest) is read once, by NewUniBroker.      *)
(* Only the main goroutine runs these operations, so one is in progress    *)
(* at a time.  The caller is arbitrary here: modules UniBroker and         *)
(* Arbitrage fix it and are shown to implement WalletSpec.                 *)
(*                                                                         *)
(* The network, the node's transaction pool and the chain are external;    *)
(* they are modelled from how go-ethereum's client is used.  The chain's   *)
(* nonces are counted from the value they have before the first start.     *)
(***************************************************************************)
EXTENDS Naturals, FiniteSets

CONSTANTS
  Calls,      \* what a transaction asks of the chain
  NoTx,       \* not a transaction
  Faults,     \* which faults the environment may exhibit, a subset of AllFaults
  MaxTx,      \* bound: transactions signed in a behaviour
  MaxStarts   \* bound: starts of the process in a behaviour

AllFaults ==
  { "refuse",  \* the node refuses a transaction it could take (funds, limits, RPC down)
    "lost",    \* the node took the transaction but the answer does not arrive
    "late",    \* the client gives up while the request is on its way; it may arrive later
    "drop",    \* the pool drops a transaction that was not mined
    "crash",   \* the process dies between any two steps; so it does on a log.Fatalln
               \* of its other goroutines (exchange/uniswap.go:256, 284, 313)
    "revert",  \* (Arbitrage) a transaction fails on the chain though it could be executed
    "slow" }   \* (Arbitrage) a deposit is credited later than the program sleeps

Tx == [id : Nat, nonce : Nat, call : Calls]

ASSUME WalletAssumption ==
  /\ NoTx \notin Tx
  /\ Faults \subseteq AllFaults
  /\ MaxTx \in Nat /\ MaxStarts \in Nat

VARIABLES
  phase,       \* "down", "idle", "sending" (in SendTransaction) or "waiting" (in WaitMined)
  nonce,       \* u.nonce
  cur,         \* the transaction being sent or waited for
  result,      \* what the last operation of this process returned: "none", "ok", "err"
  starts,      \* how many times the process was started
  signed,      \* how many transactions were signed (their ids)
  answer,      \* the node's answer to cur on its way back: "none", "ok", "err"
  wire,        \* requests on their way to the node
  pool,        \* the node's pending transactions of this account
  chainNonce,  \* the account's nonce at the latest block
  mined        \* what was mined: records of the transaction and its status

procVars   == <<phase, nonce, cur, result, starts, signed>>
nodeVars   == <<answer, wire, pool, chainNonce, mined>>
walletVars == <<procVars, nodeVars>>

WalletTypeOK ==
  /\ phase \in {"down", "idle", "sending", "waiting"}
  /\ nonce \in Nat
  /\ cur \in Tx \cup {NoTx}
  /\ result \in {"none", "ok", "err"}
  /\ starts \in Nat /\ signed \in Nat
  /\ answer \in {"none", "ok", "err"}
  /\ wire \subseteq Tx /\ pool \subseteq Tx
  /\ chainNonce \in Nat
  /\ mined \subseteq [tx : Tx, ok : BOOLEAN]

WalletInit ==
  /\ phase = "down" /\ nonce = 0 /\ cur = NoTx /\ result = "none"
  /\ starts = 0 /\ signed = 0
  /\ answer = "none" /\ wire = {} /\ pool = {} /\ chainNonce = 0 /\ mined = {}

-----------------------------------------------------------------------------
(* Variants of the actions below with a plausible bug, to show what the       *)
(* properties of this module detect.                                          *)

\* NewUniBroker that does not ask the chain.
NewUniBroker_FromZero ==
  /\ phase = "down" /\ starts < MaxStarts
  /\ phase' = "idle" /\ nonce' = 0 /\ starts' = starts + 1
  /\ UNCHANGED <<cur, result, signed, nodeVars>>

\* NewUniBroker that counts what is pending, as PendingNonceAt would.
NewUniBroker_Pending ==
  /\ phase = "down" /\ starts < MaxStarts
  /\ phase' = "idle" /\ nonce' = chainNonce + Cardinality(pool) /\ starts' = starts + 1
  /\ UNCHANGED <<cur, result, signed, nodeVars>>

\* An operation that bumps the nonce before it looks at the error.
SendErr_Bumps ==
  /\ phase = "sending"
  /\ \/ answer = "err"
     \/ answer = "ok" /\ "lost" \in Faults
     \/ answer = "none" /\ "late" \in Faults
  /\ phase' = "idle" /\ result' = "err" /\ cur' = NoTx /\ answer' = "none"
  /\ nonce' = nonce + 1
  /\ UNCHANGED <<starts, signed, wire, pool, chainNonce, mined>>

\* WaitMined that keeps polling when the status is failed.
WaitMined_OnlyOk ==
  /\ phase = "waiting"
  /\ \E m \in mined : m.tx = cur /\ m.ok
  /\ phase' = "idle" /\ cur' = NoTx /\ result' = "ok"
  /\ UNCHANGED <<nonce, starts, signed, nodeVars>>

-----------------------------------------------------------------------------
(* The process. *)

\* NewUniBroker: the nonce cache is filled from the latest block, so what is
\* still pending in the pool is not counted.
NewUniBroker ==
  /\ phase = "down" /\ starts < MaxStarts
  /\ phase' = "idle"
  /\ nonce' = chainNonce
  /\ starts' = starts + 1
  /\ UNCHANGED <<cur, result, signed, nodeVars>>

\* An operation signs its transaction with the cached nonce and hands it to
\* SendTransaction.
Send(c) ==
  /\ phase = "idle" /\ signed < MaxTx
  /\ phase' = "sending"
  /\ cur' = [id |-> signed + 1, nonce |-> nonce, call |-> c]
  /\ signed' = signed + 1
  /\ result' = "none"
  /\ answer' = "none"
  /\ wire' = wire \cup {cur'}
  /\ UNCHANGED <<nonce, starts, pool, chainNonce, mined>>

\* SendTransaction returns nil: the nonce is bumped, WaitMined begins.
SendOk ==
  /\ phase = "sending" /\ answer = "ok"
  /\ phase' = "waiting"
  /\ nonce' = nonce + 1
  /\ answer' = "none"
  /\ UNCHANGED <<cur, result, starts, signed, wire, pool, chainNonce, mined>>

\* SendTransaction returns an error, which the operation returns at once: the
\* nonce stays.  The error is the node's, or the transport's after the node
\* took the transaction, or the transport's while the request is on its way.
SendErr ==
  /\ phase = "sending"
  /\ \/ answer = "err"
     \/ answer = "ok" /\ "lost" \in Faults
     \/ answer = "none" /\ "late" \in Faults
  /\ phase' = "idle"
  /\ result' = "err"
  /\ cur' = NoTx
  /\ answer' = "none"
  /\ UNCHANGED <<nonce, starts, signed, wire, pool, chainNonce, mined>>

\* WaitMined polls for the receipt of cur until there is one (its context has
\* no deadline); the operation returns an error when the status is failed.
WaitMined ==
  /\ phase = "waiting"
  /\ \E m \in mined :
       /\ m.tx = cur
       /\ result' = IF m.ok THEN "ok" ELSE "err"
  /\ phase' = "idle"
  /\ cur' = NoTx
  /\ UNCHANGED <<nonce, starts, signed, nodeVars>>

\* The process ends (log.Fatalln, panic or a crash) and its memory is gone;
\* requests it sent are not.
Exit ==
  /\ phase # "down"
  /\ phase' = "down"
  /\ nonce' = 0 /\ cur' = NoTx /\ result' = "none" /\ answer' = "none"
  /\ UNCHANGED <<starts, signed, wire, pool, chainNonce, mined>>

Crash == "crash" \in Faults /\ Exit

-----------------------------------------------------------------------------
(* The node and the chain (external). *)

SameNonce(tx) == {t \in pool : t.nonce = tx.nonce}

\* The node takes a transaction whose nonce is not used up; one that was
\* pending with the same nonce is replaced.
NodeAccept(tx) ==
  /\ tx \in wire /\ tx.nonce >= chainNonce
  /\ pool' = (pool \ SameNonce(tx)) \cup {tx}
  /\ wire' = wire \ {tx}
  /\ answer' = IF tx = cur THEN "ok" ELSE answer
  /\ UNCHANGED <<procVars, chainNonce, mined>>

\* The node refuses: nonce too low, replacement underpriced, or any other
\* reason when "refuse" is among the faults.
NodeReject(tx) ==
  /\ tx \in wire
  /\ \/ tx.nonce < chainNonce
     \/ SameNonce(tx) # {}
     \/ "refuse" \in Faults
  /\ wire' = wire \ {tx}
  /\ answer' = IF tx = cur THEN "err" ELSE answer
  /\ UNCHANGED <<procVars, pool, chainNonce, mined>>

\* A block includes the pending transaction that has the account's nonce; it is
\* executed or fails.  Whatever its status, the nonce is used up and gas is paid.
Mine(tx, ok) ==
  /\ tx \in pool /\ tx.nonce = chainNonce
  /\ pool' = pool \ {tx}
  /\ chainNonce' = chainNonce + 1
  /\ mined' = mined \cup {[tx |-> tx, ok |-> ok]}
  /\ UNCHANGED <<procVars, answer, wire>>

\* The pool drops a pending transaction.
Drop(tx) ==
  /\ "drop" \in Faults
  /\ tx \in pool
  /\ pool' = pool \ {tx}
  /\ UNCHANGED <<procVars, answer, wire, chainNonce, mined>>

-----------------------------------------------------------------------------
(* The caller of this module uses the operations in any order and may exit   *)
(* whenever an operation has returned.                                       *)

NodeStep ==
  \/ \E tx \in wire : NodeAccept(tx) \/ NodeReject(tx)
  \/ \E tx \in pool :
       \/ \E ok \in BOOLEAN : Mine(tx, ok)
       \/ Drop(tx)

ProcStep ==
  \/ NewUniBroker
  \/ \E c \in Calls : Send(c)
  \/ SendOk \/ SendErr \/ WaitMined
  \/ phase = "idle" /\ Exit
  \/ Crash

WalletNext == ProcStep \/ NodeStep

WalletSpec == WalletInit /\ [][WalletNext]_walletVars

\* The node answers what reaches it and blocks keep including what is pending.
NodeFairness ==
  /\ WF_walletVars(\E tx \in wire : NodeAccept(tx) \/ NodeReject(tx))
  /\ WF_walletVars(\E tx \in pool, ok \in BOOLEAN : Mine(tx, ok))

-----------------------------------------------------------------------------
(* Properties. *)

Up == phase # "down"
Behind == phase \in {"idle", "sending"} /\ answer # "ok" /\ nonce < chainNonce

\* One operation at a time keeps the account to one pending transaction, even
\* when answers are lost, requests arrive late and the process restarts with
\* transactions in the pool: nothing is ever queued behind another one
\* (u.nonce is read from the latest block and bumped once per answer, 81, 479).
AtMostOneUnmined == Cardinality(pool) <= 1

\* No transaction on its way or pending is ahead of the chain: the cached nonce
\* may fall behind, it never leaves a hole that would block the account for good.
NoNonceGap == \A tx \in wire \cup pool : tx.nonce <= chainNonce

\* The cached nonce is never ahead of the chain but for the transaction waited
\* for, and at most one mined transaction is missing from it: after that one
\* every operation is refused, so a process pays for at most one transaction
\* whose operation returned an error without waiting.
CacheLagsByAtMostOne ==
  Up => /\ chainNonce <= nonce + 1
        /\ nonce <= chainNonce + (IF phase = "waiting" THEN 1 ELSE 0)

\* Once the cache is behind the chain (and no good answer is on its way) it
\* stays there until the process ends: no later operation is accepted, none
\* bumps the nonce, waits or succeeds; only NewUniBroker heals it.
WedgedUntilRestart == [][Behind => Behind' \/ ~Up']_walletVars

\* An operation may return an error although its transaction is executed, or is
\* executed later (475: only the answer was lost).  The caller cannot know, and
\* onTick tries again (main.go:73).  It is safe: a process that was told of a failure
\* that was none is behind the chain, and can have nothing more executed.
RetryIsSafe ==
  phase = "idle" /\ result = "err" => \A m \in mined : m.ok /\ m.tx.id = signed => Behind

\* The transaction waited for is neither mined nor able to be: the pool dropped it,
\* or replaced it by one that an earlier request left behind.
Orphaned == phase = "waiting" /\ cur \notin wire \cup pool \cup {m.tx : m \in mined}

\* "不管成功失败只要给过 Gas 费 nonce 就自增" (exchange/uniswap.go:169, 624, 688, 732):
\* whenever gas was paid, whatever the outcome, the nonce has been bumped.
\* Compared between operations.
GasPaidMeansNonceBumped == phase = "idle" => chainNonce <= nonce

=============================================================================
