------------------------------ MODULE UniBroker ------------------------------
(***************************************************************************)
(* UniBroker from NewUniBroker to the operations (exchange/uniswap.go):    *)
(* Mainloop walks the tokens of the configured pairs, asks the allowance   *)
(* of each and, when it is zero, approves the router and waits; any error  *)
(* ends the process.  Only then does it return, and the caller may use     *)
(* BuyEth, SellEth, TransferEth and Swap.  The transactions go through     *)
(* UniWallet, so a process may die with an approval pending and the next   *)
(* one meets it.                                                           *)
(*                                                                         *)
(* A token's approval is also the call that sends it: a token is a member  *)
(* of Calls.  10^24 units of allowance are taken as inexhaustible.         *)
(***************************************************************************)
EXTENDS UniWallet, Sequences

CONSTANTS
  ApprovalOrder,  \* Token0, Token1 of each pair of the configuration, in order
  Operations      \* the calls the operations make

Tokens == {ApprovalOrder[i] : i \in 1..Len(ApprovalOrder)}

ASSUME BrokerAssumption ==
  /\ ApprovalOrder \in Seq(Calls) /\ Len(ApprovalOrder) > 0
  /\ Operations \subseteq Calls
  /\ Operations \cap Tokens = {}

VARIABLES
  pc,   \* "off", "allow", "approve", "approving", "fatal" or "serving"
  idx   \* where Mainloop is in ApprovalOrder

brokerVars == <<pc, idx, walletVars>>

BrokerTypeOK ==
  /\ WalletTypeOK
  /\ pc \in {"off", "allow", "approve", "approving", "fatal", "serving"}
  /\ idx \in 1..(Len(ApprovalOrder) + 1)

BrokerInit == WalletInit /\ pc = "off" /\ idx = 1

\* The allowance of a token is not zero at the latest block.
Allowed(t) == \E m \in mined : m.ok /\ m.tx.call = t

-----------------------------------------------------------------------------
(* Variants of the actions below with a plausible bug, to show what the       *)
(* properties of this module detect.                                          *)

\* A loop that does not look at the receipt's status.
ApproveMined_AnyStatus ==
  /\ pc = "approving" /\ WaitMined
  /\ pc' = "allow" /\ idx' = idx + 1

\* A loop that asks again for the token it has just approved.
ApproveMined_NoAdvance ==
  /\ pc = "approving" /\ WaitMined
  /\ pc' = "approve"
  /\ UNCHANGED idx

\* An operation run in a goroutine of its own, beside one that waits.
Operate_Unserialised(c) ==
  /\ pc = "serving" /\ phase \in {"idle", "waiting"} /\ signed < MaxTx
  /\ phase' = "sending"
  /\ cur' = [id |-> signed + 1, nonce |-> nonce, call |-> c]
  /\ signed' = signed + 1 /\ result' = "none" /\ answer' = "none"
  /\ wire' = wire \cup {cur'}
  /\ UNCHANGED <<pc, idx, nonce, starts, pool, chainNonce, mined>>

-----------------------------------------------------------------------------
(* Mainloop. *)

\* NewUniBroker, then Mainloop up to its loop.
Boot ==
  /\ pc = "off" /\ NewUniBroker
  /\ pc' = "allow" /\ idx' = 1

\* The allowance is read: the next token, or approve this one.
AskAllowance ==
  /\ pc = "allow" /\ idx <= Len(ApprovalOrder)
  /\ IF Allowed(ApprovalOrder[idx])
       THEN idx' = idx + 1 /\ pc' = pc
       ELSE idx' = idx /\ pc' = "approve"
  /\ UNCHANGED walletVars

\* A query of Mainloop fails: reserves, balance or an allowance.
QueryFails ==
  /\ pc = "allow" /\ idx <= Len(ApprovalOrder) /\ "lost" \in Faults
  /\ pc' = "fatal"
  /\ UNCHANGED <<idx, walletVars>>

Approve ==
  /\ pc = "approve" /\ Send(ApprovalOrder[idx])
  /\ pc' = "approving"
  /\ UNCHANGED idx

ApproveSent ==
  /\ pc = "approving" /\ SendOk
  /\ UNCHANGED <<pc, idx>>

ApproveRefused ==
  /\ pc = "approving" /\ SendErr
  /\ pc' = "fatal"
  /\ UNCHANGED idx

ApproveMined ==
  /\ pc = "approving" /\ WaitMined
  /\ \/ result' = "ok" /\ pc' = "allow" /\ idx' = idx + 1
     \/ result' = "err" /\ pc' = "fatal" /\ idx' = idx

\* log.Fatalln.
Fatal ==
  /\ pc = "fatal" /\ Exit
  /\ pc' = "off" /\ idx' = 1

\* Every token has been seen: Mainloop returns.
Serve ==
  /\ pc = "allow" /\ idx > Len(ApprovalOrder)
  /\ pc' = "serving"
  /\ UNCHANGED <<idx, walletVars>>

-----------------------------------------------------------------------------
(* The operations; DeployContract only ever panics. *)

Operate(c) ==
  /\ pc = "serving" /\ Send(c)
  /\ UNCHANGED <<pc, idx>>

OperationGoesOn ==
  /\ pc = "serving"
  /\ SendOk \/ SendErr \/ WaitMined
  /\ UNCHANGED <<pc, idx>>

QuitOrPanic ==
  /\ pc = "serving" /\ phase = "idle" /\ Exit
  /\ pc' = "off" /\ idx' = 1

Die == Crash /\ pc' = "off" /\ idx' = 1

Mainloop ==
  \/ Boot \/ AskAllowance \/ QueryFails \/ Approve \/ ApproveSent \/ ApproveRefused
  \/ ApproveMined \/ Fatal \/ Serve

BrokerNext ==
  \/ Mainloop
  \/ \E c \in Operations : Operate(c)
  \/ OperationGoesOn \/ QuitOrPanic \/ Die
  \/ NodeStep /\ UNCHANGED <<pc, idx>>

BrokerSpec == BrokerInit /\ [][BrokerNext]_brokerVars

\* The main goroutine is not stopped, the node answers and blocks are made.
BrokerFairSpec ==
  BrokerSpec /\ NodeFairness /\ WF_brokerVars(Mainloop) /\ WF_brokerVars(OperationGoesOn)

-----------------------------------------------------------------------------
(* Properties. *)

\* The router is approved at most once per token, whatever is lost, late,
\* dropped or restarted: an approval that is still pending when a new process
\* reads a zero allowance has the nonce of the one that process sends, so the
\* two cannot both be mined.  It rests on the nonce being read before the
\* allowance, and at the latest block (81, 145).
ApprovedOnce ==
  \A m, n \in mined :
    m.ok /\ n.ok /\ m.tx.call \in Tokens /\ m.tx.call = n.tx.call => m = n

\* No operation's transaction leaves the process before every token of every
\* pair is approved, so none can fail for want of an allowance.
OperationsNeedAllowance ==
  \A tx \in wire \cup pool \cup {m.tx : m \in mined} :
    tx.call \in Operations => \A t \in Tokens : Allowed(t)

\* A start ends with the operations available or with the process gone: whatever
\* fails it never hangs in the approvals, unless the node lost the approval it
\* waits for.
StartupEnds == (pc = "allow") ~> (pc \in {"serving", "off"} \/ Orphaned)

=============================================================================
