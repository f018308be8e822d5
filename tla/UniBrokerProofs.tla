--------------------------- MODULE UniBrokerProofs ---------------------------
(***************************************************************************)
(* The broker of any configuration, from its start-up through its          *)
(* operations, is a UniWallet: what UniWalletProofs proves of the account  *)
(* holds of it.                                                            *)
(***************************************************************************)
EXTENDS UniBroker, UniWalletProofs

\* Where Mainloop is in the tokens, and what the wallet does meanwhile: no
\* transaction is in flight but while an approval or an operation is.
BrokerIInv ==
  /\ idx \in 1..(Len(ApprovalOrder) + 1)
  /\ pc \in {"off", "allow", "approve", "approving", "fatal", "serving"}
  /\ pc = "approve" => idx <= Len(ApprovalOrder)
  /\ pc = "approving" => idx <= Len(ApprovalOrder) /\ phase \in {"sending", "waiting"}
  /\ pc \in {"allow", "approve", "fatal"} => phase = "idle"
  /\ pc = "serving" => phase \in {"idle", "sending", "waiting"}
  /\ pc = "off" => phase = "down"

-----------------------------------------------------------------------------
\* Before the first start the broker is off.
LEMMA BrokerInitial == BrokerInit => BrokerIInv
BY BrokerAssumption DEF BrokerInit, WalletInit, BrokerIInv

\* No step moves Mainloop past its tokens or leaves it with a transaction it
\* does not wait for.
LEMMA BrokerInductive == BrokerIInv /\ [BrokerNext]_brokerVars => BrokerIInv'
<1> SUFFICES ASSUME BrokerIInv, [BrokerNext]_brokerVars
             PROVE  BrokerIInv'
  OBVIOUS
<1>1. Len(ApprovalOrder) \in Nat
  BY BrokerAssumption
<1> USE <1>1 DEF BrokerIInv
<1>2. CASE Boot
  BY <1>2 DEF Boot, NewUniBroker
<1>3. CASE AskAllowance
  BY <1>3 DEF AskAllowance, walletVars, procVars
<1>4. CASE QueryFails \/ Serve
  BY <1>4 DEF QueryFails, Serve, walletVars, procVars
<1>5. CASE Approve
  BY <1>5 DEF Approve, Send
<1>6. CASE ApproveSent \/ ApproveRefused
  BY <1>6 DEF ApproveSent, ApproveRefused, SendOk, SendErr
<1>7. CASE ApproveMined
  BY <1>7 DEF ApproveMined, WaitMined
<1>8. CASE Fatal \/ QuitOrPanic \/ Die
  BY <1>8 DEF Fatal, QuitOrPanic, Die, Crash, Exit
<1>9. ASSUME NEW c \in Operations, Operate(c)
      PROVE  BrokerIInv'
  BY <1>9 DEF Operate, Send
<1>10. CASE OperationGoesOn
  BY <1>10 DEF OperationGoesOn, SendOk, SendErr, WaitMined
<1>11. CASE NodeStep /\ UNCHANGED <<pc, idx>>
  <2>1. UNCHANGED procVars
    BY <1>11 DEF NodeStep, NodeAccept, NodeReject, Mine, Drop
  <2> QED
    BY <1>11, <2>1 DEF procVars
<1>12. CASE UNCHANGED brokerVars
  BY <1>12 DEF brokerVars, walletVars, procVars
<1> QED
  BY <1>2, <1>3, <1>4, <1>5, <1>6, <1>7, <1>8, <1>9, <1>10, <1>11, <1>12
     DEF BrokerNext, Mainloop

\* A step of the broker is a step of the wallet, or leaves it alone.
LEMMA BrokerStepIsWalletStep ==
  BrokerIInv /\ [BrokerNext]_brokerVars => [WalletNext]_walletVars
<1> SUFFICES ASSUME BrokerIInv, [BrokerNext]_brokerVars
             PROVE  WalletNext \/ UNCHANGED walletVars
  OBVIOUS
<1>1. CASE AskAllowance \/ QueryFails \/ Serve \/ UNCHANGED brokerVars
  BY <1>1 DEF AskAllowance, QueryFails, Serve, brokerVars
<1>2. CASE Boot
  BY <1>2 DEF Boot, WalletNext, ProcStep
\* What is sent is a token of the configuration, which is a call.
<1>3. CASE Approve
  <2>1. ApprovalOrder[idx] \in Calls
    BY <1>3, BrokerAssumption DEF Approve, BrokerIInv
  <2> QED
    BY <1>3, <2>1 DEF Approve, WalletNext, ProcStep
<1>4. CASE ApproveSent \/ ApproveRefused \/ ApproveMined \/ OperationGoesOn
  BY <1>4 DEF ApproveSent, ApproveRefused, ApproveMined, OperationGoesOn, WalletNext, ProcStep
\* log.Fatalln and a return of main end a process with nothing in flight.
<1>5. CASE Fatal \/ QuitOrPanic
  BY <1>5 DEF Fatal, QuitOrPanic, BrokerIInv, WalletNext, ProcStep
<1>6. CASE Die
  BY <1>6 DEF Die, WalletNext, ProcStep
<1>7. ASSUME NEW c \in Operations, Operate(c)
      PROVE  WalletNext
  BY <1>7, BrokerAssumption DEF Operate, WalletNext, ProcStep
<1>8. CASE NodeStep /\ UNCHANGED <<pc, idx>>
  BY <1>8 DEF WalletNext
<1> QED
  BY <1>1, <1>2, <1>3, <1>4, <1>5, <1>6, <1>7, <1>8 DEF BrokerNext, Mainloop

-----------------------------------------------------------------------------
\* The approvals of Mainloop and the operations after it use the account as
\* UniWallet says, for every configuration, fault and bound.
THEOREM BrokerImplementsWallet == BrokerSpec => WalletSpec
<1>1. BrokerInit => WalletInit
  BY DEF BrokerInit
<1> QED
  BY <1>1, BrokerInitial, BrokerInductive, BrokerStepIsWalletStep, PTL
     DEF BrokerSpec, WalletSpec

\* So does its stronger invariant.
LEMMA BrokerInvariant == BrokerSpec => [](BrokerIInv /\ WalletIInv)
<1>1. BrokerSpec => []BrokerIInv
  BY BrokerInitial, BrokerInductive, PTL DEF BrokerSpec
<1> QED
  BY <1>1, BrokerImplementsWallet, WalletInvariant, PTL

\* Mainloop stays within its tokens, and the account keeps its types, in every
\* configuration.
THEOREM BrokerTyped == BrokerSpec => []BrokerTypeOK
<1>1. BrokerIInv /\ WalletIInv => BrokerTypeOK
  BY DEF BrokerIInv, WalletIInv, BrokerTypeOK
<1> QED
  BY <1>1, BrokerInvariant, PTL

-----------------------------------------------------------------------------
(* An approval that can still be mined is of a token not yet approved.         *)

\* An approval on its way that comes too late has a nonce that is used up.
LateApprovalsAreSpent ==
  \A tx \in wire \cup pool :
    tx.call \in Tokens /\ Allowed(tx.call) => tx.nonce < chainNonce

\* So will the next one be, when another process's approval is mined between
\* the read of the allowance and the send.
NextApprovalIsSpent ==
  pc = "approve" /\ Allowed(ApprovalOrder[idx]) => nonce < chainNonce

ApprovalIInv == ApprovedOnce /\ LateApprovalsAreSpent /\ NextApprovalIsSpent

\* Nothing was sent before the first start.
LEMMA ApprovalInitial == BrokerInit => ApprovalIInv
BY DEF BrokerInit, WalletInit, ApprovalIInv, ApprovedOnce, LateApprovalsAreSpent,
       NextApprovalIsSpent, Allowed

\* Only a block changes what is approved, and it uses up a nonce.
LEMMA ApprovalInductive ==
  BrokerIInv /\ WalletIInv /\ ApprovalIInv /\ [BrokerNext]_brokerVars => ApprovalIInv'
<1> SUFFICES ASSUME BrokerIInv, WalletIInv, ApprovalIInv, [BrokerNext]_brokerVars
             PROVE  ApprovalIInv'
  OBVIOUS
<1> USE DEF ApprovalIInv, ApprovedOnce, LateApprovalsAreSpent, NextApprovalIsSpent, Allowed
<1>1. CASE Boot
  BY <1>1 DEF Boot, NewUniBroker, nodeVars
<1>2. CASE AskAllowance
  BY <1>2 DEF AskAllowance, walletVars, procVars, nodeVars
<1>3. CASE QueryFails \/ Serve \/ UNCHANGED brokerVars
  BY <1>3 DEF QueryFails, Serve, brokerVars, walletVars, procVars, nodeVars
<1>4. CASE Approve
  <2>1. /\ wire' = wire \cup {cur'} /\ UNCHANGED <<pool, chainNonce, mined>>
        /\ cur'.call = ApprovalOrder[idx] /\ cur'.nonce = nonce
        /\ pc = "approve" /\ pc' = "approving"
    BY <1>4 DEF Approve, Send
  <2> QED
    BY <2>1
\* What an operation sends is no approval.
<1>5. ASSUME NEW c \in Operations, Operate(c)
      PROVE  ApprovalIInv'
  <2>1. /\ wire' = wire \cup {cur'} /\ UNCHANGED <<pc, idx, nonce, pool, chainNonce, mined>>
        /\ cur'.call = c
    BY <1>5 DEF Operate, Send
  <2>2. c \notin Tokens
    BY BrokerAssumption
  <2> QED
    BY <2>1, <2>2
<1>6. CASE ApproveSent \/ ApproveRefused
  BY <1>6 DEF ApproveSent, ApproveRefused, SendOk, SendErr, BrokerIInv
<1>7. CASE ApproveMined
  BY <1>7 DEF ApproveMined, WaitMined, nodeVars
<1>8. CASE OperationGoesOn
  BY <1>8 DEF OperationGoesOn, SendOk, SendErr, WaitMined, nodeVars
<1>9. CASE Fatal \/ QuitOrPanic \/ Die
  BY <1>9 DEF Fatal, QuitOrPanic, Die, Crash, Exit
<1>10. ASSUME NEW tx \in wire, NodeAccept(tx) \/ NodeReject(tx), UNCHANGED <<pc, idx>>
       PROVE  ApprovalIInv'
  BY <1>10 DEF NodeAccept, NodeReject, procVars
<1>11. ASSUME NEW tx \in pool, Drop(tx), UNCHANGED <<pc, idx>>
       PROVE  ApprovalIInv'
  BY <1>11 DEF Drop, procVars
<1>12. ASSUME NEW tx \in pool, NEW ok \in BOOLEAN, Mine(tx, ok), UNCHANGED <<pc, idx>>
       PROVE  ApprovalIInv'
  <2>1. /\ pool' = pool \ {tx} /\ chainNonce' = chainNonce + 1
        /\ mined' = mined \cup {[tx |-> tx, ok |-> ok]}
        /\ UNCHANGED <<wire, nonce, phase>>
    BY <1>12 DEF Mine, procVars
  <2>2. tx.nonce = chainNonce /\ chainNonce \in Nat /\ nonce \in Nat
    BY <1>12 DEF Mine, WalletIInv, WalletTypeOK
  <2>3. \A t \in wire \cup pool : t.nonce \in Nat /\ t.nonce <= chainNonce
    BY DEF WalletIInv, WalletTypeOK, Tx, NoNonceGap
  <2>4. ~(tx.nonce < chainNonce)
    BY <2>2
  \* tx has not been approved before: it would be spent, and was not.
  <2>5. tx.call \in Tokens => ~Allowed(tx.call)
    BY <2>4
  <2>6. ApprovedOnce'
    BY <2>1, <2>5
  <2>7. LateApprovalsAreSpent'
    <3>1. \A t \in wire' \cup pool' : t.nonce < chainNonce'
      BY <2>1, <2>2, <2>3
    <3> QED
      BY <3>1
  <2>8. NextApprovalIsSpent'
    <3>1. pc = "approve" => nonce <= chainNonce
      BY <2>2 DEF WalletIInv, CacheLagsByAtMostOne, Up, BrokerIInv
    <3>2. pc' = "approve" => nonce' < chainNonce'
      BY <1>12, <2>1, <2>2, <3>1
    <3> QED
      BY <3>2
  <2> QED
    BY <2>6, <2>7, <2>8
<1> QED
  BY <1>1, <1>2, <1>3, <1>4, <1>5, <1>6, <1>7, <1>8, <1>9, <1>10, <1>11, <1>12
     DEF BrokerNext, Mainloop, NodeStep

\* No token is ever approved twice, for any configuration, however often the
\* process dies in the middle of its approvals and whatever the network does.
THEOREM BrokerApprovesOnce == BrokerSpec => []ApprovedOnce
<1>1. BrokerSpec => []ApprovalIInv
  BY ApprovalInitial, ApprovalInductive, BrokerInvariant, PTL DEF BrokerSpec
<1>2. ApprovalIInv => ApprovedOnce
  BY DEF ApprovalIInv
<1> QED
  BY <1>1, <1>2, PTL

-----------------------------------------------------------------------------
(* The operations come after the approvals. *)

\* The tokens before Mainloop's place are approved; what is in flight while it
\* approves is the approval of the token it is at.
SeenAreAllowed ==
  /\ pc # "off" => \A i \in 1..(idx - 1) : Allowed(ApprovalOrder[i])
  /\ pc = "approving" => cur.call = ApprovalOrder[idx]
  /\ pc = "serving" => idx = Len(ApprovalOrder) + 1

AllowanceIInv == SeenAreAllowed /\ OperationsNeedAllowance

\* Nothing was sent and nothing is seen before the first start.
LEMMA AllowanceInitial == BrokerInit => AllowanceIInv
BY DEF BrokerInit, WalletInit, AllowanceIInv, SeenAreAllowed, OperationsNeedAllowance

\* Approvals are not taken back, and an operation is sent when all were seen.
LEMMA AllowanceInductive ==
  BrokerIInv /\ AllowanceIInv /\ [BrokerNext]_brokerVars => AllowanceIInv'
<1> SUFFICES ASSUME BrokerIInv, AllowanceIInv, [BrokerNext]_brokerVars
             PROVE  AllowanceIInv'
  OBVIOUS
<1>1. Len(ApprovalOrder) \in Nat /\ Operations \cap Tokens = {}
  BY BrokerAssumption
<1> USE <1>1 DEF AllowanceIInv, SeenAreAllowed, OperationsNeedAllowance, BrokerIInv, Allowed
<1>2. CASE Boot
  BY <1>2 DEF Boot, NewUniBroker, nodeVars
<1>3. CASE AskAllowance
  BY <1>3 DEF AskAllowance, walletVars, procVars, nodeVars
<1>4. CASE QueryFails \/ Serve \/ UNCHANGED brokerVars
  BY <1>4 DEF QueryFails, Serve, brokerVars, walletVars, procVars, nodeVars
\* An approval is no operation.
<1>5. CASE Approve
  <2>1. ApprovalOrder[idx] \in Tokens
    BY <1>5 DEF Approve, Tokens
  <2>2. /\ wire' = wire \cup {cur'} /\ UNCHANGED <<idx, pool, mined>>
        /\ cur'.call = ApprovalOrder[idx] /\ pc = "approve" /\ pc' = "approving"
    BY <1>5 DEF Approve, Send
  <2> QED
    BY <2>1, <2>2
\* Every token has been seen.
<1>6. ASSUME NEW c \in Operations, Operate(c)
      PROVE  AllowanceIInv'
  <2>1. wire' = wire \cup {cur'} /\ UNCHANGED <<pc, idx, pool, mined>> /\ pc = "serving"
    BY <1>6 DEF Operate, Send
  <2>2. \A t \in Tokens : Allowed(t)
    BY <2>1 DEF Tokens
  <2> QED
    BY <2>1, <2>2
<1>7. CASE ApproveSent \/ ApproveRefused
  BY <1>7 DEF ApproveSent, ApproveRefused, SendOk, SendErr
\* A good status is of the approval of the token Mainloop is at.
<1>8. CASE ApproveMined
  <2>1. pc = "approving" /\ UNCHANGED <<wire, pool, mined>>
    BY <1>8 DEF ApproveMined, WaitMined, nodeVars
  <2>2. CASE result' = "ok" /\ pc' = "allow" /\ idx' = idx + 1
    <3>1. Allowed(ApprovalOrder[idx])
      BY <1>8, <2>1, <2>2 DEF ApproveMined, WaitMined
    <3> QED
      BY <2>1, <2>2, <3>1
  <2>3. CASE pc' = "fatal" /\ idx' = idx
    BY <2>1, <2>3
  <2> QED
    BY <1>8, <2>2, <2>3 DEF ApproveMined
<1>9. CASE OperationGoesOn
  BY <1>9 DEF OperationGoesOn, SendOk, SendErr, WaitMined, nodeVars
<1>10. CASE Fatal \/ QuitOrPanic \/ Die
  BY <1>10 DEF Fatal, QuitOrPanic, Die, Crash, Exit
<1>11. CASE NodeStep /\ UNCHANGED <<pc, idx>>
  <2>1. /\ UNCHANGED cur /\ mined \subseteq mined'
        /\ wire' \cup pool' \cup {m.tx : m \in mined'}
             \subseteq wire \cup pool \cup {m.tx : m \in mined}
    BY <1>11 DEF NodeStep, NodeAccept, NodeReject, Mine, Drop, procVars
  <2> QED
    BY <1>11, <2>1
<1> QED
  BY <1>2, <1>3, <1>4, <1>5, <1>6, <1>7, <1>8, <1>9, <1>10, <1>11 DEF BrokerNext, Mainloop

\* No operation reaches the node, the pool or a block before every token of
\* every pair is approved.
THEOREM BrokerOperatesApproved == BrokerSpec => []OperationsNeedAllowance
<1>1. BrokerSpec => []AllowanceIInv
  BY AllowanceInitial, AllowanceInductive, BrokerInvariant, PTL DEF BrokerSpec
<1>2. AllowanceIInv => OperationsNeedAllowance
  BY DEF AllowanceIInv
<1> QED
  BY <1>1, <1>2, PTL

-----------------------------------------------------------------------------
(* A start ends: this is the part of StartupEnds that is not fairness.         *)

\* How many steps Mainloop has left at most.
StepsLeft ==
  IF pc \in {"allow", "approve", "approving"}
    THEN 5 * (Len(ApprovalOrder) + 1 - idx)
         + (IF pc = "allow" THEN 5
            ELSE IF pc = "approve" THEN 4
            ELSE IF phase = "sending" THEN 3 ELSE 2)
    ELSE IF pc = "fatal" THEN 1 ELSE 0

\* Each step of Mainloop is one less to go, and nothing else adds one, but for a
\* new start.
StartupShrinks ==
  [][/\ Mainloop /\ ~Boot => StepsLeft' < StepsLeft
     /\ ~Boot => StepsLeft' <= StepsLeft]_brokerVars

\* Where a start waits, it waits for what will come: in SendTransaction for an
\* answer that is on its way, in WaitMined for a transaction that is pending or
\* mined, if it is not lost.
WaitsForNode ==
  pc = "approving" =>
    \/ phase = "sending" /\ (answer # "none" \/ cur \in wire)
    \/ phase = "waiting" /\ (cur \in pool \/ (\E m \in mined : m.tx = cur) \/ Orphaned)

\* A counter of steps is a number.
LEMMA StepsAreNat == BrokerIInv => StepsLeft \in Nat
<1> SUFFICES ASSUME BrokerIInv
             PROVE  StepsLeft \in Nat
  OBVIOUS
<1>1. Len(ApprovalOrder) \in Nat
  BY BrokerAssumption
<1> QED
  BY <1>1 DEF BrokerIInv, StepsLeft

\* A start makes at most 5 * (Len(ApprovalOrder) + 1) steps, whatever fails.
THEOREM BrokerStartShrinks == BrokerSpec => [](StepsLeft \in Nat) /\ StartupShrinks
<1>1. ASSUME BrokerIInv, BrokerNext, ~Boot
      PROVE  StepsLeft' <= StepsLeft /\ (Mainloop => StepsLeft' < StepsLeft)
  <2>1. Len(ApprovalOrder) \in Nat
    BY BrokerAssumption
  <2>2. CASE AskAllowance
    <3>1. idx \in Int /\ pc = "allow" /\ phase' = phase
      BY <1>1, <2>1, <2>2 DEF AskAllowance, BrokerIInv, walletVars, procVars
    <3>2. StepsLeft = 5 * (Len(ApprovalOrder) + 1 - idx) + 5
      BY <3>1 DEF StepsLeft
    <3>3. CASE Allowed(ApprovalOrder[idx])
      <4>1. idx' = idx + 1 /\ pc' = "allow"
        BY <2>2, <3>1, <3>3 DEF AskAllowance
      <4>2. StepsLeft' = 5 * (Len(ApprovalOrder) + 1 - (idx + 1)) + 5
        BY <4>1 DEF StepsLeft
      <4> QED
        BY <2>1, <3>1, <3>2, <4>2
    <3>4. CASE ~Allowed(ApprovalOrder[idx])
      <4>1. idx' = idx /\ pc' = "approve"
        BY <2>2, <3>1, <3>4 DEF AskAllowance
      <4>2. StepsLeft' = 5 * (Len(ApprovalOrder) + 1 - idx) + 4
        BY <4>1 DEF StepsLeft
      <4> QED
        BY <2>1, <3>1, <3>2, <4>2
    <3> QED
      BY <3>3, <3>4
  <2> USE <1>1, <2>1 DEF BrokerIInv, StepsLeft
  <2>3. CASE QueryFails \/ Serve
    BY <2>3 DEF QueryFails, Serve, walletVars, procVars
  <2>4. CASE Approve
    BY <2>4 DEF Approve, Send
  <2>5. CASE ApproveSent \/ ApproveRefused
    BY <2>5 DEF ApproveSent, ApproveRefused, SendOk, SendErr
  <2>6. CASE ApproveMined
    BY <2>6 DEF ApproveMined, WaitMined
  <2>7. CASE Fatal
    BY <2>7 DEF Fatal
  \* The rest is not Mainloop: an operation, an end of the process, the node.
  <2>8. CASE ~Mainloop
    <3>1. CASE QuitOrPanic \/ Die
      BY <2>8, <3>1 DEF QuitOrPanic, Die
    <3>2. CASE (\E c \in Operations : Operate(c)) \/ OperationGoesOn
      BY <2>8, <3>2 DEF Operate, OperationGoesOn
    <3>3. CASE NodeStep /\ UNCHANGED <<pc, idx>>
      <4>1. UNCHANGED procVars
        BY <3>3 DEF NodeStep, NodeAccept, NodeReject, Mine, Drop
      <4> QED
        BY <2>8, <3>3, <4>1 DEF procVars
    <3> QED
      BY <2>8, <3>1, <3>2, <3>3 DEF BrokerNext
  <2> QED
    BY <2>2, <2>3, <2>4, <2>5, <2>6, <2>7, <2>8 DEF Mainloop
<1>2. BrokerIInv /\ [BrokerNext]_brokerVars =>
        [/\ Mainloop /\ ~Boot => StepsLeft' < StepsLeft
         /\ ~Boot => StepsLeft' <= StepsLeft]_brokerVars
  BY <1>1
<1> QED
  BY <1>2, StepsAreNat, BrokerInvariant, PTL DEF BrokerSpec, StartupShrinks

\* And it never waits for what the node has forgotten, but for an approval the
\* pool dropped or replaced.
THEOREM BrokerWaitsForNode == BrokerSpec => []WaitsForNode
<1>1. BrokerIInv /\ HistoryFits => WaitsForNode
  BY DEF BrokerIInv, HistoryFits, AnswerFits, WaitsForNode, Orphaned
<1> QED
  BY <1>1, BrokerInvariant, BrokerImplementsWallet, WalletHistory, PTL

=============================================================================
