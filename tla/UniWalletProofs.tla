--------------------------- MODULE UniWalletProofs ---------------------------
(***************************************************************************)
(* What UniWallet promises for any calls, any faults and any bounds.  The  *)
(* argument is one inductive invariant, WalletIInv: it ties the cached     *)
(* nonce (u.nonce, exchange/uniswap.go:35) to the nonces of everything the *)
(* process ever handed to the node.                                        *)
(***************************************************************************)
EXTENDS UniWallet, FiniteSetTheorems, TLAPS

\* The transaction an operation works on, and what its nonce is to the cache.
CurFits ==
  /\ phase \in {"down", "idle"} => cur = NoTx
  /\ phase = "sending" => cur \in Tx /\ cur.nonce = nonce
  /\ phase = "waiting" => cur \in Tx /\ nonce = cur.nonce + 1

\* Mined nonces are used up.
MinedBelowChain == \A m \in mined : m.tx.nonce < chainNonce

\* What is pending is next for the chain, and alone.
OnePending ==
  /\ \A tx \in pool : tx.nonce = chainNonce
  /\ \A s, t \in pool : s = t

\* Nothing that may still reach the chain carries a nonce the cache has not
\* reached; while WaitMined runs, the cache is past all of it.
NoneAheadOfCache ==
  Up => \A tx \in wire \cup pool :
          tx.nonce + (IF phase = "waiting" THEN 1 ELSE 0) <= nonce

WalletIInv ==
  /\ WalletTypeOK
  /\ CurFits
  /\ MinedBelowChain
  /\ OnePending
  /\ NoNonceGap
  /\ NoneAheadOfCache
  /\ CacheLagsByAtMostOne

-----------------------------------------------------------------------------
\* A process that never ran has sent nothing.
LEMMA WalletInitial == WalletInit => WalletIInv
BY WalletAssumption
   DEF WalletInit, WalletIInv, WalletTypeOK, CurFits, MinedBelowChain, OnePending,
       NoNonceGap, NoneAheadOfCache, CacheLagsByAtMostOne, Up

\* No step of the process, the node or the chain breaks the invariant.
LEMMA WalletInductive == WalletIInv /\ [WalletNext]_walletVars => WalletIInv'
<1> SUFFICES ASSUME WalletIInv, [WalletNext]_walletVars
             PROVE  WalletIInv'
  OBVIOUS
<1> USE WalletAssumption
    DEF WalletIInv, WalletTypeOK, CurFits, MinedBelowChain, OnePending,
        NoNonceGap, NoneAheadOfCache, CacheLagsByAtMostOne, Up, Tx
\* The cache starts equal to the chain's nonce, and nothing sent is above that.
<1>1. CASE NewUniBroker
  BY <1>1 DEF NewUniBroker, nodeVars
\* Signed with the cached nonce, which is at most the chain's between operations.
<1>2. ASSUME NEW c \in Calls, Send(c)
      PROVE  WalletIInv'
  BY <1>2 DEF Send
\* The bump puts the cache past cur and everything else that was sent.
<1>3. CASE SendOk
  <2>1. WalletTypeOK' /\ CurFits'
    BY <1>3 DEF SendOk
  <2>2. NoneAheadOfCache' /\ CacheLagsByAtMostOne'
    <3>1. cur.nonce = nonce /\ nonce' = nonce + 1 /\ chainNonce' = chainNonce
      BY <1>3 DEF SendOk
    <3>2. nonce <= chainNonce /\ chainNonce <= nonce + 1
      BY <1>3 DEF SendOk
    <3> QED
      BY <1>3, <3>1, <3>2 DEF SendOk
  <2> QED
    BY <1>3, <2>1, <2>2 DEF SendOk
<1>4. CASE SendErr
  BY <1>4 DEF SendErr
\* The receipt is cur's, so cur's nonce is used up and the chain has reached
\* the cache.
<1>5. CASE WaitMined
  <2>1. cur.nonce < chainNonce
    BY <1>5 DEF WaitMined
  <2>2. nonce <= chainNonce
    BY <1>5, <2>1 DEF WaitMined
  <2> QED
    BY <1>5, <2>2 DEF WaitMined, nodeVars
<1>6. CASE Exit
  BY <1>6 DEF Exit
\* What is accepted has the chain's nonce, so it replaces all that was pending.
<1>7. ASSUME NEW tx \in wire, NodeAccept(tx)
      PROVE  WalletIInv'
  <2>1. tx.nonce = chainNonce
    BY <1>7 DEF NodeAccept
  <2>2. pool' = {tx}
    BY <1>7, <2>1 DEF NodeAccept, SameNonce
  <2> QED
    BY <1>7, <2>1, <2>2 DEF NodeAccept, procVars
<1>8. ASSUME NEW tx \in wire, NodeReject(tx)
      PROVE  WalletIInv'
  BY <1>8 DEF NodeReject, procVars
\* The chain catches up with tx, which the cache was not behind of; no other
\* transaction is pending.
<1>9. ASSUME NEW tx \in pool, NEW ok \in BOOLEAN, Mine(tx, ok)
      PROVE  WalletIInv'
  <2>1. pool' = {} /\ chainNonce' = chainNonce + 1
    BY <1>9 DEF Mine
  <2>2. Up => chainNonce <= nonce
    BY <1>9 DEF Mine
  <2>3. MinedBelowChain'
    BY <1>9, <2>1 DEF Mine
  <2> QED
    BY <1>9, <2>1, <2>2, <2>3 DEF Mine, procVars
<1>10. ASSUME NEW tx \in pool, Drop(tx)
       PROVE  WalletIInv'
  BY <1>10 DEF Drop, procVars
<1>11. CASE UNCHANGED walletVars
  BY <1>11 DEF walletVars, procVars, nodeVars
<1> QED
  BY <1>1, <1>2, <1>3, <1>4, <1>5, <1>6, <1>7, <1>8, <1>9, <1>10, <1>11
     DEF WalletNext, ProcStep, NodeStep, Crash

\* The invariant holds in every behaviour.
LEMMA WalletInvariant == WalletSpec => []WalletIInv
BY WalletInitial, WalletInductive, PTL DEF WalletSpec

-----------------------------------------------------------------------------
\* u.nonce never underflows, the operations are where the code can be, and the
\* node only ever holds transactions the process signed.
THEOREM WalletTyped == WalletSpec => []WalletTypeOK
<1>1. WalletIInv => WalletTypeOK
  BY DEF WalletIInv
<1> QED
  BY <1>1, WalletInvariant, PTL

\* Whatever is lost, late, dropped or restarted, at most one transaction of the
\* account is pending: SendTransaction is not called before WaitMined returned.
THEOREM WalletOneUnmined == WalletSpec => []AtMostOneUnmined
<1>1. WalletIInv => AtMostOneUnmined
  <2> SUFFICES ASSUME WalletIInv
               PROVE  Cardinality(pool) <= 1
    BY DEF AtMostOneUnmined
  <2>1. CASE pool = {}
    <3>1. Cardinality(pool) = 0
      BY <2>1, FS_EmptySet
    <3> QED
      BY <3>1
  <2>2. CASE pool # {}
    <3>1. PICK tx \in pool : TRUE
      BY <2>2
    <3>2. pool = {tx}
      BY <3>1 DEF WalletIInv, OnePending
    <3>3. Cardinality(pool) = 1
      BY <3>2, FS_Singleton
    <3> QED
      BY <3>3
  <2> QED
    BY <2>1, <2>2
<1> QED
  BY <1>1, WalletInvariant, PTL

\* No request is ever ahead of the chain, so none blocks the account.
THEOREM WalletNoGap == WalletSpec => []NoNonceGap
<1>1. WalletIInv => NoNonceGap
  BY DEF WalletIInv
<1> QED
  BY <1>1, WalletInvariant, PTL

\* The cached nonce misses at most one mined transaction.
THEOREM WalletCacheLag == WalletSpec => []CacheLagsByAtMostOne
<1>1. WalletIInv => CacheLagsByAtMostOne
  BY DEF WalletIInv
<1> QED
  BY <1>1, WalletInvariant, PTL

\* Once it misses one, the process can do nothing more until it is restarted.
THEOREM WalletWedged == WalletSpec => WedgedUntilRestart
<1>1. WalletIInv /\ [WalletNext]_walletVars => [Behind => Behind' \/ ~Up']_walletVars
  <2> SUFFICES ASSUME WalletIInv, WalletNext, Behind, Up'
               PROVE  Behind'
    BY DEF Up, Behind, walletVars, procVars, nodeVars
  <2> USE DEF WalletIInv, WalletTypeOK, CurFits, Behind, Up, Tx
  <2>1. ASSUME NEW c \in Calls, Send(c)
        PROVE  Behind'
    BY <2>1 DEF Send
  <2>2. CASE SendErr
    BY <2>2 DEF SendErr
  <2>3. CASE NewUniBroker \/ SendOk \/ WaitMined \/ Exit
    BY <2>3 DEF NewUniBroker, SendOk, WaitMined, Exit
  \* cur has the cached nonce, which is used up, so cur is not what is accepted.
  <2>4. ASSUME NEW tx \in wire, NodeAccept(tx)
        PROVE  Behind'
    <3>1. tx # cur
      BY <2>4, WalletAssumption DEF NodeAccept
    <3> QED
      BY <2>4, <3>1 DEF NodeAccept, procVars
  <2>5. ASSUME NEW tx \in wire, NodeReject(tx)
        PROVE  Behind'
    BY <2>5 DEF NodeReject, procVars
  <2>6. ASSUME NEW tx \in pool, NEW ok \in BOOLEAN, Mine(tx, ok)
        PROVE  Behind'
    BY <2>6 DEF Mine, procVars
  <2>7. ASSUME NEW tx \in pool, Drop(tx)
        PROVE  Behind'
    BY <2>7 DEF Drop, procVars
  <2> QED
    BY <2>1, <2>2, <2>3, <2>4, <2>5, <2>6, <2>7
       DEF WalletNext, ProcStep, NodeStep, Crash
<1> QED
  BY <1>1, WalletInvariant, PTL DEF WalletSpec, WedgedUntilRestart

-----------------------------------------------------------------------------
(* What became of what was signed.                                             *)

Handed == wire \cup pool \cup {m.tx : m \in mined}

\* The history of the account: one transaction for each nonce that is used up.
OnePerNonce ==
  /\ \A m, n \in mined : m.tx.nonce = n.tx.nonce => m = n
  /\ \A k \in 0..(chainNonce - 1) : \E m \in mined : m.tx.nonce = k

\* A transaction is at one place, and an id is given once.
SignedOnce ==
  /\ \A tx \in Handed : tx.id <= signed
  /\ phase \in {"sending", "waiting"} =>
       cur.id = signed /\ \A tx \in Handed : tx.id = signed => tx = cur
  /\ \A tx \in wire : tx \notin pool /\ \A m \in mined : m.tx # tx

\* SendTransaction hears of its own transaction only, and once it was taken or
\* refused.
AnswerFits ==
  /\ phase # "sending" => answer = "none"
  /\ phase = "sending" => (answer = "none" <=> cur \in wire)
  /\ phase = "waiting" => cur \notin wire

\* What the last operation returned says this of its transaction, the last one
\* signed: executed, or not executed with a nonce the cache has passed.
ResultFits ==
  /\ phase = "down" => result = "none"
  /\ phase = "idle" /\ result = "ok" => \E m \in mined : m.ok /\ m.tx.id = signed
  /\ phase = "idle" /\ result = "err" =>
       /\ \A tx \in wire \cup pool : tx.id = signed => tx.nonce = nonce
       /\ \A m \in mined : m.ok /\ m.tx.id = signed => m.tx.nonce = nonce

HistoryFits == OnePerNonce /\ SignedOnce /\ AnswerFits /\ ResultFits

\* A process that never ran has no history.
LEMMA HistoryInitial == WalletInit => HistoryFits
BY DEF WalletInit, HistoryFits, OnePerNonce, SignedOnce, AnswerFits, ResultFits, Handed

\* Only a block changes the history: it appends the next nonce.
LEMMA OnePerNonceStep ==
  WalletIInv /\ OnePerNonce /\ [WalletNext]_walletVars => OnePerNonce'
<1> SUFFICES ASSUME WalletIInv, OnePerNonce, [WalletNext]_walletVars
             PROVE  OnePerNonce'
  OBVIOUS
<1> USE DEF OnePerNonce
<1>1. ASSUME NEW tx \in pool, NEW ok \in BOOLEAN, Mine(tx, ok)
      PROVE  OnePerNonce'
  <2>1. chainNonce \in Nat /\ chainNonce' = chainNonce + 1 /\ tx.nonce = chainNonce
    BY <1>1 DEF Mine, WalletIInv, WalletTypeOK
  <2>2. mined' = mined \cup {[tx |-> tx, ok |-> ok]}
    BY <1>1 DEF Mine
  <2>3. \A m \in mined : m.tx.nonce # chainNonce
    BY <2>1 DEF WalletIInv, WalletTypeOK, MinedBelowChain, Tx
  <2>4. \A m, n \in mined' : m.tx.nonce = n.tx.nonce => m = n
    BY <2>1, <2>2, <2>3
  <2>5. ASSUME NEW k \in 0..(chainNonce' - 1)
        PROVE  \E m \in mined' : m.tx.nonce = k
    <3>1. CASE k = chainNonce
      <4>1. [tx |-> tx, ok |-> ok] \in mined' /\ [tx |-> tx, ok |-> ok].tx.nonce = k
        BY <2>1, <2>2, <3>1
      <4> QED
        BY <4>1
    <3>2. CASE k # chainNonce
      BY <2>1, <2>2, <3>2
    <3> QED
      BY <3>1, <3>2
  <2> QED
    BY <2>4, <2>5
<1>2. CASE UNCHANGED <<chainNonce, mined>>
  BY <1>2
<1>3. ASSUME ~UNCHANGED <<chainNonce, mined>>
      PROVE  \E tx \in pool, ok \in BOOLEAN : Mine(tx, ok)
  BY <1>3 DEF WalletNext, ProcStep, NodeStep, NewUniBroker, Send, SendOk, SendErr, WaitMined,
              Exit, Crash, NodeAccept, NodeReject, Drop, walletVars, nodeVars
<1> QED
  BY <1>1, <1>2, <1>3

\* What is signed is new, and what was signed only moves on: to the pool, to the
\* chain, or away.
LEMMA HistoryStep ==
  WalletIInv /\ HistoryFits /\ [WalletNext]_walletVars => HistoryFits'
<1> SUFFICES ASSUME WalletIInv, HistoryFits, [WalletNext]_walletVars
             PROVE  HistoryFits'
  OBVIOUS
<1>0. OnePerNonce'
  BY OnePerNonceStep DEF HistoryFits
<1> SUFFICES (SignedOnce /\ AnswerFits /\ ResultFits)'
  BY <1>0 DEF HistoryFits
<1> USE WalletAssumption
    DEF WalletIInv, WalletTypeOK, CurFits, HistoryFits, SignedOnce, AnswerFits, ResultFits,
        Handed, Tx
<1>1. CASE NewUniBroker
  BY <1>1 DEF NewUniBroker, nodeVars
<1>2. ASSUME NEW c \in Calls, Send(c)
      PROVE  (SignedOnce /\ AnswerFits /\ ResultFits)'
  BY <1>2 DEF Send
<1>3. CASE SendOk
  BY <1>3 DEF SendOk
<1>4. CASE SendErr
  BY <1>4 DEF SendErr
<1>5. CASE WaitMined
  BY <1>5 DEF WaitMined, nodeVars, OnePerNonce, OnePending, MinedBelowChain
<1>6. CASE Exit
  BY <1>6 DEF Exit
<1>7. ASSUME NEW tx \in wire, NodeAccept(tx)
      PROVE  (SignedOnce /\ AnswerFits /\ ResultFits)'
  BY <1>7 DEF NodeAccept, procVars
<1>8. ASSUME NEW tx \in wire, NodeReject(tx)
      PROVE  (SignedOnce /\ AnswerFits /\ ResultFits)'
  BY <1>8 DEF NodeReject, procVars
<1>9. ASSUME NEW tx \in pool, NEW ok \in BOOLEAN, Mine(tx, ok)
      PROVE  (SignedOnce /\ AnswerFits /\ ResultFits)'
  BY <1>9 DEF Mine, procVars
<1>10. ASSUME NEW tx \in pool, Drop(tx)
       PROVE  (SignedOnce /\ AnswerFits /\ ResultFits)'
  BY <1>10 DEF Drop, procVars
<1>11. CASE UNCHANGED walletVars
  BY <1>11 DEF walletVars, procVars, nodeVars
<1> QED
  BY <1>1, <1>2, <1>3, <1>4, <1>5, <1>6, <1>7, <1>8, <1>9, <1>10, <1>11
     DEF WalletNext, ProcStep, NodeStep, Crash

\* It holds in every behaviour.
LEMMA WalletHistory == WalletSpec => [](WalletIInv /\ HistoryFits)
BY WalletInvariant, HistoryInitial, HistoryStep, PTL DEF WalletSpec

\* Every nonce the account used up was used by exactly one transaction, so of
\* those that were signed with the same nonce, by one process or by several, at
\* most one is ever executed.
THEOREM WalletOneTxPerNonce == WalletSpec => []OnePerNonce
<1>1. HistoryFits => OnePerNonce
  BY DEF HistoryFits
<1> QED
  BY <1>1, WalletHistory, PTL

\* An operation that returned nil was executed (the receipt was its own).
THEOREM WalletOkIsExecuted ==
  WalletSpec => [](phase = "idle" /\ result = "ok" => \E m \in mined : m.ok /\ m.tx.id = signed)
<1>1. HistoryFits => (phase = "idle" /\ result = "ok" => \E m \in mined : m.ok /\ m.tx.id = signed)
  BY DEF HistoryFits, ResultFits
<1> QED
  BY <1>1, WalletHistory, PTL

\* An operation that returned an error though it was executed, or is executed
\* later, leaves the cache behind the chain: the caller may try again, but no
\* second transaction of this process is accepted.
THEOREM WalletRetryIsSafe == WalletSpec => []RetryIsSafe
<1>1. WalletIInv /\ HistoryFits => RetryIsSafe
  BY DEF WalletIInv, MinedBelowChain, HistoryFits, ResultFits, AnswerFits, Behind, RetryIsSafe
<1> QED
  BY <1>1, WalletHistory, PTL

\* SendTransaction never waits for a request the node has forgotten: the request
\* is on its way, or its answer is.
THEOREM WalletSendIsAnswered ==
  WalletSpec => [](phase = "sending" => answer # "none" \/ cur \in wire)
<1>1. HistoryFits => (phase = "sending" => answer # "none" \/ cur \in wire)
  BY DEF HistoryFits, AnswerFits
<1> QED
  BY <1>1, WalletHistory, PTL

=============================================================================
