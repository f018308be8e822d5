--------------------------- MODULE PriceDemoProofs ---------------------------
(***************************************************************************)
(* The price demo never is more than one swap off what a pair's last Sync  *)
(* told, for any number of pairs, changes and reorganisations: the next    *)
(* Swap of a pair is always behind a Sync that corrects the last one.      *)
(***************************************************************************)
EXTENDS PriceDemo, SequenceTheorems, TLAPS

\* A Swap on its way comes right after the Sync of its change.
SwapsFollowSyncs ==
  \A i \in 2..Len(logs) :
    logs[i].kind = "Swap" => logs[i - 1].kind = "Sync" /\ logs[i - 1].pair = logs[i].pair

\* When a Swap is next, its Sync was the last log that was handled.
NextSwapIsNew ==
  logs # <<>> /\ logs[1].kind = "Swap" =>
    /\ synced[logs[1].pair] # Never
    /\ reserve[logs[1].pair] = synced[logs[1].pair]

\* Nothing is handled before the query.
QueryComesFirst == at \in {"query", "dial", "subscribe", "watch"} => \A p \in Pairs : synced[p] = Never

DemoIInv == DemoTypeOK /\ SwapsFollowSyncs /\ NextSwapIsNew /\ QueryComesFirst /\ DriftBounded

-----------------------------------------------------------------------------
LEMMA DemoInitial == DemoInit => DemoIInv
<1> SUFFICES ASSUME DemoInit PROVE DemoIInv
  OBVIOUS
<1>1. Never \in Nat /\ 0 \in 0..MaxChanges /\ 0 \in 0..MaxUndone /\ 1 \in Pairs
  BY DemoAssumption DEF Never, Pairs
<1>2. logs \in Seq(Log) /\ Len(logs) = 0
  BY DEF DemoInit
<1>3. DemoTypeOK
  BY <1>1, <1>2 DEF DemoInit, DemoTypeOK
<1>4. SwapsFollowSyncs /\ NextSwapIsNew /\ QueryComesFirst /\ DriftBounded
  BY <1>2 DEF DemoInit, SwapsFollowSyncs, NextSwapIsNew, QueryComesFirst, DriftBounded
<1> QED
  BY <1>3, <1>4 DEF DemoIInv

\* The logs of a change keep the order, behind whatever is on its way.
LEMMA LogsKeepOrder ==
  ASSUME DemoIInv, NEW p \in Pairs, NEW n \in 0..MaxChanges, NEW kind \in {"Swap", "Other"},
         logs' = logs \o Logged(p, n, kind), UNCHANGED followVars
  PROVE  logs' \in Seq(Log) /\ SwapsFollowSyncs' /\ NextSwapIsNew'
<1>1. logs \in Seq(Log) /\ Len(logs) \in Nat
  BY DEF DemoIInv, DemoTypeOK
<1> DEFINE a == [pair |-> p, n |-> n, kind |-> "Sync"]
           b == [pair |-> p, n |-> n, kind |-> kind]
<1>2. a \in Log /\ b \in Log /\ a.kind = "Sync" /\ b.kind = kind /\ a.pair = b.pair
  BY DEF Log
<1>3. CASE logs' = logs
  BY <1>1, <1>3 DEF DemoIInv, SwapsFollowSyncs, NextSwapIsNew, followVars
<1>4. CASE logs' = logs \o <<a, b>>
  <2> HIDE DEF a, b
  <2>1. /\ logs' \in Seq(Log) /\ Len(logs') = Len(logs) + 2
        /\ \A i \in 1..Len(logs) : logs'[i] = logs[i]
        /\ logs'[Len(logs) + 1] = a /\ logs'[Len(logs) + 2] = b
    BY <1>1, <1>2, <1>4
  <2>2. SwapsFollowSyncs'
    <3> SUFFICES ASSUME NEW i \in 2..Len(logs'), logs'[i].kind = "Swap"
                 PROVE  logs'[i - 1].kind = "Sync" /\ logs'[i - 1].pair = logs'[i].pair
      BY DEF SwapsFollowSyncs
    <3>1. CASE i <= Len(logs)
      BY <1>1, <2>1, <3>1 DEF DemoIInv, SwapsFollowSyncs
    <3>2. CASE i = Len(logs) + 1
      BY <1>1, <1>2, <2>1, <3>2
    <3>3. CASE i = Len(logs) + 2
      BY <1>1, <1>2, <2>1, <3>3
    <3> QED
      BY <1>1, <2>1, <3>1, <3>2, <3>3
  <2>3. logs = <<>> => logs'[1] = a
    BY <1>1, <2>1
  <2>4. logs # <<>> => logs'[1] = logs[1]
    BY <1>1, <2>1
  <2>5. NextSwapIsNew'
    BY <1>2, <2>3, <2>4 DEF DemoIInv, NextSwapIsNew, followVars
  <2> QED
    BY <2>1, <2>2, <2>5
<1>5. logs' = logs \o <<>> \/ logs' = logs \o <<a, b>>
  BY DEF Logged
<1>6. logs \o <<>> = logs
  BY <1>1
<1> QED
  BY <1>3, <1>4, <1>5, <1>6

\* What the chain and the node do changes no reserves.
LEMMA OutsideKeeps ==
  DemoIInv /\ ((\E p \in Pairs : Change(p) \/ Reorg(p)) \/ Break) => DemoIInv'
<1>1. ASSUME DemoIInv, NEW p \in Pairs, Change(p)
      PROVE  DemoIInv'
  <2>1. chain[p] + 1 \in 0..MaxChanges /\ chain' \in [Pairs -> 0..MaxChanges]
        /\ chain'[p] = chain[p] + 1
    BY <1>1, DemoAssumption DEF Change, DemoIInv, DemoTypeOK
  <2>2. PICK kind \in {"Swap", "Other"} : logs' = logs \o Logged(p, chain'[p], kind)
    BY <1>1 DEF Change
  <2>3. UNCHANGED <<at, wi, followVars, undone, sub, streams>>
    BY <1>1 DEF Change
  <2>4. logs' \in Seq(Log) /\ SwapsFollowSyncs' /\ NextSwapIsNew'
    BY <1>1, <2>1, <2>2, <2>3, LogsKeepOrder
  <2> QED
    BY <1>1, <2>1, <2>3, <2>4
       DEF DemoIInv, DemoTypeOK, followVars, QueryComesFirst, DriftBounded
<1>2. ASSUME DemoIInv, NEW p \in Pairs, Reorg(p)
      PROVE  DemoIInv'
  <2>1. chain[p] \in 0..MaxChanges /\ chain' \in [Pairs -> 0..MaxChanges]
        /\ undone' \in 0..MaxUndone
    BY <1>2, DemoAssumption DEF Reorg, DemoIInv, DemoTypeOK
  <2>2. UNCHANGED <<at, wi, followVars, sub, streams>> /\ logs' = logs \o Logged(p, chain[p], "Swap")
    BY <1>2 DEF Reorg
  <2>3. logs' \in Seq(Log) /\ SwapsFollowSyncs' /\ NextSwapIsNew'
    BY <1>2, <2>1, <2>2, LogsKeepOrder
  <2> QED
    BY <1>2, <2>1, <2>2, <2>3
       DEF DemoIInv, DemoTypeOK, followVars, QueryComesFirst, DriftBounded
<1>3. ASSUME DemoIInv, Break
      PROVE  DemoIInv'
  <2>1. logs' \in Seq(Log) /\ SwapsFollowSyncs' /\ NextSwapIsNew'
    <3>1. CASE logs' = logs
      BY <1>3, <3>1 DEF Break, DemoIInv, DemoTypeOK, followVars, SwapsFollowSyncs, NextSwapIsNew
    <3>2. CASE logs' = <<>>
      BY <3>2 DEF SwapsFollowSyncs, NextSwapIsNew
    <3> QED
      BY <1>3, <3>1, <3>2 DEF Break
  <2>2. sub' \in {"none", "live", "ended"} /\ streams' \in [Pairs -> {"none", "live", "ended"}]
    BY <1>3 DEF Break, DemoIInv, DemoTypeOK
  <2>3. UNCHANGED <<at, wi, followVars, chainVars>>
    BY <1>3 DEF Break
  <2> QED
    BY <1>3, <2>1, <2>2, <2>3
       DEF DemoIInv, DemoTypeOK, followVars, chainVars, QueryComesFirst, DriftBounded
<1> QED
  BY <1>1, <1>2, <1>3

\* A log is handled: a Sync starts the pair afresh, a Swap adds what it logged.
LEMMA HandlingKeeps == DemoIInv /\ HandleLog => DemoIInv'
<1> SUFFICES ASSUME DemoIInv, HandleLog PROVE DemoIInv'
  OBVIOUS
<1> DEFINE l == Head(logs)
<1>1. /\ logs \in Seq(Log) /\ Len(logs) \in Nat /\ Len(logs) > 0
      /\ l \in Log /\ l = logs[1]
      /\ logs' \in Seq(Log) /\ Len(logs') = Len(logs) - 1
      /\ \A i \in 1..Len(logs') : logs'[i] = logs[i + 1]
  BY DEF DemoIInv, DemoTypeOK, HandleLog
<1>2. /\ UNCHANGED <<at, wi, chainVars, sub, streams>> /\ at = "loop"
      /\ HandleSync(l) \/ HandleSwap(l) \/ HandleOther(l)
  BY DEF HandleLog
<1> HIDE DEF l
<1>3. /\ l.pair \in Pairs /\ l.n \in 0..MaxChanges /\ l.n \in Nat /\ l.n # Never /\ l.n \in 0..Never
      /\ synced \in [Pairs -> 0..Never] /\ reserve \in [Pairs -> Nat]
  <2>1. l.pair \in Pairs /\ l.n \in 0..MaxChanges
    BY <1>1 DEF Log
  <2>2. synced \in [Pairs -> 0..Never] /\ reserve \in [Pairs -> Nat]
    BY DEF DemoIInv, DemoTypeOK
  <2> QED
    BY <2>1, <2>2, DemoAssumption DEF Never
<1>4. SwapsFollowSyncs'
  <2> SUFFICES ASSUME NEW i \in 2..Len(logs'), logs'[i].kind = "Swap"
               PROVE  logs'[i - 1].kind = "Sync" /\ logs'[i - 1].pair = logs'[i].pair
    BY DEF SwapsFollowSyncs
  <2>1. i + 1 \in 2..Len(logs) /\ logs'[i] = logs[i + 1] /\ logs'[i - 1] = logs[i]
    <3> DEFINE m == Len(logs)  k == Len(logs')  j == i - 1
    <3>1. m \in Nat /\ k = m - 1 /\ i \in 2..k
      BY <1>1
    <3> HIDE DEF m, k
    <3>2. i + 1 \in 2..m /\ i \in 1..k /\ j \in 1..k /\ j + 1 = i
      BY <3>1
    <3> HIDE DEF j
    <3>3. logs'[i] = logs[i + 1] /\ logs'[j] = logs[j + 1]
      BY <1>1, <3>2 DEF k
    <3> QED
      BY <3>2, <3>3 DEF j, m
  <2> QED
    BY <2>1 DEF DemoIInv, SwapsFollowSyncs
\* The log behind a Sync is of its pair.
<1>5. logs' # <<>> /\ logs'[1].kind = "Swap" => l.kind = "Sync" /\ l.pair = logs'[1].pair
  <2> SUFFICES ASSUME logs' # <<>>, logs'[1].kind = "Swap"
               PROVE  l.kind = "Sync" /\ l.pair = logs'[1].pair
    OBVIOUS
  <2>1. 2 \in 2..Len(logs) /\ logs'[1] = logs[2]
    BY <1>1
  <2> QED
    BY <1>1, <2>1 DEF DemoIInv, SwapsFollowSyncs
<1>6. CASE HandleSync(l)
  <2>1. /\ synced' \in [Pairs -> 0..Never] /\ reserve' \in [Pairs -> Nat]
        /\ synced'[l.pair] = l.n /\ reserve'[l.pair] = l.n
        /\ \A p \in Pairs \ {l.pair} : synced'[p] = synced[p] /\ reserve'[p] = reserve[p]
    BY <1>3, <1>6 DEF HandleSync
  <2>2. NextSwapIsNew' /\ DriftBounded'
    BY <1>3, <1>5, <2>1 DEF NextSwapIsNew, DriftBounded, DemoIInv
  <2> QED
    BY <1>1, <1>2, <1>4, <2>1, <2>2
       DEF DemoIInv, DemoTypeOK, chainVars, QueryComesFirst
<1>7. CASE HandleSwap(l)
  <2>1. /\ synced' = synced /\ reserve' \in [Pairs -> Nat]
        /\ reserve'[l.pair] = reserve[l.pair] + 1
        /\ \A p \in Pairs \ {l.pair} : reserve'[p] = reserve[p]
    BY <1>3, <1>7 DEF HandleSwap
  <2>2. l.kind = "Swap"
    BY <1>7 DEF HandleSwap
  <2>3. synced[l.pair] # Never /\ reserve[l.pair] = synced[l.pair]
    BY <1>1, <2>2 DEF DemoIInv, NextSwapIsNew
  <2>4. NextSwapIsNew'
    BY <1>5, <2>2 DEF NextSwapIsNew
  <2>5. DriftBounded'
    BY <1>3, <2>1, <2>3 DEF DriftBounded, DemoIInv
  <2> QED
    BY <1>1, <1>2, <1>3, <1>4, <2>1, <2>4, <2>5
       DEF DemoIInv, DemoTypeOK, chainVars, QueryComesFirst
<1>8. CASE HandleOther(l)
  <2>1. NextSwapIsNew'
    BY <1>5, <1>8 DEF NextSwapIsNew, HandleOther
  <2> QED
    BY <1>1, <1>2, <1>4, <1>8, <2>1
       DEF DemoIInv, DemoTypeOK, HandleOther, followVars, chainVars, QueryComesFirst, DriftBounded
<1> QED
  BY <1>2, <1>6, <1>7, <1>8

\* The rest of main opens what it follows, or ends.
LEMMA MainKeeps ==
  DemoIInv /\ (QueryReserves \/ DialWs \/ Subscribe \/ WatchPair \/ Fatal \/ UNCHANGED demoVars)
    => DemoIInv'
<1> SUFFICES ASSUME DemoIInv,
                    QueryReserves \/ DialWs \/ Subscribe \/ WatchPair \/ Fatal \/ UNCHANGED demoVars
             PROVE  DemoIInv'
  OBVIOUS
<1> USE DEF DemoIInv, SwapsFollowSyncs, NextSwapIsNew, QueryComesFirst, DriftBounded
<1>1. CASE QueryReserves
  <2>1. reserve' \in [Pairs -> Nat]
    BY <1>1, DemoAssumption DEF QueryReserves, DemoTypeOK
  <2>2. UNCHANGED <<wi, synced, chainVars, netVars>> /\ \A p \in Pairs : synced[p] = Never
    BY <1>1 DEF QueryReserves
  <2>3. at' = "dial"
    BY <1>1 DEF QueryReserves
  <2>4. logs # <<>> => logs[1] \in Log
    BY DEF DemoTypeOK
  <2>5. logs # <<>> => logs[1].kind # "Swap"
    BY <2>2, <2>4 DEF Log
  <2> QED
    BY <2>1, <2>2, <2>3, <2>5 DEF DemoTypeOK, chainVars, netVars
<1>2. CASE DialWs
  BY <1>2 DEF DialWs, DemoTypeOK, followVars, chainVars, netVars
<1>3. CASE Subscribe
  BY <1>3 DEF Subscribe, DemoTypeOK, followVars, chainVars
<1>4. CASE WatchPair
  <2>1. streams' \in [Pairs -> {"none", "live", "ended"}] /\ wi' \in Pairs /\ at' \in {"watch", "loop"}
    <3>1. streams' \in [Pairs -> {"none", "live", "ended"}]
      BY <1>4 DEF WatchPair, DemoTypeOK
    <3>2. wi' \in Pairs
      <4>1. wi \in 1..NPairs /\ NPairs \in Nat \ {0}
        BY DemoAssumption DEF DemoTypeOK, Pairs
      <4>2. (wi < NPairs /\ wi' = wi + 1) \/ wi' = 1
        BY <1>4 DEF WatchPair
      <4> QED
        BY <4>1, <4>2 DEF Pairs
    <3>3. at' \in {"watch", "loop"}
      BY <1>4 DEF WatchPair
    <3> QED
      BY <3>1, <3>2, <3>3
  <2>2. UNCHANGED <<followVars, chainVars, sub, logs>> /\ at = "watch"
    BY <1>4 DEF WatchPair
  <2> QED
    BY <2>1, <2>2 DEF DemoTypeOK, followVars, chainVars
<1>5. CASE Fatal
  BY <1>5 DEF Fatal, DemoTypeOK, followVars, chainVars, netVars
<1>6. CASE UNCHANGED demoVars
  BY <1>6 DEF demoVars, DemoTypeOK, followVars, chainVars, netVars
<1> QED
  BY <1>1, <1>2, <1>3, <1>4, <1>5, <1>6

LEMMA DemoInvariant == DemoSpec => []DemoIInv
<1>1. DemoIInv /\ [DemoNext]_demoVars => DemoIInv'
  BY OutsideKeeps, HandlingKeeps, MainKeeps DEF DemoNext, Run, StartFails, SubEnds, StreamEnds
<1> QED
  BY <1>1, DemoInitial, PTL DEF DemoSpec

-----------------------------------------------------------------------------
\* The demo keeps its types.
THEOREM DemoTyped == DemoSpec => []DemoTypeOK
BY DemoInvariant, PTL DEF DemoIInv

\* The error of a pair's reserves never adds up.
THEOREM DemoDriftIsBounded == DemoSpec => []DriftBounded
BY DemoInvariant, PTL DEF DemoIInv

-----------------------------------------------------------------------------
(* The demo catches up. *)

IsSync(l, p) == l.kind = "Sync" /\ l.pair = p

\* While no block is taken back, the last Sync of a pair tells of its latest change,
\* whether it is on its way or was handled.
LastSyncIsLatest(p) ==
  /\ \A i \in 1..Len(logs) :
       IsSync(logs[i], p) /\ (\A j \in 1..Len(logs) : j > i => ~IsSync(logs[j], p))
         => logs[i].n = chain[p]
  /\ synced[p] # Never /\ (\A i \in 1..Len(logs) : ~IsSync(logs[i], p)) => synced[p] = chain[p]

LogsFit ==
  /\ at \in {"query", "dial", "subscribe"} => sub = "none"
  /\ sub # "live" => logs = <<>>
  /\ sub = "live" /\ undone = 0 => \A p \in Pairs : LastSyncIsLatest(p)

LEMMA LogsInitial == DemoInit => LogsFit
BY DEF DemoInit, LogsFit

\* A change: its Sync, followed by a log that is none, is now the last of its pair.
LEMMA ChangeFits == ASSUME DemoIInv, LogsFit, NEW q \in Pairs, Change(q) PROVE LogsFit'
<1>1. UNCHANGED <<at, followVars, undone, sub>>
  BY DEF Change
<1>2. PICK kind \in {"Swap", "Other"} : logs' = logs \o Logged(q, chain'[q], kind)
  BY DEF Change
<1>3. /\ logs \in Seq(Log) /\ Len(logs) \in Nat /\ chain[q] + 1 \in 0..MaxChanges
      /\ chain'[q] = chain[q] + 1 /\ \A p \in Pairs \ {q} : chain'[p] = chain[p]
  BY DemoAssumption DEF Change, DemoIInv, DemoTypeOK
<1>4. CASE sub # "live"
  <2>1. logs' = <<>>
    BY <1>2, <1>4 DEF LogsFit, Logged
  <2> QED
    BY <1>1, <1>4, <2>1 DEF LogsFit
<1>5. CASE sub = "live"
  <2> DEFINE a == [pair |-> q, n |-> chain'[q], kind |-> "Sync"]
             b == [pair |-> q, n |-> chain'[q], kind |-> kind]
  <2>1. a \in Log /\ b \in Log /\ logs' = logs \o <<a, b>>
    BY <1>2, <1>3, <1>5 DEF Log, Logged
  <2>2. a.n = chain'[q] /\ IsSync(a, q) /\ \A p \in Pairs : ~IsSync(b, p) /\ (p # q => ~IsSync(a, p))
    BY DEF IsSync
  <2> HIDE DEF a, b
  <2>3. /\ Len(logs') = Len(logs) + 2 /\ \A i \in 1..Len(logs) : logs'[i] = logs[i]
        /\ logs'[Len(logs) + 1] = a /\ logs'[Len(logs) + 2] = b
    BY <1>3, <2>1
  <2>4. ASSUME NEW i \in 1..Len(logs')
        PROVE  \/ i \in 1..Len(logs)
               \/ i = Len(logs) + 1 /\ logs'[i] = a
               \/ i = Len(logs) + 2 /\ logs'[i] = b
    BY <1>3, <2>3
  <2>5. Len(logs) + 1 \in 1..Len(logs') /\ Len(logs) + 2 \in 1..Len(logs')
    BY <1>3, <2>3
  <2>6. ASSUME undone = 0, NEW p \in Pairs
        PROVE  LastSyncIsLatest(p)'
    <3>1. LastSyncIsLatest(p)
      BY <1>5, <2>6 DEF LogsFit
    <3>2. CASE p = q
      <4>1. ASSUME NEW i \in 1..Len(logs'), IsSync(logs'[i], p),
                   \A j \in 1..Len(logs') : j > i => ~IsSync(logs'[j], p)
            PROVE  logs'[i].n = chain'[p]
        <5>1. i \notin 1..Len(logs)
          BY <1>3, <2>2, <2>3, <2>5, <3>2, <4>1
        <5> QED
          BY <2>2, <2>4, <3>2, <4>1, <5>1
      <4> QED
        BY <2>2, <2>3, <2>5, <3>2, <4>1 DEF LastSyncIsLatest
    <3>3. CASE p # q
      <4>1. \A i \in 1..Len(logs') : IsSync(logs'[i], p) => i \in 1..Len(logs)
        BY <2>2, <2>4, <3>3
      <4>2. \A i \in 1..Len(logs) : i \in 1..Len(logs') /\ logs'[i] = logs[i]
        BY <1>3, <2>3
      <4> QED
        BY <1>1, <1>3, <3>1, <3>3, <4>1, <4>2 DEF LastSyncIsLatest, followVars
    <3> QED
      BY <3>2, <3>3
  <2> QED
    BY <1>1, <1>5, <2>6 DEF LogsFit
<1> QED
  BY <1>4, <1>5

\* The first log is handled: if it was the last Sync of its pair, that pair is right.
LEMMA HandlingFits == ASSUME DemoIInv, LogsFit, HandleLog PROVE LogsFit'
<1> DEFINE l == Head(logs)
<1>1. /\ logs \in Seq(Log) /\ Len(logs) \in Nat \ {0} /\ 1 \in 1..Len(logs) /\ l = logs[1] /\ l \in Log
      /\ Len(logs') = Len(logs) - 1
      /\ \A i \in 1..Len(logs') : logs'[i] = logs[i + 1]
  BY DEF DemoIInv, DemoTypeOK, HandleLog
<1>2. /\ UNCHANGED <<at, chainVars, sub>> /\ at = "loop" /\ logs # <<>>
      /\ HandleSync(l) \/ HandleSwap(l) \/ HandleOther(l)
  BY DEF HandleLog
<1> HIDE DEF l
<1>3. ASSUME NEW i \in 1..Len(logs), i # 1
      PROVE  i - 1 \in 1..Len(logs') /\ logs'[i - 1] = logs[i]
  <2>1. i - 1 \in 1..Len(logs') /\ (i - 1) + 1 = i
    BY <1>1, <1>3
  <2> QED
    BY <1>1, <2>1
<1>4. \A p \in Pairs : synced'[p] = (IF IsSync(l, p) THEN l.n ELSE synced[p])
  <2>1. synced \in [Pairs -> 0..Never] /\ l.pair \in Pairs
    BY <1>1 DEF DemoIInv, DemoTypeOK, Log
  <2> QED
    BY <1>2, <2>1 DEF HandleSync, HandleSwap, HandleOther, IsSync, followVars
<1>5. ASSUME sub = "live", undone = 0, NEW p \in Pairs
      PROVE  LastSyncIsLatest(p)'
  <2>1. LastSyncIsLatest(p)
    BY <1>5 DEF LogsFit
  <2>2. ASSUME NEW i \in 1..Len(logs'), IsSync(logs'[i], p),
               \A j \in 1..Len(logs') : j > i => ~IsSync(logs'[j], p)
        PROVE  logs'[i].n = chain[p]
    <3>1. i + 1 \in 1..Len(logs) /\ logs[i + 1] = logs'[i]
      BY <1>1
    <3>2. ASSUME NEW j \in 1..Len(logs), j > i + 1 PROVE ~IsSync(logs[j], p)
      <4>1. j # 1 /\ j - 1 > i
        BY <1>1, <3>2
      <4> QED
        BY <1>3, <2>2, <4>1
    <3> QED
      BY <2>1, <2>2, <3>1, <3>2 DEF LastSyncIsLatest
  <2>3. ASSUME synced'[p] # Never, \A i \in 1..Len(logs') : ~IsSync(logs'[i], p)
        PROVE  synced'[p] = chain[p]
    <3>1. \A i \in 1..Len(logs) : i # 1 => ~IsSync(logs[i], p)
      BY <1>3, <2>3
    <3>2. CASE IsSync(l, p)
      <4>1. \A j \in 1..Len(logs) : j > 1 => ~IsSync(logs[j], p)
        BY <3>1
      <4>2. l.n = chain[p]
        BY <1>1, <2>1, <3>2, <4>1 DEF LastSyncIsLatest
      <4> QED
        BY <1>4, <3>2, <4>2
    <3>3. CASE ~IsSync(l, p)
      <4>1. \A i \in 1..Len(logs) : ~IsSync(logs[i], p)
        BY <1>1, <3>1, <3>3
      <4> QED
        BY <1>4, <2>1, <2>3, <3>3, <4>1 DEF LastSyncIsLatest
    <3> QED
      BY <3>2, <3>3
  <2> QED
    BY <1>2, <2>2, <2>3 DEF LastSyncIsLatest, chainVars
<1>6. sub = "live"
  BY <1>2 DEF LogsFit
<1> QED
  BY <1>2, <1>5, <1>6 DEF LogsFit, chainVars

LEMMA LogsStep == DemoIInv /\ LogsFit /\ [DemoNext]_demoVars => LogsFit'
<1> SUFFICES ASSUME DemoIInv, LogsFit, [DemoNext]_demoVars PROVE LogsFit'
  OBVIOUS
<1>1. ASSUME NEW p \in Pairs, Change(p) PROVE LogsFit'
  BY <1>1, ChangeFits
<1>2. ASSUME NEW p \in Pairs, Reorg(p) PROVE LogsFit'
  <2>1. UNCHANGED <<at, sub>> /\ undone' # 0 /\ (sub # "live" => logs' = <<>>)
    BY <1>2 DEF Reorg, DemoIInv, DemoTypeOK, LogsFit, Logged
  <2> QED
    BY <2>1 DEF LogsFit
<1>3. CASE Break
  <2>1. CASE sub = "live" /\ sub' = "ended" /\ logs' = <<>>
    BY <1>3, <2>1 DEF Break, LogsFit
  <2>2. CASE UNCHANGED <<sub, logs>>
    BY <1>3, <2>2 DEF Break, LogsFit, LastSyncIsLatest, followVars, chainVars
  <2> QED
    BY <1>3, <2>1, <2>2 DEF Break
<1>4. CASE QueryReserves \/ DialWs \/ WatchPair \/ Fatal \/ UNCHANGED demoVars
  <2>1. UNCHANGED <<sub, logs, synced, chainVars>>
        /\ (at' \in {"query", "dial", "subscribe"} => at \in {"query", "dial", "subscribe"})
    BY <1>4 DEF QueryReserves, DialWs, WatchPair, Fatal, demoVars, followVars, netVars
  <2> QED
    BY <2>1 DEF LogsFit, LastSyncIsLatest, chainVars
\* Nothing was handled or is on its way when the subscription begins.
<1>5. CASE Subscribe
  <2>1. /\ at' = "watch" /\ sub' = "live" /\ logs' = <<>> /\ synced' = synced
        /\ \A p \in Pairs : synced[p] = Never
    BY <1>5 DEF Subscribe, LogsFit, DemoIInv, QueryComesFirst, followVars
  <2> QED
    BY <2>1 DEF LogsFit, LastSyncIsLatest
<1>6. CASE HandleLog
  BY <1>6, HandlingFits
<1> QED
  BY <1>1, <1>2, <1>3, <1>4, <1>5, <1>6 DEF DemoNext, Run, StartFails, SubEnds, StreamEnds

\* While its subscription lasts and no block was taken back, a pair the demo has heard of
\* and of which no log is on its way has the reserves of its latest block, but for the
\* swap that the block logged: what changed before the subscription is made up for.
THEOREM DemoIsUpToDate ==
  DemoSpec => [](sub = "live" /\ undone = 0 =>
                   \A p \in Pairs :
                     synced[p] # Never /\ (\A i \in 1..Len(logs) : logs[i].pair # p)
                       => reserve[p] \in {chain[p], chain[p] + 1})
<1>1. DemoIInv /\ LogsFit =>
        (sub = "live" /\ undone = 0 =>
           \A p \in Pairs :
             synced[p] # Never /\ (\A i \in 1..Len(logs) : logs[i].pair # p)
               => reserve[p] \in {chain[p], chain[p] + 1})
  BY DEF DemoIInv, DriftBounded, LogsFit, LastSyncIsLatest, IsSync
<1> QED
  BY <1>1, DemoInvariant, LogsInitial, LogsStep, PTL DEF DemoSpec

=============================================================================
