------------------------------ MODULE PriceDemo ------------------------------
(***************************************************************************)
(* The command cmd/uniswap_get_price_demo: it queries the reserves of all  *)
(* its pairs once and from then on follows them by events alone.  One      *)
(* goroutine, main's own, handles the logs; for each pair another one      *)
(* prints what the bindings' WatchSwap and WatchSync give (EventStreams    *)
(* models those two), and ends the process when either stream ends.        *)
(*                                                                         *)
(* As in PriceFeed, a change of a pair moves its reserves by the same      *)
(* amounts, so reserves are known by the number of changes they include.   *)
(* A swap logs Sync, then Swap; liquidity that is added or taken logs      *)
(* Sync, then Mint or Burn, which are only printed.                        *)
(***************************************************************************)
EXTENDS Naturals, Sequences

CONSTANTS
  NPairs,      \* pairs of the map
  MaxChanges,  \* bound: changes of a pair
  MaxUndone    \* bound: changes that are taken back by a reorganisation

ASSUME DemoAssumption == NPairs \in Nat \ {0} /\ MaxChanges \in Nat /\ MaxUndone \in Nat

VARIABLES
  at,       \* "query", "dial", "subscribe", "watch", "loop" or "down"
  wi,       \* the pair whose streams it opens
  reserve,  \* pairs[p].reserve, of each pair
  chain,    \* changes of each pair in the latest block
  undone,   \* changes taken back
  sub,      \* the subscription: "none", "live" or "ended"
  logs,     \* its logs on their way
  streams,  \* of each pair, the two watched streams: "none", "live" or "ended"
  synced    \* of each pair, the change its last handled Sync told of: a ghost

followVars == <<reserve, synced>>
netVars    == <<sub, logs, streams>>
chainVars  == <<chain, undone>>
demoVars   == <<at, wi, followVars, chainVars, netVars>>

\* The addresses of the table.  The address that it gives two entries is one pair,
\* by the name and tokens of the later entry.
Pairs == 1..NPairs
Never == MaxChanges + 1  \* no Sync was handled
Log == [pair : Pairs, n : 0..MaxChanges, kind : {"Sync", "Swap", "Other"}]

DemoTypeOK ==
  /\ at \in {"query", "dial", "subscribe", "watch", "loop", "down"}
  /\ wi \in Pairs
  /\ reserve \in [Pairs -> Nat] /\ chain \in [Pairs -> 0..MaxChanges]
  /\ undone \in 0..MaxUndone
  /\ sub \in {"none", "live", "ended"} /\ logs \in Seq(Log)
  /\ streams \in [Pairs -> {"none", "live", "ended"}]
  /\ synced \in [Pairs -> 0..Never]

DemoInit ==
  /\ at = "query" /\ wi = 1
  /\ chain = [p \in Pairs |-> 0] /\ undone = 0
  /\ reserve = chain
  /\ sub = "none" /\ logs = <<>>
  /\ streams = [p \in Pairs |-> "none"]
  /\ synced = [p \in Pairs |-> Never]

Up == at # "down"

-----------------------------------------------------------------------------
(* The chain and the node (external). *)

Logged(p, n, kind) ==
  IF sub # "live" THEN <<>>
  ELSE << [pair |-> p, n |-> n, kind |-> "Sync"], [pair |-> p, n |-> n, kind |-> kind] >>

Change(p) ==
  /\ chain[p] + undone < MaxChanges
  /\ chain' = [chain EXCEPT ![p] = @ + 1]
  /\ \E kind \in {"Swap", "Other"} : logs' = logs \o Logged(p, chain'[p], kind)
  /\ UNCHANGED <<at, wi, followVars, undone, sub, streams>>

\* A block with a swap is taken back: its logs come again, marked as removed.
Reorg(p) ==
  /\ chain[p] > 0 /\ undone < MaxUndone
  /\ chain' = [chain EXCEPT ![p] = @ - 1] /\ undone' = undone + 1
  /\ logs' = logs \o Logged(p, chain[p], "Swap")
  /\ UNCHANGED <<at, wi, followVars, sub, streams>>

\* The subscription, or the streams of a pair, break.
Break ==
  /\ \/ sub = "live" /\ sub' = "ended" /\ logs' = <<>> /\ UNCHANGED streams
     \/ \E p \in Pairs : /\ streams[p] = "live"
                         /\ streams' = [streams EXCEPT ![p] = "ended"]
                         /\ UNCHANGED <<sub, logs>>
  /\ UNCHANGED <<at, wi, followVars, chainVars>>

-----------------------------------------------------------------------------
(* Variants of the actions below with a plausible bug, to show what the       *)
(* properties of this module detect.                                          *)

\* The pair is a clone, as in the arbitrage's handleLog.
HandleSync_Clone(l) ==
  /\ l.kind = "Sync"
  /\ synced' = [synced EXCEPT ![l.pair] = l.n]
  /\ reserve' = reserve

\* The amounts are added once for each token.
HandleSwap_Twice(l) ==
  /\ l.kind = "Swap"
  /\ reserve' = [reserve EXCEPT ![l.pair] = @ + 2]
  /\ synced' = synced

\* The goroutine's variables are those of the loop, so it looks at the last pair.
StreamEnds_Last ==
  /\ Up /\ streams[NPairs] = "ended"
  /\ at' = "down"
  /\ UNCHANGED <<wi, followVars, chainVars, netVars>>

-----------------------------------------------------------------------------
(* main. *)

Fatal == at' = "down" /\ UNCHANGED <<wi, followVars, chainVars, netVars>>

QueryReserves ==
  /\ at = "query"
  /\ at' = "dial" /\ reserve' = chain
  /\ UNCHANGED <<wi, synced, chainVars, netVars>>

DialWs ==
  /\ at = "dial"
  /\ at' = "subscribe"
  /\ UNCHANGED <<wi, followVars, chainVars, netVars>>

\* What changed between the query and this is not in the reserves.
Subscribe ==
  /\ at = "subscribe"
  /\ at' = "watch" /\ sub' = "live"
  /\ UNCHANGED <<wi, followVars, chainVars, logs, streams>>

\* WatchSwap, WatchSync and the goroutine of the next pair; then the loop.
WatchPair ==
  /\ at = "watch"
  /\ streams' = [streams EXCEPT ![wi] = "live"]
  /\ IF wi < NPairs THEN wi' = wi + 1 /\ at' = at ELSE wi' = 1 /\ at' = "loop"
  /\ UNCHANGED <<followVars, chainVars, sub, logs>>

\* Every call before the loop ends the process when it fails.
StartFails == at \in {"query", "dial", "subscribe", "watch"} /\ Fatal

\* The reserves become the numbers of the log.
HandleSync(l) ==
  /\ l.kind = "Sync"
  /\ reserve' = [reserve EXCEPT ![l.pair] = l.n]
  /\ synced' = [synced EXCEPT ![l.pair] = l.n]

\* The amounts are added, though the Sync before it included them; the log's
\* removed flag is not looked at.
HandleSwap(l) ==
  /\ l.kind = "Swap"
  /\ reserve' = [reserve EXCEPT ![l.pair] = @ + 1]
  /\ synced' = synced

HandleOther(l) == l.kind = "Other" /\ UNCHANGED followVars

HandleLog ==
  /\ at = "loop" /\ logs # <<>>
  /\ LET l == Head(logs) IN HandleSync(l) \/ HandleSwap(l) \/ HandleOther(l)
  /\ logs' = Tail(logs)
  /\ UNCHANGED <<at, wi, chainVars, sub, streams>>

SubEnds == at = "loop" /\ sub = "ended" /\ Fatal

\* In the goroutine of a pair.
StreamEnds == Up /\ (\E p \in Pairs : streams[p] = "ended") /\ Fatal

-----------------------------------------------------------------------------
Run == QueryReserves \/ DialWs \/ Subscribe \/ WatchPair \/ HandleLog

DemoNext ==
  \/ \E p \in Pairs : Change(p) \/ Reorg(p)
  \/ Break
  \/ Run \/ StartFails \/ SubEnds \/ StreamEnds

DemoSpec == DemoInit /\ [][DemoNext]_demoVars

\* main runs, its select does not forget an ended subscription, and so do the
\* goroutines of the pairs.
DemoFairSpec ==
  DemoSpec /\ WF_demoVars(Run) /\ SF_demoVars(SubEnds) /\ WF_demoVars(StreamEnds)

-----------------------------------------------------------------------------
(* Properties. *)

\* The error of a pair's reserves is at most one swap and never adds up: after a
\* Sync they are its numbers, or those and the swap that came with it.
DriftBounded ==
  \A p \in Pairs : synced[p] # Never => reserve[p] \in {synced[p], synced[p] + 1}

\* What changed between the query and the subscription is made up for by the pair's
\* next Sync: once the chain is quiet, a pair that was heard of is right but for the
\* swap that its last block logged.
CatchesUp ==
  \A p \in Pairs :
    <>[](Up /\ undone = 0 /\ synced[p] # Never => reserve[p] \in {chain[p], chain[p] + 1})

\* The process does not go on with a part of its pairs: when the subscription or a
\* stream of any pair ends, it ends.
EndedStreamEndsDemo ==
  (at = "loop" /\ (sub = "ended" \/ \E p \in Pairs : streams[p] = "ended")) ~> ~Up

=============================================================================
