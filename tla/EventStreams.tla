---------------------------- MODULE EventStreams ----------------------------
(***************************************************************************)
(* The event half of the contract bindings (exchange/bindings).  For every *)
(* event of a contract abigen generates the same machine: FilterX gives an *)
(* iterator over the logs of the chain, WatchX a goroutine that forwards   *)
(* new logs to a channel of the caller, ParseX unpacks one log.  The text  *)
(* of these machines differs only in the names and the indexed arguments,  *)
(* so one machine is modelled, for whichever of the twelve events ev is;   *)
(* its actions are mapped to the text of the pair's Swap.                  *)
(*                                                                         *)
(* go-ethereum is external: BoundContract.FilterLogs and WatchLogs return  *)
(* a channel of 128 logs and a subscription, whose goroutine, here the     *)
(* source, fills the channel; event.NewSubscription runs WatchX's          *)
(* goroutine and its Unsubscribe waits for it.                             *)
(***************************************************************************)
EXTENDS Naturals, Sequences

CONSTANTS
  Addr,     \* values of indexed arguments
  MaxLogs,  \* bound: logs of the event
  LogCap    \* capacity of the channel of logs (128)

ASSUME StreamAssumption == MaxLogs \in Nat /\ LogCap \in Nat \ {0}

-----------------------------------------------------------------------------
(* An event: its indexed arguments in the order of the contract's declaration, *)
(* which is the order of a log's topics, and in the order in which FilterX and *)
(* WatchX pass their rules.                                                    *)

Event(name, topics, rules) == [name |-> name, topics |-> topics, rules |-> rules]

\* A binding whose rules are in the order of another version of the contract.
PairTransfer_Swapped == Event("Pair.Transfer", <<"from", "to">>, <<"to", "from">>)

PairApproval == Event("Pair.Approval", <<"owner", "spender">>, <<"owner", "spender">>)
PairBurn     == Event("Pair.Burn", <<"sender", "to">>, <<"sender", "to">>)
PairMint     == Event("Pair.Mint", <<"sender">>, <<"sender">>)
PairSwap     == Event("Pair.Swap", <<"sender", "to">>, <<"sender", "to">>)
PairSync     == Event("Pair.Sync", <<>>, <<>>)
PairTransfer == Event("Pair.Transfer", <<"from", "to">>, <<"from", "to">>)
Erc20Approval == Event("Erc20.Approval", <<"owner", "spender">>, <<"owner", "spender">>)
Erc20LogChangeDCRMOwner ==
  Event("Erc20.LogChangeDCRMOwner", <<"oldOwner", "newOwner", "effectiveTime">>,
        <<"oldOwner", "newOwner", "effectiveTime">>)
Erc20LogSwapin  == Event("Erc20.LogSwapin", <<"txhash", "account">>, <<"txhash", "account">>)
Erc20LogSwapout == Event("Erc20.LogSwapout", <<"account", "bindaddr">>, <<"account", "bindaddr">>)
Erc20Transfer   == Event("Erc20.Transfer", <<"from", "to">>, <<"from", "to">>)
FactoryPairCreated == Event("Factory.PairCreated", <<"token0", "token1">>, <<"token0", "token1">>)

Events ==
  { PairApproval, PairBurn, PairMint, PairSwap, PairSync, PairTransfer,
    Erc20Approval, Erc20LogChangeDCRMOwner, Erc20LogSwapin, Erc20LogSwapout, Erc20Transfer,
    FactoryPairCreated }

-----------------------------------------------------------------------------
VARIABLES
  ev,        \* the event
  mode,      \* "filter" or "watch"
  wanted,    \* the values the caller asked for, by argument; none means any
  opened,    \* FilterX or WatchX has returned
  asked,     \* the logs the caller asked for: a ghost
  backlog,   \* logs the source has not yet put into the channel
  logs,      \* the channel
  source,    \* "run", or "over": its Err channel is closed, or holds an error
  quit,      \* Close or Unsubscribe was called
  it,        \* the iterator: "going", "done" (it.done) or "failed" (it.fail)
  fwd,       \* WatchX's goroutine: "select", "sink" or "over"
  held,      \* the log it is about to send
  caller,    \* "idle", "next", "closing" or, in watch, "reading"
  answer,    \* of the last Next: "none", "more" or "end"
  delivered  \* the logs the caller has been given

askVars    == <<ev, mode, wanted>>
sourceVars == <<backlog, source>>
fwdVars    == <<fwd, held>>
callVars   == <<quit, caller, answer>>
streamVars == <<askVars, opened, asked, sourceVars, logs, it, fwdVars, callVars, delivered>>

\* A log: its topics, and whether it unpacks as the event.
Log == [topic : [1..Len(ev.topics) -> Addr], good : BOOLEAN]

Arguments == {ev.topics[i] : i \in 1..Len(ev.topics)}

StreamTypeOK ==
  /\ ev \in Events /\ mode \in {"filter", "watch"}
  /\ wanted \in [Arguments -> SUBSET Addr]
  /\ opened \in BOOLEAN /\ quit \in BOOLEAN
  /\ asked \in Seq(Log) /\ backlog \in Seq(Log)
  /\ logs \in Seq(Log) /\ Len(logs) <= LogCap
  /\ source \in {"run", "over"}
  /\ it \in {"going", "done", "failed"}
  /\ fwd \in {"select", "sink", "over"}
  /\ held \in Seq({l \in Log : l.good}) /\ Len(held) = (IF fwd = "sink" THEN 1 ELSE 0)
  /\ caller \in {"idle", "next", "closing", "reading"}
  /\ answer \in {"none", "more", "end"}
  /\ delivered \in Seq({l \in Log : l.good})

StreamInit ==
  /\ ev \in Events /\ mode \in {"filter", "watch"}
  /\ \/ wanted = [a \in Arguments |-> {}]
     \/ \E b \in Arguments, v \in Addr : wanted = [a \in Arguments |-> IF a = b THEN {v} ELSE {}]
  /\ opened = FALSE /\ quit = FALSE
  /\ asked = <<>> /\ backlog = <<>> /\ logs = <<>> /\ held = <<>> /\ delivered = <<>>
  /\ source = "run" /\ it = "going" /\ fwd = "select"
  /\ caller = "idle" /\ answer = "none"

-----------------------------------------------------------------------------
(* The contract and the node (external). *)

\* What the caller means: by the names of the arguments.
Asked(l) == \A i \in 1..Len(ev.topics) :
              wanted[ev.topics[i]] = {} \/ l.topic[i] \in wanted[ev.topics[i]]

\* What the node is asked: the i-th rule is about the i-th topic.
Found(l) == \A i \in 1..Len(ev.rules) :
              wanted[ev.rules[i]] = {} \/ l.topic[i] \in wanted[ev.rules[i]]

\* A log of the contract: before FilterX, or while WatchX's subscription is there.
Emit ==
  /\ IF mode = "filter" THEN ~opened ELSE opened /\ source = "run"
  /\ Len(asked) < MaxLogs
  /\ \E l \in Log :
       /\ Asked(l) \/ Found(l)
       /\ asked' = IF Asked(l) THEN Append(asked, l) ELSE asked
       /\ backlog' = IF Found(l) THEN Append(backlog, l) ELSE backlog
  /\ UNCHANGED <<askVars, opened, source, logs, it, fwdVars, callVars, delivered>>

SourcePuts ==
  /\ opened /\ source = "run" /\ backlog # <<>> /\ Len(logs) < LogCap
  /\ logs' = Append(logs, Head(backlog)) /\ backlog' = Tail(backlog)
  /\ UNCHANGED <<askVars, opened, asked, source, it, fwdVars, callVars, delivered>>

\* The producer of FilterLogs is done, or was told to quit; the subscription of
\* WatchLogs breaks.
SourceEnds ==
  /\ opened /\ source = "run"
  /\ mode = "filter" => backlog = <<>> \/ quit
  /\ source' = "over" /\ backlog' = <<>>
  /\ UNCHANGED <<askVars, opened, asked, logs, it, fwdVars, callVars, delivered>>

-----------------------------------------------------------------------------
(* Variants of the actions below with a plausible bug, to show what the        *)
(* properties of this module detect.                                           *)

\* An iterator that ends with its subscription.
NextEnds_NoDrain ==
  /\ caller = "next" /\ it = "going" /\ source = "over"
  /\ it' = "done" /\ caller' = "idle" /\ answer' = "end"
  /\ UNCHANGED <<askVars, opened, asked, sourceVars, logs, fwdVars, quit, delivered>>

\* An iterator that passes over a log that does not unpack.
NextTakes_SkipsBad ==
  /\ caller = "next" /\ it # "failed" /\ logs # <<>>
  /\ logs' = Tail(logs)
  /\ IF Head(logs).good
     THEN delivered' = Append(delivered, Head(logs)) /\ answer' = "more" /\ caller' = "idle"
     ELSE UNCHANGED <<delivered, answer, caller>>
  /\ UNCHANGED <<askVars, opened, asked, sourceVars, it, fwdVars, quit>>

\* A plain sink <- event.
WatchBreaks_OuterOnly ==
  /\ mode = "watch" /\ opened /\ fwd = "select" /\ source = "over"
  /\ fwd' = "over" /\ held' = <<>>
  /\ UNCHANGED <<askVars, opened, asked, sourceVars, logs, it, callVars, delivered>>

WatchQuits_OuterOnly ==
  /\ mode = "watch" /\ opened /\ fwd = "select" /\ quit
  /\ fwd' = "over" /\ held' = <<>>
  /\ source' = "over" /\ backlog' = <<>>
  /\ UNCHANGED <<askVars, opened, asked, logs, it, callVars, delivered>>

-----------------------------------------------------------------------------
(* FilterX and its iterator. *)

\* The rules become a query, whose answer the source will put into the channel.
Filter ==
  /\ mode = "filter" /\ ~opened
  /\ opened' = TRUE
  /\ UNCHANGED <<askVars, asked, sourceVars, logs, it, fwdVars, callVars, delivered>>

CallNext ==
  /\ mode = "filter" /\ opened /\ caller = "idle"
  /\ caller' = "next"
  /\ UNCHANGED <<askVars, opened, asked, sourceVars, logs, it, fwdVars, quit, answer, delivered>>

NextFailed ==
  /\ caller = "next" /\ it = "failed"
  /\ caller' = "idle" /\ answer' = "end"
  /\ UNCHANGED <<askVars, opened, asked, sourceVars, logs, it, fwdVars, quit, delivered>>

\* A log is there, whether or not the source has ended: it unpacks or fails.
NextTakes ==
  /\ caller = "next" /\ it # "failed" /\ logs # <<>>
  /\ logs' = Tail(logs) /\ caller' = "idle"
  /\ \/ /\ Head(logs).good
        /\ delivered' = Append(delivered, Head(logs)) /\ answer' = "more" /\ it' = it
     \/ /\ ~Head(logs).good
        /\ it' = "failed" /\ answer' = "end" /\ delivered' = delivered
  /\ UNCHANGED <<askVars, opened, asked, sourceVars, fwdVars, quit>>

\* sub.Err(): the source has ended, without an error, and Next calls itself.
NextEnds ==
  /\ caller = "next" /\ it = "going" /\ source = "over"
  /\ it' = "done"
  /\ UNCHANGED <<askVars, opened, asked, sourceVars, logs, fwdVars, callVars, delivered>>

NextDrained ==
  /\ caller = "next" /\ it = "done" /\ logs = <<>>
  /\ caller' = "idle" /\ answer' = "end"
  /\ UNCHANGED <<askVars, opened, asked, sourceVars, logs, it, fwdVars, quit, delivered>>

-----------------------------------------------------------------------------
(* WatchX and its goroutine. *)

Watch ==
  /\ mode = "watch" /\ ~opened
  /\ opened' = TRUE
  /\ UNCHANGED <<askVars, asked, sourceVars, logs, it, fwdVars, callVars, delivered>>

\* A log of the channel is unpacked; the goroutine ends with its error.  On its
\* way out it unsubscribes from the source.
WatchTakes ==
  /\ mode = "watch" /\ opened /\ fwd = "select" /\ logs # <<>>
  /\ logs' = Tail(logs)
  /\ \/ /\ Head(logs).good
        /\ fwd' = "sink" /\ held' = <<Head(logs)>>
        /\ UNCHANGED sourceVars
     \/ /\ ~Head(logs).good
        /\ fwd' = "over" /\ held' = held
        /\ source' = "over" /\ backlog' = <<>>
  /\ UNCHANGED <<askVars, opened, asked, it, callVars, delivered>>

WatchSends ==
  /\ fwd = "sink" /\ caller = "reading"
  /\ delivered' = delivered \o held
  /\ fwd' = "select" /\ held' = <<>> /\ caller' = "idle"
  /\ UNCHANGED <<askVars, opened, asked, sourceVars, logs, it, quit, answer>>

\* sub.Err() in either select.
WatchBreaks ==
  /\ mode = "watch" /\ opened /\ fwd # "over" /\ source = "over"
  /\ fwd' = "over" /\ held' = <<>>
  /\ UNCHANGED <<askVars, opened, asked, sourceVars, logs, it, callVars, delivered>>

\* quit in either select.
WatchQuits ==
  /\ mode = "watch" /\ opened /\ fwd # "over" /\ quit
  /\ fwd' = "over" /\ held' = <<>>
  /\ source' = "over" /\ backlog' = <<>>
  /\ UNCHANGED <<askVars, opened, asked, logs, it, callVars, delivered>>

\* The caller reads its channel, or turns to something else.
Read ==
  /\ mode = "watch" /\ opened
  /\ \/ caller = "idle" /\ caller' = "reading"
     \/ caller = "reading" /\ caller' = "idle"
  /\ UNCHANGED <<askVars, opened, asked, sourceVars, logs, it, fwdVars, quit, answer, delivered>>

-----------------------------------------------------------------------------
(* Close, and Unsubscribe: they wait for the goroutine. *)

Close ==
  /\ opened /\ caller = "idle"
  /\ quit' = TRUE /\ caller' = "closing"
  /\ UNCHANGED <<askVars, opened, asked, sourceVars, logs, it, fwdVars, answer, delivered>>

CloseReturns ==
  /\ caller = "closing"
  /\ IF mode = "filter" THEN source = "over" ELSE fwd = "over"
  /\ caller' = "idle"
  /\ UNCHANGED <<askVars, opened, asked, sourceVars, logs, it, fwdVars, quit, answer, delivered>>

-----------------------------------------------------------------------------
Source  == SourcePuts \/ (mode = "filter" /\ SourceEnds)
Next    == NextFailed \/ NextTakes \/ NextEnds \/ NextDrained
Forward == WatchTakes \/ WatchSends \/ WatchBreaks \/ WatchQuits

StreamNext ==
  \/ Emit \/ SourcePuts \/ SourceEnds
  \/ Filter \/ CallNext \/ Next
  \/ Watch \/ Forward \/ Read
  \/ Close \/ CloseReturns

StreamSpec == StreamInit /\ [][StreamNext]_streamVars

\* The goroutines run; the caller may call nothing more and read nothing more.
StreamFairSpec ==
  StreamSpec /\ WF_streamVars(Source) /\ WF_streamVars(Next) /\ WF_streamVars(Forward)
             /\ WF_streamVars(CloseReturns)

-----------------------------------------------------------------------------
(* Properties. *)

\* The caller is given the logs it asked for, by the names of the arguments, in the
\* order of the chain and without a hole, though every goroutine on their way may
\* be cut off at any point.
OrderKept ==
  Len(delivered) <= Len(asked) /\ delivered = SubSeq(asked, 1, Len(delivered))

\* An iterator that says there is no more, without an error and without having been
\* closed, has given everything: Next drains the channel after the subscription.
CompleteOrError ==
  mode = "filter" /\ answer = "end" /\ it # "failed" /\ ~quit => delivered = asked

\* The bindings implement LogDelivery.  An iterator has ended when it said so without
\* an error; a watch is stopped when its subscription is over, and then fails.
AnyLog == UNION {[topic : [1..n -> Addr], good : BOOLEAN] : n \in 0..3}

Stopped == quit \/ (mode = "watch" /\ source = "over")
Ending  == IF it = "failed" \/ fwd = "over" THEN "failed"
           ELSE IF answer = "end" THEN "ended" ELSE "open"

Delivery == INSTANCE LogDelivery WITH
  Item <- AnyLog, Good <- {l \in AnyLog : l.good}, stopped <- Stopped, state <- Ending
DeliverySpec == Delivery!DeliverySpec

\* Next returns, whatever the other goroutine is at; Close and Unsubscribe return,
\* also when the caller stopped reading and the goroutine has an event in hand.
CallsReturn ==
  /\ caller = "next" ~> caller # "next"
  /\ caller = "closing" ~> caller # "closing"

\* When the node's subscription is over, the one the caller holds ends too, which
\* is how the price demo notices, also when the caller reads nothing.
BreakIsReported == (mode = "watch" /\ source = "over") ~> fwd = "over"

=============================================================================
