-------------------------- MODULE EventStreamsProofs --------------------------
(***************************************************************************)
(* The bindings keep the order of the logs, for any addresses, any number  *)
(* of logs and any capacity of their channel: what the caller was given,   *)
(* what the goroutine holds, what the channel holds and what the source    *)
(* has yet to send are, one after the other, what the caller asked for,    *)
(* until a goroutine is cut off; then its part is missing at the end.      *)
(***************************************************************************)
EXTENDS EventStreams, SequenceTheorems, TLAPS

\* s is how t begins.
Begins(s, t) == Len(s) <= Len(t) /\ \A i \in 1..Len(s) : s[i] = t[i]

Flow == ((delivered \o held) \o logs) \o backlog

\* Which goroutines a mode has, and when they are cut off.
ModeFits ==
  /\ mode = "filter" => fwd = "select" /\ held = <<>>
  /\ mode = "watch" => it = "going" /\ caller # "next" /\ answer = "none"
  /\ ~opened => source = "run" /\ it = "going" /\ caller = "idle"
  /\ source = "run" => fwd # "over"

FlowFits ==
  /\ Begins(delivered, asked)
  /\ it # "failed" /\ fwd # "over" => Begins(Flow, asked)
  /\ it # "failed" /\ source = "run" => Flow = asked

StreamIInv == StreamTypeOK /\ ModeFits /\ FlowFits

-----------------------------------------------------------------------------
(* Sequences. *)

\* The head of one goes to the end of the one before it.
LEMMA HandOver ==
  ASSUME NEW S, NEW s \in Seq(S), NEW t \in Seq(S), t # <<>>
  PROVE  Append(s, Head(t)) \o Tail(t) = s \o t
<1>1. /\ Append(s, Head(t)) \in Seq(S) /\ Tail(t) \in Seq(S)
      /\ Len(Append(s, Head(t)) \o Tail(t)) = Len(s \o t)
  OBVIOUS
<1>2. \A i \in 1..Len(s \o t) : (Append(s, Head(t)) \o Tail(t))[i] = (s \o t)[i]
  OBVIOUS
<1> QED
  BY <1>1, <1>2, SeqEqual

LEMMA AppendToConcat ==
  ASSUME NEW S, NEW s \in Seq(S), NEW t \in Seq(S), NEW x \in S
  PROVE  s \o Append(t, x) = Append(s \o t, x)
<1>1. /\ s \o Append(t, x) \in Seq(S) /\ Append(s \o t, x) \in Seq(S)
      /\ Len(s \o Append(t, x)) = Len(Append(s \o t, x))
  OBVIOUS
<1>2. \A i \in 1..Len(s \o Append(t, x)) : (s \o Append(t, x))[i] = Append(s \o t, x)[i]
  OBVIOUS
<1> QED
  BY <1>1, <1>2, SeqEqual

LEMMA BeginsConcat ==
  ASSUME NEW S, NEW s \in Seq(S), NEW t \in Seq(S), NEW u \in Seq(S), Begins(s \o t, u)
  PROVE  Begins(s, u)
BY DEF Begins

LEMMA BeginsItself ==
  ASSUME NEW S, NEW s \in Seq(S)
  PROVE  Begins(s, s)
BY DEF Begins

LEMMA BeginsAppend ==
  ASSUME NEW S, NEW s \in Seq(S), NEW t \in Seq(S), NEW x \in S, Begins(s, t)
  PROVE  Begins(s, Append(t, x))
BY DEF Begins

LEMMA BeginsIsSubSeq ==
  ASSUME NEW S, NEW s \in Seq(S), NEW t \in Seq(S), Begins(s, t)
  PROVE  s = SubSeq(t, 1, Len(s))
<1>1. /\ Len(SubSeq(t, 1, Len(s))) = Len(s) /\ SubSeq(t, 1, Len(s)) \in Seq(S)
      /\ \A i \in 1..Len(s) : SubSeq(t, 1, Len(s))[i] = t[i]
  BY DEF Begins
<1> QED
  BY <1>1, SeqEqual DEF Begins

-----------------------------------------------------------------------------
(* The events. *)

\* The bindings pass their rules in the order of the contract's arguments.
LEMMA RulesFit == \A e \in Events : e.rules = e.topics
BY DEF Events, Event, PairApproval, PairBurn, PairMint, PairSwap, PairSync, PairTransfer,
       Erc20Approval, Erc20LogChangeDCRMOwner, Erc20LogSwapin, Erc20LogSwapout, Erc20Transfer,
       FactoryPairCreated

\* So the node looks for what the caller asked for.
LEMMA FoundIsAsked ==
  ASSUME ev \in Events, NEW l
  PROVE  Found(l) <=> Asked(l)
BY RulesFit DEF Found, Asked

\* What is on its way, and what came before.
LEMMA Sequences ==
  ASSUME StreamIInv
  PROVE  /\ delivered \in Seq(Log) /\ held \in Seq(Log) /\ logs \in Seq(Log) /\ backlog \in Seq(Log)
         /\ asked \in Seq(Log)
         /\ delivered \o held \in Seq(Log) /\ (delivered \o held) \o logs \in Seq(Log)
         /\ Flow \in Seq(Log)
<1>1. delivered \in Seq({l \in Log : l.good}) /\ held \in Seq({l \in Log : l.good})
  BY DEF StreamIInv, StreamTypeOK
<1>2. delivered \in Seq(Log) /\ held \in Seq(Log)
  BY <1>1
<1> QED
  BY <1>2 DEF StreamIInv, StreamTypeOK, Flow

\* The event stays, and with it what its logs and arguments are.
LEMMA EventStays ==
  ASSUME UNCHANGED askVars
  PROVE  Log' = Log /\ Arguments' = Arguments
BY DEF askVars, Log, Arguments

-----------------------------------------------------------------------------
LEMMA StreamInitial == StreamInit => StreamIInv
<1> SUFFICES ASSUME StreamInit PROVE StreamIInv
  OBVIOUS
<1>1. wanted \in [Arguments -> SUBSET Addr]
  <2>1. CASE wanted = [a \in Arguments |-> {}]
    BY <2>1
  <2>2. CASE \E b \in Arguments, v \in Addr : wanted = [a \in Arguments |-> IF a = b THEN {v} ELSE {}]
    BY <2>2
  <2> QED
    BY <2>1, <2>2 DEF StreamInit
<1>2. /\ asked = <<>> /\ backlog = <<>> /\ logs = <<>> /\ held = <<>> /\ delivered = <<>>
      /\ Len(logs) = 0 /\ Len(held) = 0
  BY DEF StreamInit
<1>3. StreamTypeOK
  <2>1. /\ asked \in Seq(Log) /\ backlog \in Seq(Log) /\ logs \in Seq(Log)
        /\ held \in Seq({l \in Log : l.good}) /\ delivered \in Seq({l \in Log : l.good})
    BY <1>2
  <2>2. 0 <= LogCap
    BY StreamAssumption
  <2>3. /\ opened \in BOOLEAN /\ quit \in BOOLEAN
        /\ source \in {"run", "over"} /\ it \in {"going", "done", "failed"}
        /\ fwd = "select" /\ caller \in {"idle", "next", "closing", "reading"}
        /\ answer \in {"none", "more", "end"}
        /\ ev \in Events /\ mode \in {"filter", "watch"}
    BY DEF StreamInit
  <2> QED
    BY <1>1, <1>2, <2>1, <2>2, <2>3 DEF StreamTypeOK
<1>4. ModeFits
  BY DEF StreamInit, ModeFits
<1>5. FlowFits
  <2>1. Flow = <<>>
    BY <1>2 DEF Flow
  <2> QED
    BY <1>2, <2>1 DEF FlowFits, Begins
<1> QED
  BY <1>3, <1>4, <1>5 DEF StreamIInv

\* A log of the contract is asked for and found, or neither.
LEMMA EmitAppends ==
  ASSUME StreamIInv, Emit
  PROVE  \E l \in Log : asked' = Append(asked, l) /\ backlog' = Append(backlog, l)
<1>1. PICK l \in Log : /\ Asked(l) \/ Found(l)
                       /\ asked' = IF Asked(l) THEN Append(asked, l) ELSE asked
                       /\ backlog' = IF Found(l) THEN Append(backlog, l) ELSE backlog
  BY DEF Emit
<1>2. Asked(l) /\ Found(l)
  BY <1>1, FoundIsAsked DEF StreamIInv, StreamTypeOK
<1> QED
  BY <1>1, <1>2

LEMMA EmitKeeps == StreamIInv /\ Emit => StreamIInv'
<1> SUFFICES ASSUME StreamIInv, Emit PROVE StreamIInv'
  OBVIOUS
<1>1. UNCHANGED <<askVars, opened, source, logs, it, fwdVars, callVars, delivered>>
  BY DEF Emit
<1>2. source = "run" /\ fwd # "over"
  BY DEF Emit, StreamIInv, ModeFits
<1>3. PICK l \in Log : asked' = Append(asked, l) /\ backlog' = Append(backlog, l)
  BY EmitAppends
<1>4. Log' = Log /\ Arguments' = Arguments
  BY <1>1, EventStays
<1>5. StreamTypeOK'
  BY <1>1, <1>3, <1>4, Sequences
     DEF StreamIInv, StreamTypeOK, askVars, fwdVars, callVars
<1>6. ModeFits'
  BY <1>1 DEF StreamIInv, ModeFits, askVars, fwdVars, callVars
<1>7. FlowFits'
  <2>1. Flow' = Append(Flow, l)
    <3>1. Flow' = ((delivered \o held) \o logs) \o Append(backlog, l)
      BY <1>1, <1>3 DEF Flow, fwdVars
    <3>2. (delivered \o held) \o logs \in Seq(Log) /\ backlog \in Seq(Log)
      BY Sequences
    <3>3. ((delivered \o held) \o logs) \o Append(backlog, l)
            = Append(((delivered \o held) \o logs) \o backlog, l)
      BY <1>3, <3>2, AppendToConcat
    <3> QED
      BY <3>1, <3>3 DEF Flow
  <2>2. Begins(delivered', asked')
    BY <1>1, <1>3, Sequences, BeginsAppend DEF StreamIInv, FlowFits
  <2>3. it # "failed" => Flow' = asked'
    BY <1>2, <1>3, <2>1 DEF StreamIInv, FlowFits
  <2>4. it # "failed" => Begins(Flow', asked')
    <3>1. asked' \in Seq(Log)
      BY <1>3, Sequences
    <3> QED
      BY <2>3, <3>1, BeginsItself
  <2> QED
    BY <1>1, <2>2, <2>3, <2>4 DEF FlowFits
<1> QED
  BY <1>5, <1>6, <1>7 DEF StreamIInv

\* The source puts a log into the channel.
LEMMA SourcePutsKeeps == StreamIInv /\ SourcePuts => StreamIInv'
<1> SUFFICES ASSUME StreamIInv, SourcePuts PROVE StreamIInv'
  OBVIOUS
<1>1. /\ UNCHANGED <<askVars, opened, asked, source, it, fwdVars, callVars, delivered>>
      /\ logs' = Append(logs, Head(backlog)) /\ backlog' = Tail(backlog)
      /\ backlog # <<>> /\ Len(logs) < LogCap
  BY DEF SourcePuts
<1>2. Log' = Log /\ Arguments' = Arguments
  BY <1>1, EventStays
<1>3. Flow' = Flow
  <2>1. Flow' = ((delivered \o held) \o Append(logs, Head(backlog))) \o Tail(backlog)
    BY <1>1 DEF Flow, fwdVars
  <2>2. Head(backlog) \in Log
    BY <1>1, Sequences
  <2>3. /\ delivered \o held \in Seq(Log) /\ (delivered \o held) \o logs \in Seq(Log)
        /\ logs \in Seq(Log) /\ backlog \in Seq(Log)
    BY Sequences
  <2>4. (delivered \o held) \o Append(logs, Head(backlog))
          = Append((delivered \o held) \o logs, Head(backlog))
    BY <2>2, <2>3, AppendToConcat
  <2>5. Append((delivered \o held) \o logs, Head(backlog)) \o Tail(backlog)
          = ((delivered \o held) \o logs) \o backlog
    BY <1>1, <2>3, HandOver
  <2> QED
    BY <2>1, <2>4, <2>5 DEF Flow
<1>4. StreamTypeOK'
  <2>1. logs' \in Seq(Log) /\ backlog' \in Seq(Log) /\ Len(logs') <= LogCap
    BY <1>1, Sequences, StreamAssumption
  <2> QED
    BY <1>1, <1>2, <2>1 DEF StreamIInv, StreamTypeOK, askVars, fwdVars, callVars
<1>5. ModeFits'
  BY <1>1 DEF StreamIInv, ModeFits, askVars, fwdVars, callVars
<1>6. FlowFits'
  BY <1>1, <1>3 DEF StreamIInv, FlowFits, Begins, fwdVars
<1> QED
  BY <1>4, <1>5, <1>6 DEF StreamIInv

\* What has not reached the channel is lost with the source: a tail.
LEMMA CutOff ==
  ASSUME StreamIInv, it # "failed", fwd # "over"
  PROVE  Begins(((delivered \o held) \o logs) \o <<>>, asked)
<1>1. Begins(((delivered \o held) \o logs) \o backlog, asked)
  BY DEF StreamIInv, FlowFits, Flow
<1>2. Begins((delivered \o held) \o logs, asked)
  BY <1>1, Sequences, BeginsConcat
<1>3. ((delivered \o held) \o logs) \o <<>> = (delivered \o held) \o logs
  BY Sequences
<1> QED
  BY <1>2, <1>3

LEMMA SourceEndsKeeps == StreamIInv /\ SourceEnds => StreamIInv'
<1> SUFFICES ASSUME StreamIInv, SourceEnds PROVE StreamIInv'
  OBVIOUS
<1>1. /\ UNCHANGED <<askVars, opened, asked, logs, it, fwdVars, callVars, delivered>>
      /\ opened /\ source' = "over" /\ backlog' = <<>>
  BY DEF SourceEnds
<1>2. Log' = Log /\ Arguments' = Arguments
  BY <1>1, EventStays
<1>3. StreamTypeOK'
  BY <1>1, <1>2 DEF StreamIInv, StreamTypeOK, askVars, fwdVars, callVars
<1>4. ModeFits'
  BY <1>1 DEF StreamIInv, ModeFits, askVars, fwdVars, callVars
<1>5. FlowFits'
  <2>1. it # "failed" /\ fwd # "over" => Begins(Flow', asked')
    BY <1>1, CutOff DEF Flow, fwdVars
  <2> QED
    BY <1>1, <2>1 DEF StreamIInv, FlowFits, Begins, fwdVars
<1> QED
  BY <1>3, <1>4, <1>5 DEF StreamIInv

-----------------------------------------------------------------------------
(* The iterator. *)

\* A log that unpacks goes from the channel to the caller, and nothing else moves.
LEMMA NextTakesFlow ==
  ASSUME StreamIInv, NextTakes, it' # "failed"
  PROVE  Flow' = Flow
<1>1. /\ UNCHANGED <<sourceVars, fwdVars>> /\ caller = "next" /\ logs # <<>>
      /\ logs' = Tail(logs) /\ delivered' = Append(delivered, Head(logs))
  BY DEF NextTakes
<1>2. held = <<>>
  BY <1>1 DEF StreamIInv, StreamTypeOK, ModeFits
<1>3. delivered' \in Seq(Log)
  BY <1>1, Sequences
<1>4. delivered \o held = delivered /\ delivered' \o held' = delivered'
  BY <1>1, <1>2, <1>3, Sequences DEF fwdVars
<1>5. delivered' \o Tail(logs) = delivered \o logs
  BY <1>1, Sequences, HandOver
<1> QED
  BY <1>1, <1>4, <1>5 DEF Flow, sourceVars

\* The log goes from the channel to the caller; one that does not unpack ends it.
LEMMA NextTakesKeeps == StreamIInv /\ NextTakes => StreamIInv'
<1> SUFFICES ASSUME StreamIInv, NextTakes PROVE StreamIInv'
  OBVIOUS
<1>1. /\ UNCHANGED <<askVars, opened, asked, sourceVars, fwdVars, quit>>
      /\ caller = "next" /\ it # "failed" /\ logs # <<>>
      /\ logs' = Tail(logs) /\ caller' = "idle"
  BY DEF NextTakes
<1>2. Log' = Log /\ Arguments' = Arguments
  BY <1>1, EventStays
<1>3. mode = "filter" /\ fwd = "select" /\ held = <<>>
  BY <1>1 DEF StreamIInv, StreamTypeOK, ModeFits
<1>4. Head(logs) \in Log /\ logs' \in Seq(Log) /\ Len(logs') <= LogCap
  BY <1>1, Sequences, StreamAssumption DEF StreamIInv, StreamTypeOK
<1>5. CASE /\ Head(logs).good
           /\ delivered' = Append(delivered, Head(logs)) /\ answer' = "more" /\ it' = it
  <2>1. delivered' \in Seq({l \in Log : l.good})
    BY <1>4, <1>5 DEF StreamIInv, StreamTypeOK
  <2>2. StreamTypeOK'
    BY <1>1, <1>2, <1>4, <1>5, <2>1 DEF StreamIInv, StreamTypeOK, askVars, sourceVars, fwdVars
  <2>3. ModeFits'
    BY <1>1, <1>3, <1>5 DEF StreamIInv, ModeFits, askVars, sourceVars, fwdVars
  <2>4. Flow' = Flow
    BY <1>1, <1>5, NextTakesFlow
  <2>5. Begins(delivered \o logs, asked)
    <3>1. delivered \o held = delivered
      BY <1>3, Sequences
    <3>2. Begins((delivered \o logs) \o backlog, asked)
      BY <1>1, <1>3, <3>1 DEF StreamIInv, FlowFits, Flow
    <3>3. delivered \o logs \in Seq(Log)
      BY Sequences
    <3> QED
      BY <3>2, <3>3, Sequences, BeginsConcat
  <2>6. Begins(delivered', asked)
    <3>1. Begins(delivered' \o Tail(logs), asked)
      BY <1>1, <1>5, <2>5, Sequences, HandOver
    <3>2. delivered' \in Seq(Log) /\ Tail(logs) \in Seq(Log)
      BY <1>1, <1>4, <1>5, Sequences
    <3> QED
      BY <3>1, <3>2, Sequences, BeginsConcat
  <2>7. FlowFits'
    BY <1>1, <1>5, <2>4, <2>6 DEF StreamIInv, FlowFits, Begins, sourceVars, fwdVars
  <2> QED
    BY <2>2, <2>3, <2>7 DEF StreamIInv
<1>6. CASE it' = "failed" /\ answer' = "end" /\ delivered' = delivered
  <2>1. StreamTypeOK'
    BY <1>1, <1>2, <1>4, <1>6 DEF StreamIInv, StreamTypeOK, askVars, sourceVars, fwdVars
  <2>2. ModeFits'
    BY <1>1, <1>3, <1>6 DEF StreamIInv, ModeFits, askVars, sourceVars, fwdVars
  <2>3. FlowFits'
    BY <1>1, <1>6 DEF StreamIInv, FlowFits, Begins
  <2> QED
    BY <2>1, <2>2, <2>3 DEF StreamIInv
<1> QED
  BY <1>5, <1>6 DEF NextTakes

\* The answers of Next and the calls touch no log.
LEMMA NextEndsKeeps == StreamIInv /\ NextEnds => StreamIInv'
<1> SUFFICES ASSUME StreamIInv, NextEnds PROVE StreamIInv'
  OBVIOUS
<1>1. /\ UNCHANGED <<askVars, opened, asked, sourceVars, logs, fwdVars, callVars, delivered>>
      /\ caller = "next" /\ it = "going" /\ it' = "done" /\ source = "over"
  BY DEF NextEnds
<1>2. Log' = Log /\ Arguments' = Arguments
  BY <1>1, EventStays
<1>3. StreamTypeOK'
  BY <1>1, <1>2 DEF StreamIInv, StreamTypeOK, askVars, sourceVars, fwdVars, callVars
<1>4. ModeFits'
  BY <1>1 DEF StreamIInv, StreamTypeOK, ModeFits, askVars, sourceVars, fwdVars, callVars
<1>5. FlowFits'
  <2>1. Flow' = Flow
    BY <1>1 DEF Flow, sourceVars, fwdVars
  <2> QED
    BY <1>1, <2>1 DEF StreamIInv, FlowFits, Begins, sourceVars, fwdVars
<1> QED
  BY <1>3, <1>4, <1>5 DEF StreamIInv

LEMMA NextFailedKeeps == StreamIInv /\ NextFailed => StreamIInv'
<1> SUFFICES ASSUME StreamIInv, NextFailed PROVE StreamIInv'
  OBVIOUS
<1>1. /\ UNCHANGED <<askVars, opened, asked, sourceVars, logs, it, fwdVars, quit, delivered>>
      /\ caller = "next" /\ caller' = "idle" /\ answer' = "end"
  BY DEF NextFailed
<1>2. Log' = Log /\ Arguments' = Arguments
  BY <1>1, EventStays
<1>3. StreamTypeOK'
  BY <1>1, <1>2 DEF StreamIInv, StreamTypeOK, askVars, sourceVars, fwdVars
<1>4. ModeFits'
  BY <1>1 DEF StreamIInv, StreamTypeOK, ModeFits, askVars, sourceVars, fwdVars
<1>5. FlowFits'
  <2>1. Flow' = Flow
    BY <1>1 DEF Flow, sourceVars, fwdVars
  <2> QED
    BY <1>1, <2>1 DEF StreamIInv, FlowFits, Begins, sourceVars, fwdVars
<1> QED
  BY <1>3, <1>4, <1>5 DEF StreamIInv

LEMMA NextDrainedKeeps == StreamIInv /\ NextDrained => StreamIInv'
<1> SUFFICES ASSUME StreamIInv, NextDrained PROVE StreamIInv'
  OBVIOUS
<1>1. /\ UNCHANGED <<askVars, opened, asked, sourceVars, logs, it, fwdVars, quit, delivered>>
      /\ caller = "next" /\ caller' = "idle" /\ answer' = "end"
  BY DEF NextDrained
<1>2. Log' = Log /\ Arguments' = Arguments
  BY <1>1, EventStays
<1>3. StreamTypeOK'
  BY <1>1, <1>2 DEF StreamIInv, StreamTypeOK, askVars, sourceVars, fwdVars
<1>4. ModeFits'
  BY <1>1 DEF StreamIInv, StreamTypeOK, ModeFits, askVars, sourceVars, fwdVars
<1>5. FlowFits'
  <2>1. Flow' = Flow
    BY <1>1 DEF Flow, sourceVars, fwdVars
  <2> QED
    BY <1>1, <2>1 DEF StreamIInv, FlowFits, Begins, sourceVars, fwdVars
<1> QED
  BY <1>3, <1>4, <1>5 DEF StreamIInv

LEMMA FilterKeeps == StreamIInv /\ Filter => StreamIInv'
<1> SUFFICES ASSUME StreamIInv, Filter PROVE StreamIInv'
  OBVIOUS
<1>1. /\ UNCHANGED <<askVars, asked, sourceVars, logs, it, fwdVars, callVars, delivered>>
      /\ opened' = TRUE
  BY DEF Filter
<1>2. Log' = Log /\ Arguments' = Arguments
  BY <1>1, EventStays
<1>3. StreamTypeOK'
  BY <1>1, <1>2 DEF StreamIInv, StreamTypeOK, askVars, sourceVars, fwdVars, callVars
<1>4. ModeFits'
  BY <1>1 DEF StreamIInv, StreamTypeOK, ModeFits, askVars, sourceVars, fwdVars, callVars
<1>5. FlowFits'
  <2>1. Flow' = Flow
    BY <1>1 DEF Flow, sourceVars, fwdVars
  <2> QED
    BY <1>1, <2>1 DEF StreamIInv, FlowFits, Begins, sourceVars, fwdVars
<1> QED
  BY <1>3, <1>4, <1>5 DEF StreamIInv

LEMMA WatchKeeps == StreamIInv /\ Watch => StreamIInv'
<1> SUFFICES ASSUME StreamIInv, Watch PROVE StreamIInv'
  OBVIOUS
<1>1. /\ UNCHANGED <<askVars, asked, sourceVars, logs, it, fwdVars, callVars, delivered>>
      /\ opened' = TRUE
  BY DEF Watch
<1>2. Log' = Log /\ Arguments' = Arguments
  BY <1>1, EventStays
<1>3. StreamTypeOK'
  BY <1>1, <1>2 DEF StreamIInv, StreamTypeOK, askVars, sourceVars, fwdVars, callVars
<1>4. ModeFits'
  BY <1>1 DEF StreamIInv, StreamTypeOK, ModeFits, askVars, sourceVars, fwdVars, callVars
<1>5. FlowFits'
  <2>1. Flow' = Flow
    BY <1>1 DEF Flow, sourceVars, fwdVars
  <2> QED
    BY <1>1, <2>1 DEF StreamIInv, FlowFits, Begins, sourceVars, fwdVars
<1> QED
  BY <1>3, <1>4, <1>5 DEF StreamIInv

LEMMA CallNextKeeps == StreamIInv /\ CallNext => StreamIInv'
<1> SUFFICES ASSUME StreamIInv, CallNext PROVE StreamIInv'
  OBVIOUS
<1>1. /\ UNCHANGED <<askVars, opened, asked, sourceVars, logs, it, fwdVars, quit, answer, delivered>>
      /\ mode = "filter" /\ opened /\ caller' = "next"
  BY DEF CallNext
<1>2. Log' = Log /\ Arguments' = Arguments
  BY <1>1, EventStays
<1>3. StreamTypeOK'
  BY <1>1, <1>2 DEF StreamIInv, StreamTypeOK, askVars, sourceVars, fwdVars
<1>4. ModeFits'
  BY <1>1 DEF StreamIInv, StreamTypeOK, ModeFits, askVars, sourceVars, fwdVars
<1>5. FlowFits'
  <2>1. Flow' = Flow
    BY <1>1 DEF Flow, sourceVars, fwdVars
  <2> QED
    BY <1>1, <2>1 DEF StreamIInv, FlowFits, Begins, sourceVars, fwdVars
<1> QED
  BY <1>3, <1>4, <1>5 DEF StreamIInv

LEMMA ReadKeeps == StreamIInv /\ Read => StreamIInv'
<1> SUFFICES ASSUME StreamIInv, Read PROVE StreamIInv'
  OBVIOUS
<1>1. /\ UNCHANGED <<askVars, opened, asked, sourceVars, logs, it, fwdVars, quit, answer, delivered>>
      /\ opened /\ caller' \in {"idle", "reading"}
  BY DEF Read
<1>2. Log' = Log /\ Arguments' = Arguments
  BY <1>1, EventStays
<1>3. StreamTypeOK'
  BY <1>1, <1>2 DEF StreamIInv, StreamTypeOK, askVars, sourceVars, fwdVars
<1>4. ModeFits'
  BY <1>1 DEF StreamIInv, StreamTypeOK, ModeFits, askVars, sourceVars, fwdVars
<1>5. FlowFits'
  <2>1. Flow' = Flow
    BY <1>1 DEF Flow, sourceVars, fwdVars
  <2> QED
    BY <1>1, <2>1 DEF StreamIInv, FlowFits, Begins, sourceVars, fwdVars
<1> QED
  BY <1>3, <1>4, <1>5 DEF StreamIInv

LEMMA CloseKeeps == StreamIInv /\ Close => StreamIInv'
<1> SUFFICES ASSUME StreamIInv, Close PROVE StreamIInv'
  OBVIOUS
<1>1. /\ UNCHANGED <<askVars, opened, asked, sourceVars, logs, it, fwdVars, answer, delivered>>
      /\ opened /\ quit' = TRUE /\ caller' = "closing"
  BY DEF Close
<1>2. Log' = Log /\ Arguments' = Arguments
  BY <1>1, EventStays
<1>3. StreamTypeOK'
  BY <1>1, <1>2 DEF StreamIInv, StreamTypeOK, askVars, sourceVars, fwdVars
<1>4. ModeFits'
  BY <1>1 DEF StreamIInv, StreamTypeOK, ModeFits, askVars, sourceVars, fwdVars
<1>5. FlowFits'
  <2>1. Flow' = Flow
    BY <1>1 DEF Flow, sourceVars, fwdVars
  <2> QED
    BY <1>1, <2>1 DEF StreamIInv, FlowFits, Begins, sourceVars, fwdVars
<1> QED
  BY <1>3, <1>4, <1>5 DEF StreamIInv

LEMMA CloseReturnsKeeps == StreamIInv /\ CloseReturns => StreamIInv'
<1> SUFFICES ASSUME StreamIInv, CloseReturns PROVE StreamIInv'
  OBVIOUS
<1>1. /\ UNCHANGED <<askVars, opened, asked, sourceVars, logs, it, fwdVars, quit, answer, delivered>>
      /\ caller' = "idle"
  BY DEF CloseReturns
<1>2. Log' = Log /\ Arguments' = Arguments
  BY <1>1, EventStays
<1>3. StreamTypeOK'
  BY <1>1, <1>2 DEF StreamIInv, StreamTypeOK, askVars, sourceVars, fwdVars
<1>4. ModeFits'
  BY <1>1 DEF StreamIInv, StreamTypeOK, ModeFits, askVars, sourceVars, fwdVars
<1>5. FlowFits'
  <2>1. Flow' = Flow
    BY <1>1 DEF Flow, sourceVars, fwdVars
  <2> QED
    BY <1>1, <2>1 DEF StreamIInv, FlowFits, Begins, sourceVars, fwdVars
<1> QED
  BY <1>3, <1>4, <1>5 DEF StreamIInv

-----------------------------------------------------------------------------
(* The goroutine of WatchX. *)

\* The log goes from the channel into the goroutine's hands.
LEMMA WatchTakesKeeps == StreamIInv /\ WatchTakes => StreamIInv'
<1> SUFFICES ASSUME StreamIInv, WatchTakes PROVE StreamIInv'
  OBVIOUS
<1>1. /\ UNCHANGED <<askVars, opened, asked, it, callVars, delivered>>
      /\ mode = "watch" /\ opened /\ fwd = "select" /\ logs # <<>>
      /\ logs' = Tail(logs)
  BY DEF WatchTakes
<1>2. Log' = Log /\ Arguments' = Arguments
  BY <1>1, EventStays
<1>3. held = <<>> /\ it = "going"
  <2>1. held \in Seq(Log) /\ Len(held) = 0
    BY <1>1, Sequences DEF StreamIInv, StreamTypeOK
  <2>2. held = <<>>
    BY <2>1, EmptySeq
  <2> QED
    BY <1>1, <2>2 DEF StreamIInv, ModeFits
<1>4. Head(logs) \in Log /\ logs' \in Seq(Log) /\ Len(logs') <= LogCap
  BY <1>1, Sequences, StreamAssumption DEF StreamIInv, StreamTypeOK
<1>5. CASE /\ Head(logs).good
           /\ fwd' = "sink" /\ held' = <<Head(logs)>>
           /\ UNCHANGED sourceVars
  <2>1. held' \in Seq({l \in Log : l.good}) /\ Len(held') = 1
    BY <1>4, <1>5
  <2>2. StreamTypeOK'
    BY <1>1, <1>2, <1>4, <1>5, <2>1 DEF StreamIInv, StreamTypeOK, askVars, sourceVars, callVars
  <2>3. ModeFits'
    BY <1>1, <1>5 DEF StreamIInv, ModeFits, askVars, sourceVars, callVars
  <2>4. Flow' = Flow
    <3>1. delivered \o held = delivered
      BY <1>3, Sequences
    <3>2. delivered' \o held' = Append(delivered, Head(logs))
      BY <1>1, <1>4, <1>5, Sequences
    <3>3. Append(delivered, Head(logs)) \o Tail(logs) = delivered \o logs
      BY <1>1, Sequences, HandOver
    <3> QED
      BY <1>1, <1>5, <3>1, <3>2, <3>3 DEF Flow, sourceVars
  <2>5. FlowFits'
    BY <1>1, <1>5, <2>4 DEF StreamIInv, FlowFits, Begins, sourceVars
  <2> QED
    BY <2>2, <2>3, <2>5 DEF StreamIInv
<1>6. CASE fwd' = "over" /\ held' = held /\ source' = "over" /\ backlog' = <<>>
  <2>1. StreamTypeOK'
    BY <1>1, <1>2, <1>4, <1>6 DEF StreamIInv, StreamTypeOK, askVars, callVars
  <2>2. ModeFits'
    BY <1>1, <1>3, <1>6 DEF StreamIInv, ModeFits, askVars, callVars
  <2>3. FlowFits'
    BY <1>1, <1>6 DEF StreamIInv, FlowFits, Begins
  <2> QED
    BY <2>1, <2>2, <2>3 DEF StreamIInv
<1> QED
  BY <1>5, <1>6 DEF WatchTakes

\* It hands it over to the caller, who asked for it.
LEMMA WatchSendsKeeps == StreamIInv /\ WatchSends => StreamIInv'
<1> SUFFICES ASSUME StreamIInv, WatchSends PROVE StreamIInv'
  OBVIOUS
<1>1. /\ UNCHANGED <<askVars, opened, asked, sourceVars, logs, it, quit, answer>>
      /\ fwd = "sink" /\ fwd' = "select"
      /\ delivered' = delivered \o held /\ held' = <<>> /\ caller' = "idle"
  BY DEF WatchSends
<1>2. Log' = Log /\ Arguments' = Arguments
  BY <1>1, EventStays
<1>3. mode = "watch" /\ it = "going"
  BY <1>1 DEF StreamIInv, StreamTypeOK, ModeFits
<1>4. delivered' \in Seq({l \in Log : l.good}) /\ delivered' \in Seq(Log)
  BY <1>1, Sequences DEF StreamIInv, StreamTypeOK
<1>5. StreamTypeOK'
  <2>1. held' \in Seq({l \in Log : l.good}) /\ Len(held') = 0
    BY <1>1
  <2> QED
    BY <1>1, <1>2, <1>4, <2>1 DEF StreamIInv, StreamTypeOK, askVars, sourceVars
<1>6. ModeFits'
  BY <1>1, <1>3 DEF StreamIInv, ModeFits, askVars, sourceVars
<1>7. Flow' = Flow
  <2>1. delivered' \o held' = delivered \o held
    BY <1>1, <1>4
  <2> QED
    BY <1>1, <2>1 DEF Flow, sourceVars
<1>8. Begins(delivered', asked)
  <2>1. Begins(((delivered \o held) \o logs) \o backlog, asked)
    BY <1>1, <1>3 DEF StreamIInv, FlowFits, Flow
  <2>2. Begins((delivered \o held) \o logs, asked)
    BY <2>1, Sequences, BeginsConcat
  <2> QED
    BY <1>1, <2>2, Sequences, BeginsConcat
<1>9. FlowFits'
  BY <1>1, <1>7, <1>8 DEF StreamIInv, FlowFits, Begins, sourceVars
<1> QED
  BY <1>5, <1>6, <1>9 DEF StreamIInv

\* Once the goroutine is over, nothing more reaches the caller.
LEMMA WatchOverKeeps ==
  StreamIInv /\ (WatchBreaks \/ WatchQuits) => StreamIInv'
<1> SUFFICES ASSUME StreamIInv, WatchBreaks \/ WatchQuits PROVE StreamIInv'
  OBVIOUS
<1>1. /\ UNCHANGED <<askVars, opened, asked, logs, it, callVars, delivered>>
      /\ mode = "watch" /\ opened
      /\ fwd' = "over" /\ held' = <<>> /\ source' = "over"
      /\ backlog' = backlog \/ backlog' = <<>>
  BY DEF WatchBreaks, WatchQuits, sourceVars
<1>2. Log' = Log /\ Arguments' = Arguments
  BY <1>1, EventStays
<1>3. StreamTypeOK'
  <2>1. backlog' \in Seq(Log)
    <3>1. CASE backlog' = backlog
      BY <3>1, Sequences
    <3>2. CASE backlog' = <<>>
      BY <3>2
    <3> QED
      BY <1>1, <3>1, <3>2
  <2>2. held' \in Seq({l \in Log : l.good}) /\ Len(held') = 0
    BY <1>1
  <2> QED
    BY <1>1, <1>2, <2>1, <2>2 DEF StreamIInv, StreamTypeOK, askVars, callVars
<1>4. ModeFits'
  BY <1>1 DEF StreamIInv, ModeFits, askVars, callVars
<1>5. FlowFits'
  BY <1>1 DEF StreamIInv, FlowFits, Begins
<1> QED
  BY <1>3, <1>4, <1>5 DEF StreamIInv

-----------------------------------------------------------------------------
LEMMA StreamInvariant == StreamSpec => []StreamIInv
<1>1. StreamIInv /\ [StreamNext]_streamVars => StreamIInv'
  <2> SUFFICES ASSUME StreamIInv, [StreamNext]_streamVars PROVE StreamIInv'
    OBVIOUS
  <2>1. CASE Emit \/ SourcePuts \/ SourceEnds
    BY <2>1, EmitKeeps, SourcePutsKeeps, SourceEndsKeeps
  <2>2. CASE Filter \/ CallNext \/ Next
    BY <2>2, FilterKeeps, CallNextKeeps, NextFailedKeeps, NextTakesKeeps, NextEndsKeeps,
       NextDrainedKeeps DEF Next
  <2>3. CASE Watch \/ Forward \/ Read
    BY <2>3, WatchKeeps, WatchTakesKeeps, WatchSendsKeeps, WatchOverKeeps, ReadKeeps DEF Forward
  <2>4. CASE Close \/ CloseReturns
    BY <2>4, CloseKeeps, CloseReturnsKeeps
  <2>5. CASE UNCHANGED streamVars
    <3>1. UNCHANGED askVars /\ UNCHANGED <<opened, asked, logs, it, delivered>>
      BY <2>5 DEF streamVars
    <3>2. UNCHANGED sourceVars /\ UNCHANGED fwdVars /\ UNCHANGED callVars
      BY <2>5 DEF streamVars
    <3>3. Log' = Log /\ Arguments' = Arguments
      BY <3>1, EventStays
    <3>4. StreamTypeOK'
      BY <3>1, <3>2, <3>3 DEF StreamIInv, StreamTypeOK, askVars, sourceVars, fwdVars, callVars
    <3>5. ModeFits'
      BY <3>1, <3>2 DEF StreamIInv, ModeFits, askVars, sourceVars, fwdVars, callVars
    <3>6. FlowFits'
      <4>1. Flow' = Flow
        BY <3>1, <3>2 DEF Flow, sourceVars, fwdVars
      <4> QED
        BY <3>1, <3>2, <4>1 DEF StreamIInv, FlowFits, Begins, sourceVars, fwdVars
    <3> QED
      BY <3>4, <3>5, <3>6 DEF StreamIInv
  <2> QED
    BY <2>1, <2>2, <2>3, <2>4, <2>5 DEF StreamNext
<1> QED
  BY StreamInitial, <1>1, PTL DEF StreamSpec

\* The bindings stay within their types; in particular the channel of logs within
\* its capacity, and what the caller is given are logs that unpacked.
THEOREM StreamTyped == StreamSpec => []StreamTypeOK
<1>1. StreamIInv => StreamTypeOK
  BY DEF StreamIInv
<1> QED
  BY StreamInvariant, <1>1, PTL

\* The caller is given the logs it asked for, in the order of the chain and without
\* a hole, whatever goroutine ends first.
THEOREM StreamKeepsOrder == StreamSpec => []OrderKept
<1>1. StreamIInv => OrderKept
  <2> SUFFICES ASSUME StreamIInv PROVE OrderKept
    OBVIOUS
  <2>1. Begins(delivered, asked)
    BY DEF StreamIInv, FlowFits
  <2>2. delivered = SubSeq(asked, 1, Len(delivered))
    BY <2>1, Sequences, BeginsIsSubSeq
  <2> QED
    BY <2>1, <2>2 DEF OrderKept, Begins
<1> QED
  BY StreamInvariant, <1>1, PTL

-----------------------------------------------------------------------------
(* The end of an iterator. *)

\* An iterator that was not closed misses nothing: its source ends with nothing left
\* to put into the channel, and Next says so only when the channel is empty too.
EndFits ==
  mode = "filter" =>
    /\ source = "over" => backlog = <<>>
    /\ it = "done" => source = "over"
    /\ it # "failed" /\ ~quit => Flow = asked
    /\ answer = "end" /\ it # "failed" => it = "done" /\ logs = <<>>

LEMMA EndInitial == StreamInit => EndFits
<1> SUFFICES ASSUME StreamInit PROVE EndFits
  OBVIOUS
<1>1. Flow = <<>>
  BY DEF StreamInit, Flow
<1> QED
  BY <1>1 DEF StreamInit, EndFits

\* While the source runs, what the caller is missing is on its way to it.
LEMMA RunningMissesNothing ==
  ASSUME StreamIInv, source = "run", it # "failed"
  PROVE  Flow = asked
BY DEF StreamIInv, FlowFits

LEMMA SourceEndsFits == StreamIInv /\ EndFits /\ SourceEnds => EndFits'
<1> SUFFICES ASSUME StreamIInv, EndFits, SourceEnds, mode = "filter" PROVE EndFits'
  BY DEF SourceEnds, EndFits, askVars
<1>1. /\ UNCHANGED <<askVars, opened, asked, logs, it, fwdVars, callVars, delivered>>
      /\ source = "run" /\ source' = "over" /\ backlog' = <<>>
      /\ backlog = <<>> \/ quit
  BY DEF SourceEnds
<1>2. it # "failed" /\ ~quit => Flow' = asked'
  <2> SUFFICES ASSUME it # "failed", ~quit PROVE Flow' = asked'
    OBVIOUS
  <2>1. Flow' = Flow
    BY <1>1 DEF Flow, fwdVars
  <2> QED
    BY <1>1, <2>1, RunningMissesNothing
<1> QED
  BY <1>1, <1>2 DEF EndFits, askVars, callVars

LEMMA NextFits == StreamIInv /\ EndFits /\ Next => EndFits'
<1> SUFFICES ASSUME StreamIInv, EndFits, Next PROVE EndFits'
  OBVIOUS
<1>1. mode = "filter"
  BY DEF StreamIInv, StreamTypeOK, ModeFits, Next, NextFailed, NextTakes, NextEnds, NextDrained
<1>2. CASE NextTakes
  <2>1. /\ UNCHANGED <<askVars, opened, asked, sourceVars, fwdVars, quit>>
        /\ it # "failed" /\ logs # <<>>
        /\ \/ answer' = "more" /\ it' = it
           \/ it' = "failed"
    BY <1>2 DEF NextTakes
  <2>2. it' # "failed" => Flow' = Flow
    BY <1>2, NextTakesFlow
  <2> QED
    BY <1>1, <2>1, <2>2 DEF EndFits, askVars, sourceVars
<1>3. CASE NextFailed \/ NextEnds \/ NextDrained
  <2>1. /\ UNCHANGED <<askVars, opened, asked, sourceVars, logs, fwdVars, quit, delivered>>
        /\ \/ it = "failed" /\ it' = it
           \/ it = "going" /\ it' = "done" /\ source = "over" /\ answer' = answer
           \/ it = "done" /\ it' = it /\ logs = <<>>
    BY <1>3 DEF NextFailed, NextEnds, NextDrained, callVars
  <2>2. Flow' = Flow
    BY <2>1 DEF Flow, sourceVars, fwdVars
  <2> QED
    BY <1>1, <2>1, <2>2 DEF EndFits, askVars, sourceVars
<1> QED
  BY <1>2, <1>3 DEF Next

\* The rest of the steps belong to another mode, or come while the source runs, or
\* touch no log and give no answer.
LEMMA OthersFit ==
  ASSUME StreamIInv, StreamIInv', EndFits,
         \/ Emit \/ SourcePuts \/ Filter \/ CallNext \/ Watch \/ Forward \/ Read
         \/ Close \/ CloseReturns
  PROVE  EndFits'
<1>1. CASE mode = "filter" /\ (Emit \/ SourcePuts \/ Filter)
  <2>1. UNCHANGED <<askVars, source, it, callVars>> /\ source = "run"
    BY <1>1 DEF Emit, SourcePuts, Filter, StreamIInv, ModeFits, sourceVars
  <2>2. it' # "failed" => Flow' = asked'
    BY <2>1 DEF StreamIInv, FlowFits
  <2> QED
    BY <1>1, <2>1, <2>2 DEF EndFits, askVars, callVars
<1>2. CASE mode = "filter" /\ (CallNext \/ Close \/ CloseReturns)
  <2>1. /\ UNCHANGED <<askVars, opened, asked, sourceVars, logs, it, fwdVars, answer, delivered>>
        /\ quit' \/ quit' = quit
    BY <1>2 DEF CallNext, Close, CloseReturns
  <2>2. Flow' = Flow
    BY <2>1 DEF Flow, sourceVars, fwdVars
  <2> QED
    BY <1>2, <2>1, <2>2 DEF EndFits, askVars, sourceVars
<1>3. CASE mode # "filter"
  <2>1. mode' = mode
    BY DEF Emit, SourcePuts, Filter, CallNext, Watch, Forward, WatchTakes, WatchSends,
           WatchBreaks, WatchQuits, Read, Close, CloseReturns, askVars
  <2> QED
    BY <1>3, <2>1 DEF EndFits
<1>4. mode = "filter" => ~Watch /\ ~Forward /\ ~Read
  BY DEF Watch, Forward, WatchTakes, WatchSends, WatchBreaks, WatchQuits, Read,
         StreamIInv, ModeFits
<1> QED
  BY <1>1, <1>2, <1>3, <1>4

\* When the channel is empty after the end of the source, everything was delivered.
LEMMA DrainedIsComplete ==
  ASSUME StreamIInv, EndFits, mode = "filter", it = "done", logs = <<>>, ~quit
  PROVE  delivered = asked
<1>1. /\ backlog = <<>> /\ held = <<>> /\ Flow = asked
  BY DEF EndFits, StreamIInv, ModeFits
<1>2. Flow = delivered
  BY <1>1, Sequences DEF Flow
<1> QED
  BY <1>1, <1>2

LEMMA EndInvariant == StreamSpec => [](StreamIInv /\ EndFits)
<1>1. EndFits /\ StreamIInv /\ StreamIInv' /\ [StreamNext]_streamVars => EndFits'
  <2> SUFFICES ASSUME EndFits, StreamIInv, StreamIInv', [StreamNext]_streamVars PROVE EndFits'
    OBVIOUS
  <2>1. CASE SourceEnds
    BY <2>1, SourceEndsFits
  <2>2. CASE Next
    BY <2>2, NextFits
  <2>3. CASE \/ Emit \/ SourcePuts \/ Filter \/ CallNext \/ Watch \/ Forward \/ Read
             \/ Close \/ CloseReturns
    BY <2>3, OthersFit
  <2>4. CASE UNCHANGED streamVars
    BY <2>4 DEF EndFits, Flow, streamVars, askVars, sourceVars, fwdVars, callVars
  <2> QED
    BY <2>1, <2>2, <2>3, <2>4 DEF StreamNext
<1> QED
  BY StreamInvariant, EndInitial, <1>1, PTL DEF StreamSpec

\* An iterator that was not closed and says, without an error, that there is no more
\* has given everything: Next (uniswapv2_pair.go and its kin) drains the channel after
\* the subscription has ended.
THEOREM StreamEndsComplete == StreamSpec => []CompleteOrError
<1>1. StreamIInv /\ EndFits => CompleteOrError
  BY DrainedIsComplete DEF CompleteOrError, EndFits
<1> QED
  BY EndInvariant, <1>1, PTL

-----------------------------------------------------------------------------
(* The promise of LogDelivery. *)

\* No event has more than three indexed arguments.
LEMMA LogsAreAnyLogs ==
  ASSUME ev \in Events
  PROVE  Log \subseteq AnyLog
<1>1. Len(ev.topics) \in 0..3
  BY DEF Events, Event, PairApproval, PairBurn, PairMint, PairSwap, PairSync, PairTransfer,
         Erc20Approval, Erc20LogChangeDCRMOwner, Erc20LogSwapin, Erc20LogSwapout,
         Erc20Transfer, FactoryPairCreated
<1> QED
  BY <1>1 DEF Log, AnyLog

\* The log that comes out of the channel is the one after those delivered, when the
\* goroutine has none in hand.
LEMMA HeadIsUpcoming ==
  ASSUME StreamIInv, it # "failed", fwd = "select", logs # <<>>
  PROVE  Len(delivered) < Len(asked) /\ asked[Len(delivered) + 1] = Head(logs)
<1>1. Len(held) = 0 /\ held \in Seq(Log)
  BY Sequences DEF StreamIInv, StreamTypeOK
<1>2. delivered \o held = delivered
  BY <1>1, EmptySeq, Sequences
<1>3. Begins((delivered \o logs) \o backlog, asked)
  BY <1>2 DEF StreamIInv, FlowFits, Flow
<1>4. Begins(delivered \o logs, asked)
  <2>1. delivered \o logs \in Seq(Log)
    BY Sequences
  <2> QED
    BY <1>3, <2>1, Sequences, BeginsConcat
<1>5. /\ Len(delivered \o logs) = Len(delivered) + Len(logs) /\ Len(logs) \in Nat \ {0}
      /\ Len(delivered) \in Nat /\ Len(asked) \in Nat
      /\ (delivered \o logs)[Len(delivered) + 1] = Head(logs)
  BY Sequences
<1>6. Len(delivered) + 1 \in 1..Len(delivered \o logs)
  BY <1>5
<1> QED
  BY <1>4, <1>5, <1>6 DEF Begins

\* A log that is delivered is the one after those delivered before.
LEMMA DeliveredIsUpcoming ==
  ASSUME StreamIInv, StreamIInv', UNCHANGED asked, NEW l, delivered' = Append(delivered, l)
  PROVE  Len(delivered) < Len(asked) /\ asked[Len(delivered) + 1] = l
<1>1. /\ Len(delivered) \in Nat /\ Len(asked) \in Nat
      /\ Len(delivered') = Len(delivered) + 1 /\ delivered'[Len(delivered) + 1] = l
  BY Sequences
<1>2. /\ Len(delivered') <= Len(asked)
      /\ \A i \in 1..Len(delivered') : delivered'[i] = asked[i]
  BY DEF StreamIInv, FlowFits, Begins
<1> QED
  BY <1>1, <1>2

LEMMA StreamStepIsDeliveryStep ==
  ASSUME StreamIInv, StreamIInv', EndFits, [StreamNext]_streamVars
  PROVE  [Delivery!DeliveryNext]_(Delivery!deliveryVars)
<1> SUFFICES Delivery!DeliveryNext \/ UNCHANGED <<asked, delivered, Stopped, Ending>>
  BY DEF Delivery!deliveryVars
<1>a. /\ Log \subseteq AnyLog /\ Log' = Log
      /\ mode \in {"filter", "watch"} /\ quit \in BOOLEAN
      /\ delivered' \in Seq({l \in Log : l.good})
  <2>1. UNCHANGED askVars
    BY DEF StreamNext, Emit, SourcePuts, SourceEnds, Filter, CallNext, Next, NextFailed, NextTakes,
           NextEnds, NextDrained, Watch, Forward, WatchTakes, WatchSends, WatchBreaks, WatchQuits,
           Read, Close, CloseReturns, streamVars
  <2> QED
    BY <2>1, LogsAreAnyLogs, EventStays DEF StreamIInv, StreamTypeOK
\* While the source runs no end was told.
<1>1. CASE Emit
  <2>1. Ending = "open"
    BY <1>1, <1>a DEF Emit, StreamIInv, ModeFits, EndFits, Ending
  <2>2. UNCHANGED <<delivered, Stopped, Ending>>
    BY <1>1 DEF Emit, Stopped, Ending, askVars, fwdVars, callVars
  <2>3. \E l \in AnyLog : asked' = Append(asked, l)
    BY <1>1, <1>a, EmitAppends
  <2>4. Delivery!Ask
    BY <2>1, <2>2, <2>3 DEF Delivery!Ask
  <2> QED
    BY <2>4 DEF Delivery!DeliveryNext
<1>2. CASE SourcePuts \/ Filter \/ Watch \/ CallNext \/ Read \/ CloseReturns
  BY <1>2 DEF SourcePuts, Filter, Watch, CallNext, Read, CloseReturns, Stopped, Ending,
              askVars, sourceVars, fwdVars, callVars
<1>3. CASE SourceEnds \/ Close
  <2>1. UNCHANGED <<asked, delivered, Ending>> /\ (Stopped' = TRUE \/ Stopped' = Stopped)
    BY <1>3, <1>a DEF SourceEnds, Close, Stopped, Ending, askVars, sourceVars, fwdVars, callVars
  <2>2. Stopped' = TRUE => Delivery!Stop
    BY <2>1 DEF Delivery!Stop
  <2> QED
    BY <2>1, <2>2 DEF Delivery!DeliveryNext
<1>4. CASE NextTakes
  <2>1. /\ UNCHANGED <<asked, Stopped>> /\ Ending = "open" /\ fwd = "select"
        /\ it # "failed" /\ logs # <<>>
    BY <1>4 DEF NextTakes, StreamIInv, StreamTypeOK, ModeFits, EndFits, Stopped, Ending,
                askVars, sourceVars, fwdVars
  <2>2. Len(delivered) < Len(asked) /\ asked[Len(delivered) + 1] = Head(logs)
    BY <2>1, HeadIsUpcoming
  <2>3. Head(logs) \in Log
    BY <2>1, Sequences
  <2>4. CASE Head(logs).good /\ delivered' = Append(delivered, Head(logs)) /\ answer' = "more" /\ it' = it
    <3>1. Ending' = "open"
      BY <1>4, <2>1, <2>4 DEF NextTakes, Ending, fwdVars
    <3>2. Delivery!Deliver
      BY <1>a, <2>1, <2>2, <2>3, <2>4, <3>1
         DEF Delivery!Deliver, Delivery!Undelivered, Delivery!Upcoming
    <3> QED
      BY <3>2 DEF Delivery!DeliveryNext
  <2>5. CASE ~Head(logs).good /\ it' = "failed" /\ delivered' = delivered
    <3>1. Ending' = "failed"
      BY <2>5 DEF Ending
    <3>2. Delivery!Fail
      BY <2>1, <2>2, <2>5, <3>1 DEF Delivery!Fail, Delivery!Undelivered, Delivery!Upcoming
    <3> QED
      BY <3>2 DEF Delivery!DeliveryNext
  <2> QED
    BY <1>4, <2>4, <2>5 DEF NextTakes
<1>5. CASE NextFailed \/ NextEnds
  BY <1>5 DEF NextFailed, NextEnds, Stopped, Ending, askVars, sourceVars, fwdVars, callVars
\* What drained after the end of the source is everything, unless it was closed.
<1>6. CASE NextDrained
  <2>1. /\ UNCHANGED <<asked, delivered, Stopped>> /\ Ending' = "ended"
        /\ Ending = "open" \/ Ending' = Ending
        /\ it = "done" /\ logs = <<>> /\ mode = "filter"
    BY <1>6 DEF NextDrained, StreamIInv, StreamTypeOK, ModeFits, Stopped, Ending,
                askVars, sourceVars, fwdVars
  <2>2. delivered = asked \/ Stopped
    BY <2>1, DrainedIsComplete DEF Stopped
  <2>3. Ending = "open" => Delivery!End
    BY <2>1, <2>2 DEF Delivery!End
  <2> QED
    BY <2>1, <2>3 DEF Delivery!DeliveryNext
<1>7. CASE WatchTakes
  <2>1. /\ UNCHANGED <<asked, delivered>> /\ Ending = "open" /\ fwd = "select"
        /\ it # "failed" /\ logs # <<>>
    BY <1>7 DEF WatchTakes, StreamIInv, ModeFits, Ending
  <2>2. CASE fwd' = "sink" /\ UNCHANGED sourceVars
    BY <1>7, <2>1, <2>2 DEF WatchTakes, Stopped, Ending, askVars, sourceVars, callVars
  <2>3. CASE ~Head(logs).good /\ fwd' = "over" /\ source' = "over"
    <3>1. Ending' = "failed" /\ Stopped' = TRUE
      BY <1>7, <2>3 DEF WatchTakes, Ending, Stopped, askVars
    <3>2. Len(delivered) < Len(asked) /\ asked[Len(delivered) + 1] = Head(logs)
      BY <2>1, HeadIsUpcoming
    <3>3. Delivery!Fail
      BY <2>1, <2>3, <3>1, <3>2 DEF Delivery!Fail, Delivery!Undelivered, Delivery!Upcoming
    <3> QED
      BY <3>3 DEF Delivery!DeliveryNext
  <2> QED
    BY <1>7, <2>2, <2>3 DEF WatchTakes
<1>8. CASE WatchSends
  <2>1. /\ UNCHANGED <<asked, Stopped, Ending>> /\ Ending = "open"
    BY <1>8, <1>a DEF WatchSends, StreamIInv, StreamTypeOK, ModeFits, Stopped, Ending,
                      askVars, sourceVars
  <2>2. PICK l \in {x \in Log : x.good} : held = <<l>>
    <3>1. held \in Seq({x \in Log : x.good}) /\ Len(held) = 1
      BY <1>8 DEF WatchSends, StreamIInv, StreamTypeOK
    <3>2. held[1] \in {x \in Log : x.good} /\ held = <<held[1]>>
      BY <3>1
    <3> QED
      BY <3>2
  <2>3. delivered' = Append(delivered, l)
    BY <1>8, <2>2, Sequences DEF WatchSends
  <2>4. Len(delivered) < Len(asked) /\ asked[Len(delivered) + 1] = l
    BY <2>1, <2>3, DeliveredIsUpcoming
  <2>5. Delivery!Deliver
    BY <1>a, <2>1, <2>2, <2>3, <2>4 DEF Delivery!Deliver, Delivery!Undelivered, Delivery!Upcoming
  <2> QED
    BY <2>5 DEF Delivery!DeliveryNext
<1>9. CASE WatchBreaks \/ WatchQuits
  <2>1. /\ UNCHANGED <<asked, delivered>> /\ Stopped /\ Stopped' = TRUE
        /\ Ending = "open" /\ Ending' = "failed"
    BY <1>9, <1>a DEF WatchBreaks, WatchQuits, StreamIInv, ModeFits, Stopped, Ending,
                      askVars, sourceVars, callVars
  <2>2. Delivery!Fail
    BY <2>1 DEF Delivery!Fail
  <2> QED
    BY <2>2 DEF Delivery!DeliveryNext
<1>10. CASE UNCHANGED streamVars
  BY <1>10 DEF streamVars, Stopped, Ending, askVars, sourceVars, fwdVars, callVars
<1> QED
  BY <1>1, <1>2, <1>3, <1>4, <1>5, <1>6, <1>7, <1>8, <1>9, <1>10 DEF StreamNext, Next, Forward

\* The bindings keep the promise of LogDelivery, for every event, any capacity and any
\* number of logs, whichever goroutine is cut off where: each log once and in order,
\* an end only after all of them, a failure only at a log that does not unpack or after
\* a stop, and nothing after either.
THEOREM StreamImplementsDelivery == StreamSpec => DeliverySpec
<1>1. StreamInit => Delivery!DeliveryInit
  BY DEF StreamInit, Delivery!DeliveryInit, Stopped, Ending
<1>2. StreamIInv /\ StreamIInv' /\ EndFits /\ [StreamNext]_streamVars
      => [Delivery!DeliveryNext]_(Delivery!deliveryVars)
  BY StreamStepIsDeliveryStep
<1> QED
  BY EndInvariant, <1>1, <1>2, PTL DEF StreamSpec, DeliverySpec, Delivery!DeliverySpec

-----------------------------------------------------------------------------
(* Close and Unsubscribe.                                                      *)

\* They return when their goroutine has, which quit tells it to.
QuitFits ==
  /\ caller = "closing" => quit
  /\ quit /\ caller # "closing" => IF mode = "filter" THEN source = "over" ELSE fwd = "over"

\* No goroutine comes back, and a call that begins after the end finds it so.
LEMMA QuitStep == StreamIInv /\ QuitFits /\ [StreamNext]_streamVars => QuitFits'
<1> SUFFICES ASSUME StreamIInv, QuitFits, [StreamNext]_streamVars
             PROVE  QuitFits'
  OBVIOUS
<1> USE DEF StreamIInv, StreamTypeOK, ModeFits, QuitFits, callVars, fwdVars, sourceVars, askVars
<1>1. CASE Emit \/ SourcePuts \/ SourceEnds
  BY <1>1 DEF Emit, SourcePuts, SourceEnds
<1>2. CASE Filter \/ CallNext \/ Watch \/ Read
  BY <1>2 DEF Filter, CallNext, Watch, Read
<1>3. CASE Next
  BY <1>3 DEF Next, NextFailed, NextTakes, NextEnds, NextDrained
<1>4. CASE WatchTakes \/ WatchSends
  BY <1>4 DEF WatchTakes, WatchSends
<1>5. CASE WatchBreaks \/ WatchQuits
  BY <1>5 DEF WatchBreaks, WatchQuits
<1>6. CASE Close \/ CloseReturns
  BY <1>6 DEF Close, CloseReturns
<1>7. CASE UNCHANGED streamVars
  BY <1>7 DEF streamVars
<1> QED
  BY <1>1, <1>2, <1>3, <1>4, <1>5, <1>6, <1>7 DEF StreamNext, Forward

LEMMA QuitInvariant == StreamSpec => [](StreamIInv /\ QuitFits)
<1>1. StreamInit => QuitFits
  BY DEF StreamInit, QuitFits
<1> QED
  BY <1>1, QuitStep, StreamInvariant, PTL DEF StreamSpec

\* When Close or Unsubscribe has returned, no goroutine of the stream is left: the
\* source has ended, and what WatchX started has too.
THEOREM StreamLeavesNoGoroutine ==
  StreamSpec => [](quit /\ caller # "closing" => source = "over" /\ (mode = "watch" => fwd = "over"))
<1>1. StreamIInv /\ QuitFits =>
        (quit /\ caller # "closing" => source = "over" /\ (mode = "watch" => fwd = "over"))
  BY DEF StreamIInv, StreamTypeOK, ModeFits, QuitFits
<1> QED
  BY <1>1, QuitInvariant, PTL

\* So nothing is sent to the caller's channel after Unsubscribe, or after the
\* subscription has failed, and the caller may close it.
THEOREM StreamEndIsFinal ==
  StreamSpec => [][mode = "watch" /\ (fwd = "over" \/ (quit /\ caller # "closing"))
                     => UNCHANGED <<delivered, fwd>>]_streamVars
<1>1. ASSUME StreamIInv, QuitFits, StreamNext,
             mode = "watch", fwd = "over" \/ (quit /\ caller # "closing")
      PROVE  UNCHANGED <<delivered, fwd>>
  <2> USE <1>1 DEF StreamIInv, StreamTypeOK, ModeFits, QuitFits, callVars, fwdVars
  <2>1. CASE Emit \/ SourcePuts \/ SourceEnds
    BY <2>1 DEF Emit, SourcePuts, SourceEnds
  <2>2. CASE Filter \/ CallNext \/ Watch \/ Read
    BY <2>2 DEF Filter, CallNext, Watch, Read
  <2>3. CASE Next \/ Forward
    BY <2>3 DEF Next, NextFailed, NextTakes, NextEnds, NextDrained,
                Forward, WatchTakes, WatchSends, WatchBreaks, WatchQuits
  <2>4. CASE Close \/ CloseReturns
    BY <2>4 DEF Close, CloseReturns
  <2> QED
    BY <2>1, <2>2, <2>3, <2>4 DEF StreamNext
<1>2. StreamIInv /\ QuitFits /\ [StreamNext]_streamVars =>
        [mode = "watch" /\ (fwd = "over" \/ (quit /\ caller # "closing"))
           => UNCHANGED <<delivered, fwd>>]_streamVars
  BY <1>1
<1> QED
  BY <1>2, QuitInvariant, PTL DEF StreamSpec

=============================================================================
