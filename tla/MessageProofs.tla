--------------------------- MODULE MessageProofs ---------------------------
(***************************************************************************)
(* What holds of the parts that answer for messages whatever their sizes:  *)
(* the live stream's reason to give up and its order, the prefix a bounded *)
(* fetch returns, where a jump lands, and the stamps of decoded payloads.  *)
(***************************************************************************)
EXTENDS Tail, TimelineRequest, SchemaRegistry, SequenceTheorems, WellFoundedInduction, TLAPS

\* A streak of errors is no longer than the time since the last good poll.
StreakIsBad ==
    /\ badFor \in 0 .. StallTimeout
    /\ streak \in {NoStreak} \cup 0 .. StallTimeout
    /\ streak # NoStreak => streak <= badFor

StallInv == StreakIsBad /\ StallIsReal

LEMMA StallInit == TailInit => StallInv
  BY TailAssumption DEF TailInit, StallInv, StreakIsBad, StallIsReal, NoStreak

\* What leaves the polling alone, and no thread stalled that was not.
LEMMA PollingUntouched ==
  ASSUME StallInv, UNCHANGED <<streak, badFor>>, poller' # "stalled" \/ UNCHANGED poller
  PROVE  StallInv'
  BY DEF StallInv, StreakIsBad, StallIsReal

\* The polls that are not errors, and the errors.
LEMMA PollsKeepStreak ==
  ASSUME StallInv, PollMessage \/ PollEmpty \/ PollError
  PROVE  StallInv'
<1> USE TailAssumption DEF StallInv, StreakIsBad, StallIsReal, NoStreak
<1>1. CASE PollMessage
  BY <1>1 DEF PollMessage, Poller
<1>2. CASE PollEmpty
  BY <1>2 DEF PollEmpty, QuietEndsStreak, Poller
<1>3. CASE PollError
  BY <1>3 DEF PollError, PollAgain, Poller
<1> QED  BY <1>1, <1>2, <1>3

LEMMA TimeKeepsStreak == StallInv /\ TickTail => StallInv'
  BY TailAssumption DEF StallInv, StreakIsBad, StallIsReal, NoStreak, TickTail

\* Every other step of the thread moves it without touching its streak.
LEMMA ThreadKeepsStreak == StallInv /\ Thread => StallInv'
<1> SUFFICES ASSUME StallInv, Thread  PROVE StallInv'
  OBVIOUS
<1>1. CASE CreateConsumer
  BY <1>1, PollingUntouched DEF CreateConsumer, Poller
<1>2. CASE PollCancelled
  BY <1>2, PollingUntouched DEF PollCancelled, Poller
<1>3. CASE PollPanics
  BY <1>3, PollingUntouched DEF PollPanics, Poller
<1>4. CASE SendRaw
  BY <1>4, PollingUntouched DEF SendRaw, Poller
<1> QED  BY <1>1, <1>2, <1>3, <1>4, PollsKeepStreak DEF Thread

\* Neither the task, nor the browser, nor the beginning of a stream polls.
LEMMA OthersKeepStreak ==
  ASSUME StallInv, RefuseTail \/ StartTail \/ Decoder \/ Read \/ DropStream
  PROVE  StallInv'
<1>1. CASE RefuseTail \/ StartTail
  BY <1>1, PollingUntouched DEF RefuseTail, StartTail, threadVars
<1>2. CASE Decoder
  BY <1>2, PollingUntouched
     DEF Decoder, Receive, ReceiveEnds, SendMessage, SendFails, Join, Report, Task, threadVars
<1>3. CASE Read \/ DropStream
  BY <1>3, PollingUntouched DEF Read, DropStream, threadVars
<1> QED  BY <1>1, <1>2, <1>3

LEMMA StallNext == StallInv /\ [TailNext]_tailVars => StallInv'
<1> SUFFICES ASSUME StallInv, [TailNext]_tailVars  PROVE StallInv'
  OBVIOUS
<1>1. CASE UNCHANGED tailVars
  BY <1>1, PollingUntouched DEF tailVars, threadVars
<1>2. CASE TailNext
  BY <1>2, ThreadKeepsStreak, TimeKeepsStreak, OthersKeepStreak DEF TailNext
<1> QED  BY <1>1, <1>2

\* drive_tail_poll: isolated errors on a quiet topic never end a live stream.
THEOREM StallIsRealHolds == TailSpec => []StallIsReal
<1>1. TailSpec => []StallInv
  BY StallInit, StallNext, PTL DEF TailSpec
<1>2. StallInv => StallIsReal
  BY DEF StallInv
<1> QED  BY <1>1, <1>2, PTL

-----------------------------------------------------------------------------
(* A live stream loses, repeats and reorders nothing (StreamIsWhole).        *)

\* What the browser gets as the n-th event: the n-th record, or the error that
\* follows the last one.
Nth(n) == IF n = polled + 1 THEN ErrorEvent ELSE n

\* How many records the task holds, and the thread.
InTask == IF task = "send" THEN 1 ELSE 0
InThread == IF poller = "send" THEN 1 ELSE 0

\* Each stage holds the records that follow those of the stages after it.
InOrder ==
    LET r == Len(received)
        e == Len(events)
    IN  /\ \A i \in 1 .. r : received[i] = Nth(i)
        /\ \A i \in 1 .. e : events[i] = Nth(r + i)
        /\ task = "send" => carried = r + e + 1
        /\ \A i \in 1 .. Len(raw) : raw[i] = r + e + InTask + i
        /\ \/ r + e + InTask + Len(raw) + InThread = polled
           \/ task = "over" /\ r + e = polled + 1
        /\ task \in {"join", "report", "over"} \/ ~rawOpen => poller \in Ended /\ raw = <<>>
        /\ ~rawOpen => task \in {"join", "report", "over"}

NotBegun ==
    task \in {"none", "refused"} =>
        /\ ~connected /\ poller = "none" /\ polled = 0 /\ rawOpen
        /\ raw = <<>> /\ events = <<>> /\ received = <<>>

TailInv ==
    /\ TailTypeOK
    /\ poller = "send" => polled > 0
    /\ NotBegun
    /\ connected => InOrder

\* At first nothing has been returned and nothing is on its way.
LEMMA TailStarts == TailInit => TailInv
<1> SUFFICES ASSUME TailInit PROVE TailInv
  OBVIOUS
<1>0. /\ <<>> \in Seq(1 .. MaxPolled) /\ <<>> \in Seq(0 .. MaxPolled)
      /\ Len(<<>>) = 0
  BY EmptySeq
<1>a. /\ raw \in Seq(1 .. MaxPolled) /\ Len(raw) = 0
      /\ events \in Seq(0 .. MaxPolled) /\ Len(events) = 0 /\ received \in Seq(0 .. MaxPolled)
  BY <1>0, Zenon DEF TailInit
<1>b. /\ poller = "none" /\ streak = NoStreak /\ polled = 0 /\ rawOpen = TRUE
      /\ task = "none" /\ carried = ErrorEvent /\ connected = FALSE /\ cancelled = FALSE
      /\ badFor = 0
  BY DEF TailInit
<1>c. Len(raw) <= ChannelSize /\ Len(events) <= ChannelSize
  BY <1>a, TailAssumption
<1>d. /\ NoStreak \in {NoStreak} \cup 0 .. StallTimeout /\ 0 \in 0 .. StallTimeout
      /\ 0 \in 0 .. MaxPolled
  BY TailAssumption
<1>1. TailTypeOK
  BY <1>a, <1>b, <1>c, <1>d DEF TailTypeOK, ErrorEvent
<1>2. QED
  BY <1>1 DEF TailInit, TailInv, NotBegun

\* The types of the sequences, spelled out.
LEMMA TailFacts ==
    ASSUME TailTypeOK
    PROVE  /\ polled \in Nat /\ MaxPolled \in Nat /\ ChannelSize \in Nat \ {0}
           /\ polled <= MaxPolled
           /\ Len(raw) \in Nat /\ Len(events) \in Nat /\ Len(received) \in Nat
           /\ raw \in Seq(1 .. MaxPolled) /\ events \in Seq(0 .. MaxPolled)
           /\ received \in Seq(0 .. MaxPolled)
           /\ Len(raw) <= ChannelSize /\ Len(events) <= ChannelSize
           /\ carried \in 0 .. MaxPolled
  BY TailAssumption DEF TailTypeOK

\* What holds of a sequence when an element is added at its end, and when the
\* first one is taken away.
LEMMA Appended ==
    ASSUME NEW S, NEW s \in Seq(S), NEW x \in S
    PROVE  /\ Append(s, x) \in Seq(S) /\ Len(Append(s, x)) = Len(s) + 1 /\ Len(s) \in Nat
           /\ \A i \in 1 .. Len(s) : Append(s, x)[i] = s[i]
           /\ Append(s, x)[Len(s) + 1] = x
  OBVIOUS

\* What holds of two sequences put together.
LEMMA Joined ==
    ASSUME NEW S, NEW s \in Seq(S), NEW t \in Seq(S)
    PROVE  /\ s \o t \in Seq(S) /\ Len(s \o t) = Len(s) + Len(t)
           /\ Len(s) \in Nat /\ Len(t) \in Nat
           /\ \A i \in 1 .. Len(s) : (s \o t)[i] = s[i]
           /\ \A i \in 1 .. Len(t) : (s \o t)[Len(s) + i] = t[i]
<1>1. Len(s) \in Nat /\ Len(t) \in Nat
  OBVIOUS
<1>2. ASSUME NEW i \in 1 .. Len(t) PROVE (s \o t)[Len(s) + i] = t[i]
  <2>1. Len(s) + i \in 1 .. Len(s) + Len(t) /\ ~(Len(s) + i <= Len(s)) /\ (Len(s) + i) - Len(s) = i
    BY <1>1
  <2>2. QED
    BY <2>1, ConcatProperties
<1>3. ASSUME NEW i \in 1 .. Len(s) PROVE (s \o t)[i] = s[i]
  <2>1. i \in 1 .. Len(s) + Len(t) /\ i <= Len(s)
    BY <1>1
  <2>2. QED
    BY <2>1, ConcatProperties
<1>4. QED
  BY <1>1, <1>2, <1>3, ConcatProperties

LEMMA Taken ==
    ASSUME NEW S, NEW s \in Seq(S), s # <<>>
    PROVE  /\ Tail(s) \in Seq(S) /\ Head(s) \in S /\ Head(s) = s[1]
           /\ Len(s) \in Nat /\ Len(s) >= 1 /\ Len(Tail(s)) = Len(s) - 1
           /\ \A i \in 1 .. Len(s) - 1 : Tail(s)[i] = s[i + 1]
  BY HeadTailProperties, EmptySeq

\* A step that moves no record.
LEMMA NothingMoves ==
    ASSUME TailInv, TailTypeOK', UNCHANGED <<polled, received, events, raw, carried>>,
           task' = task, rawOpen' = rawOpen, connected' => connected,
           InThread' = InThread, poller \in Ended => poller' \in Ended,
           poller' = "send" => poller = "send", poller = "none" <=> poller' = "none"
    PROVE  TailInv'
<1>1. connected' => InOrder'
  BY DEF TailInv, InOrder, Nth, InTask
<1>2. NotBegun'
  BY DEF TailInv, NotBegun
<1>3. QED
  BY <1>1, <1>2 DEF TailInv

\* The thread: polls, and the record it hands over.
LEMMA ThreadInv ==
    ASSUME TailInv, Thread
    PROVE  TailInv'
<1> USE DEF Running, Ended
<1>0. /\ UNCHANGED <<task, carried, events, received, connected, cancelled>>
      /\ poller \in {"create", "poll", "send"}
  BY DEF Thread, CreateConsumer, PollMessage, PollError, PollEmpty, PollCancelled, PollPanics, SendRaw,
         Poller, PollAgain, taskVars
<1>1. CASE CreateConsumer \/ PollError \/ PollEmpty \/ PollCancelled \/ PollPanics
  <2>1. /\ poller' \in {"poll"} \cup Ended /\ poller \in {"create", "poll"}
        /\ UNCHANGED <<polled, raw, rawOpen>>
    BY <1>1 DEF CreateConsumer, PollError, PollEmpty, PollCancelled, PollPanics, Poller, PollAgain
  <2>2. /\ streak' \in {NoStreak} \cup 0 .. StallTimeout
        /\ badFor' \in 0 .. StallTimeout
    BY <1>1, TailAssumption DEF TailInv, TailTypeOK, CreateConsumer, PollError, PollEmpty,
           PollCancelled, PollPanics, QuietEndsStreak, NoStreak
  <2>3. TailTypeOK'
    BY <1>0, <2>1, <2>2 DEF TailInv, TailTypeOK
  <2>4. QED
    BY <1>0, <2>1, <2>3, NothingMoves DEF InThread
<1>2. CASE PollMessage
  <2>1. /\ poller = "poll" /\ poller' = "send" /\ polled < MaxPolled /\ polled' = polled + 1
        /\ UNCHANGED <<raw, rawOpen>> /\ streak' = NoStreak /\ badFor' = 0
    BY <1>2 DEF PollMessage, PollAgain, Poller
  <2>2. TailTypeOK'
    BY <1>0, <2>1, TailAssumption DEF TailInv, TailTypeOK
  <2>3. ASSUME connected' PROVE InOrder'
    <3>1. InOrder
      BY <1>0, <2>3 DEF TailInv
    <3>2. /\ polled \in Nat /\ Len(raw) \in Nat /\ Len(events) \in Nat /\ Len(received) \in Nat
          /\ Len(received) + Len(events) + InTask + Len(raw) = polled
          /\ task \notin {"join", "report", "over"}
      <4>1. poller = "poll" /\ poller \notin Ended /\ InThread = 0
        BY <2>1 DEF InThread
      <4>2. task \notin {"join", "report", "over"}
        BY <3>1, <4>1 DEF InOrder
      <4>3. InTask \in {0, 1}
        BY DEF InTask
      <4>4. Len(received) + Len(events) + InTask + Len(raw) + InThread = polled
        BY <3>1, <4>2 DEF InOrder
      <4>5. QED
        BY <4>1, <4>2, <4>3, <4>4, TailFacts DEF TailInv
    <3>3. \A i \in 1 .. Len(received) + Len(events) : Nth(i) = i /\ Nth(i)' = i
      BY <2>1, <3>2 DEF Nth, InTask
    <3>4. \A i \in 1 .. Len(received) : received'[i] = Nth(i)'
      BY <1>0, <3>1, <3>2, <3>3 DEF InOrder
    <3>5. ASSUME NEW i \in 1 .. Len(events)
          PROVE  events'[i] = Nth(Len(received) + i)'
      <4>1. Len(received) + i \in 1 .. Len(received) + Len(events)
        BY <3>2, <3>5
      <4>2. Nth(Len(received) + i) = Nth(Len(received) + i)'
        BY <1>0, <3>3, <4>1
      <4>3. QED
        BY <1>0, <3>1, <4>2 DEF InOrder
    <3>6. QED
      BY <1>0, <2>1, <3>1, <3>2, <3>4, <3>5 DEF InOrder, InTask, InThread
  <2>4. QED
    BY <1>0, <2>1, <2>2, <2>3, TailFacts DEF TailInv, NotBegun
<1>3. CASE SendRaw /\ rawOpen
  <2>1. /\ poller = "send" /\ poller' = "poll" /\ Len(raw) < ChannelSize /\ raw' = Append(raw, polled)
        /\ UNCHANGED <<polled, rawOpen, streak, badFor>>
    BY <1>3 DEF SendRaw, BlockingSend, Poller
  <2>2. polled \in 1 .. MaxPolled
    BY <2>1, TailFacts DEF TailInv
  <2>3. /\ raw' \in Seq(1 .. MaxPolled) /\ Len(raw') = Len(raw) + 1
        /\ \A i \in 1 .. Len(raw) : raw'[i] = raw[i]
        /\ raw'[Len(raw) + 1] = polled /\ Len(raw) \in Nat
    BY <2>1, <2>2, Appended DEF TailInv, TailTypeOK
  <2>4. TailTypeOK'
    BY <1>0, <2>1, <2>3, TailAssumption DEF TailInv, TailTypeOK
  <2>5. ASSUME connected' PROVE InOrder'
    <3>1. InOrder
      BY <1>0, <2>5 DEF TailInv
    <3>2. /\ polled \in Nat /\ Len(raw) \in Nat /\ Len(events) \in Nat /\ Len(received) \in Nat
          /\ Len(received) + Len(events) + InTask + Len(raw) + 1 = polled
          /\ task \notin {"join", "report", "over"}
      BY <2>1, <3>1, TailFacts DEF InOrder, InThread, TailInv
    <3>3. ASSUME NEW i \in 1 .. Len(raw')
          PROVE  raw'[i] = Len(received) + Len(events) + InTask + i
      <4>1. CASE i \in 1 .. Len(raw)
        BY <2>3, <3>1, <4>1 DEF InOrder
      <4>2. CASE i = Len(raw) + 1
        BY <2>3, <3>2, <4>2 DEF InTask
      <4>3. QED
        BY <2>3, <3>3, <4>1, <4>2
    <3>4. QED
      BY <1>0, <1>3, <2>1, <2>3, <3>1, <3>2, <3>3 DEF InOrder, InTask, InThread, Nth
  <2>6. QED
    BY <1>0, <2>1, <2>2, <2>4, <2>5 DEF TailInv, NotBegun
<1>4. CASE SendRaw /\ ~rawOpen
  <2>1. /\ poller = "send" /\ poller' = "stopped"
        /\ UNCHANGED <<polled, raw, rawOpen, streak, badFor>>
    BY <1>4 DEF SendRaw, Poller
  <2>2. TailTypeOK'
    BY <1>0, <2>1 DEF TailInv, TailTypeOK
  <2>3. ~connected
    BY <1>4, <2>1 DEF TailInv, InOrder
  <2>4. QED
    BY <1>0, <2>1, <2>2, <2>3 DEF TailInv, NotBegun
<1>5. QED
  BY <1>1, <1>2, <1>3, <1>4 DEF Thread

\* The task: what it receives, sends and reports.
LEMMA DecoderInv ==
    ASSUME TailInv, Decoder
    PROVE  TailInv'
<1>0. /\ UNCHANGED <<poller, streak, polled, badFor, received, connected>>
      /\ task \in {"receive", "send", "join", "report"}
  BY DEF Decoder, Receive, ReceiveEnds, SendMessage, SendFails, Join, Report, Task, threadVars
<1>1. CASE Receive
  <2>1. /\ task = "receive" /\ raw # <<>> /\ carried' = Head(raw) /\ raw' = Tail(raw)
        /\ task' = "send" /\ UNCHANGED <<rawOpen, events, cancelled>>
    BY <1>1 DEF Receive, Task
  <2>2. /\ raw' \in Seq(1 .. MaxPolled) /\ carried' \in 1 .. MaxPolled /\ carried' = raw[1]
        /\ Len(raw) \in Nat /\ Len(raw) >= 1 /\ Len(raw') = Len(raw) - 1
        /\ \A i \in 1 .. Len(raw) - 1 : raw'[i] = raw[i + 1]
    BY <2>1, Taken DEF TailInv, TailTypeOK
  <2>3. TailTypeOK'
    BY <1>0, <2>1, <2>2, TailAssumption DEF TailInv, TailTypeOK
  <2>4. ASSUME connected' PROVE InOrder'
    <3>1. InOrder
      BY <1>0, <2>4 DEF TailInv
    <3>2. /\ polled \in Nat /\ Len(events) \in Nat /\ Len(received) \in Nat
          /\ carried' = Len(received) + Len(events) + 1
      BY <2>1, <2>2, <3>1, TailFacts DEF InOrder, InTask, TailInv
    <3>3. ASSUME NEW i \in 1 .. Len(raw')
          PROVE  raw'[i] = Len(received) + Len(events) + 1 + i
      <4>1. i + 1 \in 1 .. Len(raw) /\ i \in 1 .. Len(raw) - 1 /\ i \in Nat
        BY <2>2, <3>3
      <4>2. raw[i + 1] = Len(received) + Len(events) + InTask + (i + 1)
        BY <3>1, <4>1 DEF InOrder
      <4>. InTask = 0
        BY <2>1 DEF InTask
      <4>3. QED
        BY <2>2, <3>2, <4>1, <4>2
    <3>4. InTask = 0 /\ InTask' = 1 /\ InThread' = InThread /\ InThread \in {0, 1}
      BY <1>0, <2>1 DEF InTask, InThread
    <3>a. Len(received) + Len(events) + InTask + Len(raw) + InThread = polled
      BY <2>1, <3>1 DEF InOrder
    <3>5. Len(received) + Len(events) + InTask' + Len(raw') + InThread' = polled
      <4>1. Len(raw') = Len(raw) - 1 /\ Len(raw) \in Nat
        BY <2>2
      <4>2. QED
        BY <3>2, <3>4, <3>a, <4>1
    <3>6. \A n : Nth(n)' = Nth(n)
      BY <1>0 DEF Nth
    <3>7. rawOpen
      BY <2>1, <3>1 DEF InOrder
    <3>8. QED
      BY <1>0, <2>1, <2>2, <3>1, <3>2, <3>3, <3>4, <3>5, <3>6, <3>7 DEF InOrder
  <2>5. QED
    BY <1>0, <2>1, <2>3, <2>4 DEF TailInv, NotBegun
<1>2. CASE ReceiveEnds
  <2>1. /\ task = "receive" /\ poller \in Ended /\ raw = <<>> /\ raw' = <<>> /\ rawOpen' = FALSE
        /\ task' = "join" /\ UNCHANGED <<carried, events, cancelled>>
    BY <1>2 DEF ReceiveEnds, Task, Drained, DropReceiver
  <2>2. TailTypeOK'
    BY <1>0, <2>1, TailAssumption DEF TailInv, TailTypeOK
  <2>3. connected' => InOrder'
    BY <1>0, <2>1 DEF TailInv, InOrder, InTask, InThread, Nth
  <2>4. QED
    BY <1>0, <2>1, <2>2, <2>3 DEF TailInv, NotBegun
<1>3. CASE SendMessage
  <2>1. /\ task = "send" /\ Len(events) < ChannelSize /\ events' = Append(events, carried)
        /\ carried' = ErrorEvent /\ task' = "receive" /\ UNCHANGED <<raw, rawOpen, cancelled>>
    BY <1>3 DEF SendMessage, Task
  <2>2. /\ events' \in Seq(0 .. MaxPolled) /\ Len(events') = Len(events) + 1 /\ Len(events) \in Nat
        /\ \A i \in 1 .. Len(events) : events'[i] = events[i]
        /\ events'[Len(events) + 1] = carried
    BY <2>1, Appended DEF TailInv, TailTypeOK
  <2>3. TailTypeOK'
    BY <1>0, <2>1, <2>2, TailAssumption DEF TailInv, TailTypeOK, ErrorEvent
  <2>4. ASSUME connected' PROVE InOrder'
    <3>1. InOrder
      BY <1>0, <2>4 DEF TailInv
    <3>2. /\ polled \in Nat /\ Len(received) \in Nat /\ Len(raw) \in Nat
          /\ carried = Len(received) + Len(events) + 1
          /\ Len(received) + Len(events) + 1 + Len(raw) + InThread = polled
          /\ InThread \in {0, 1}
      BY <2>1, <3>1, TailFacts DEF InOrder, InTask, InThread, TailInv
    <3>3. Nth(Len(received) + Len(events) + 1) = carried
      BY <2>2, <3>2 DEF Nth
    <3>4. ASSUME NEW i \in 1 .. Len(events')
          PROVE  events'[i] = Nth(Len(received) + i)
      <4>1. CASE i \in 1 .. Len(events)
        BY <2>2, <3>1, <4>1 DEF InOrder
      <4>2. CASE i = Len(events) + 1
        BY <2>2, <3>2, <3>3, <4>2
      <4>3. QED
        BY <2>2, <3>4, <4>1, <4>2
    <3>5. QED
      BY <1>0, <2>1, <2>2, <3>1, <3>2, <3>4 DEF InOrder, InTask, InThread, Nth
  <2>5. QED
    BY <1>0, <2>1, <2>3, <2>4 DEF TailInv, NotBegun
<1>4. CASE SendFails
  <2>1. /\ ~connected /\ cancelled' = TRUE /\ raw' = <<>> /\ rawOpen' = FALSE /\ task' = "join"
        /\ UNCHANGED <<carried, events>>
    BY <1>4 DEF SendFails, DropReceiver, Task
  <2>2. TailTypeOK'
    <3>1. raw' \in Seq(1 .. MaxPolled) /\ Len(raw') = 0
      BY <2>1, EmptySeq
    <3>2. /\ cancelled' = TRUE /\ rawOpen' = FALSE /\ task' = "join"
          /\ UNCHANGED <<carried, events>>
      BY <2>1
    <3>3. Len(raw') <= ChannelSize
      BY <3>1, TailAssumption
    <3>4. QED
      BY <1>0, <3>1, <3>2, <3>3 DEF TailInv, TailTypeOK
  <2>3. QED
    BY <1>0, <2>1, <2>2 DEF TailInv, NotBegun
<1>5. CASE Join
  <2>1. /\ task = "join" /\ poller \in Ended /\ task' \in {"report", "over"}
        /\ UNCHANGED <<carried, raw, rawOpen, events, cancelled>>
    BY <1>5 DEF Join, Task
  <2>2. TailTypeOK'
    BY <1>0, <2>1 DEF TailInv, TailTypeOK
  <2>3. connected' => InOrder'
    BY <1>0, <2>1 DEF TailInv, InOrder, InTask, InThread, Nth
  <2>4. QED
    BY <1>0, <2>1, <2>2, <2>3 DEF TailInv, NotBegun
<1>6. CASE Report
  <2>1. task = "report" /\ task' = "over" /\ UNCHANGED <<carried, raw, rawOpen, cancelled>>
    BY <1>6 DEF Report, Task
  <2>2. CASE ~connected
    <3>1. events' = events
      BY <1>6, <2>2 DEF Report
    <3>2. TailTypeOK'
      BY <1>0, <2>1, <3>1 DEF TailInv, TailTypeOK
    <3>3. QED
      BY <1>0, <2>1, <2>2, <3>1, <3>2 DEF TailInv, NotBegun
  <2>3. CASE connected
    <3>1. events' = Append(events, ErrorEvent) /\ Len(events) < ChannelSize
      BY <1>6, <2>3 DEF Report
    <3>2. /\ events' \in Seq(0 .. MaxPolled) /\ Len(events') = Len(events) + 1 /\ Len(events) \in Nat
          /\ \A i \in 1 .. Len(events) : events'[i] = events[i]
          /\ events'[Len(events) + 1] = ErrorEvent
      <4>1. ErrorEvent \in 0 .. MaxPolled /\ events \in Seq(0 .. MaxPolled)
        BY TailAssumption DEF ErrorEvent, TailInv, TailTypeOK
      <4>2. QED
        BY <3>1, <4>1, Appended
    <3>3. TailTypeOK'
      BY <1>0, <2>1, <3>1, <3>2, TailAssumption DEF TailInv, TailTypeOK
    <3>4. InOrder /\ poller \in Ended /\ raw = <<>>
      BY <2>1, <2>3 DEF TailInv, InOrder
    <3>5. /\ polled \in Nat /\ Len(received) \in Nat
          /\ Len(received) + Len(events) = polled
      BY <2>1, <3>2, <3>4, TailFacts DEF InOrder, InTask, InThread, TailInv, Ended
    <3>6. ASSUME NEW i \in 1 .. Len(events')
          PROVE  events'[i] = Nth(Len(received) + i)
      <4>1. CASE i \in 1 .. Len(events)
        BY <3>2, <3>4, <4>1 DEF InOrder
      <4>2. CASE i = Len(events) + 1
        BY <3>2, <3>5, <4>2 DEF Nth
      <4>3. QED
        BY <3>2, <3>6, <4>1, <4>2
    <3>a. \A n : Nth(n)' = Nth(n)
      BY <1>0 DEF Nth
    <3>b. Len(raw) = 0 /\ InTask' = 0 /\ raw' = <<>>
      BY <2>1, <3>4, EmptySeq DEF InTask
    <3>c. /\ Len(received) + Len(events') = polled + 1
          /\ \A i \in 1 .. Len(received) : received'[i] = Nth(i)'
          /\ \A i \in 1 .. Len(events') : events'[i] = Nth(Len(received) + i)'
          /\ \A i \in 1 .. Len(raw') : raw'[i] = Len(received) + Len(events') + InTask' + i
      BY <1>0, <3>2, <3>4, <3>5, <3>6, <3>a, <3>b DEF InOrder
    <3>7. InOrder'
      BY <1>0, <2>1, <3>4, <3>b, <3>c DEF InOrder
    <3>8. QED
      BY <1>0, <2>1, <3>3, <3>7 DEF TailInv, NotBegun
  <2>4. QED
    BY <2>2, <2>3
<1>7. QED
  BY <1>1, <1>2, <1>3, <1>4, <1>5, <1>6 DEF Decoder

\* The browser reads the oldest event.
LEMMA ReadInv ==
    ASSUME TailInv, Read
    PROVE  TailInv'
<1>1. /\ connected /\ events # <<>> /\ received' = Append(received, Head(events)) /\ events' = Tail(events)
      /\ UNCHANGED <<poller, streak, polled, badFor, task, carried, raw, rawOpen, connected, cancelled>>
  BY DEF Read, threadVars, taskVars
<1>2. /\ events' \in Seq(0 .. MaxPolled) /\ Head(events) \in 0 .. MaxPolled /\ Head(events) = events[1]
      /\ Len(events) \in Nat /\ Len(events) >= 1 /\ Len(events') = Len(events) - 1
      /\ \A i \in 1 .. Len(events) - 1 : events'[i] = events[i + 1]
  BY <1>1, Taken DEF TailInv, TailTypeOK
<1>3. /\ received' \in Seq(0 .. MaxPolled) /\ Len(received') = Len(received) + 1 /\ Len(received) \in Nat
      /\ \A i \in 1 .. Len(received) : received'[i] = received[i]
      /\ received'[Len(received) + 1] = events[1]
  BY <1>1, <1>2, Appended DEF TailInv, TailTypeOK
<1>4. TailTypeOK'
  BY <1>1, <1>2, <1>3, TailAssumption DEF TailInv, TailTypeOK
<1>5. InOrder
  BY <1>1 DEF TailInv
<1>6. \A n : Nth(n)' = Nth(n)
  BY <1>1 DEF Nth
<1>7. ASSUME NEW i \in 1 .. Len(received')
      PROVE  received'[i] = Nth(i)
  <2>1. CASE i \in 1 .. Len(received)
    BY <1>3, <1>5, <2>1 DEF InOrder
  <2>2. CASE i = Len(received) + 1
    BY <1>2, <1>3, <1>5, <2>2 DEF InOrder
  <2>3. QED
    BY <1>3, <1>7, <2>1, <2>2
<1>8. \A i \in 1 .. Len(events') : events'[i] = Nth(Len(received') + i)
  BY <1>2, <1>3, <1>5 DEF InOrder
<1>9. Len(received') + Len(events') = Len(received) + Len(events)
  BY <1>2, <1>3
<1>10. InOrder'
  BY <1>1, <1>2, <1>3, <1>5, <1>6, <1>7, <1>8, <1>9 DEF InOrder, InTask, InThread
<1>11. QED
  BY <1>1, <1>4, <1>10 DEF TailInv, NotBegun

\* No step of the stream takes a record out of its place.
LEMMA TailGoesOn == TailInv /\ [TailNext]_tailVars => TailInv'
<1> SUFFICES ASSUME TailInv, [TailNext]_tailVars PROVE TailInv'
  OBVIOUS
<1>1. CASE UNCHANGED tailVars
  BY <1>1 DEF tailVars, threadVars, taskVars, TailInv, TailTypeOK, NotBegun, InOrder, Nth, InTask, InThread
<1>2. CASE RefuseTail
  BY <1>2 DEF RefuseTail, threadVars, TailInv, TailTypeOK, NotBegun
<1>3. CASE StartTail
  <2>1. /\ task = "none" /\ task' = "receive" /\ poller' = "create"
        /\ UNCHANGED <<streak, polled, badFor, carried, raw, rawOpen, events, received, cancelled>>
        /\ connected' = TRUE
    BY <1>3 DEF StartTail
  <2>2. polled = 0 /\ raw = <<>> /\ events = <<>> /\ received = <<>> /\ rawOpen
    BY <2>1 DEF TailInv, NotBegun
  <2>3. TailTypeOK'
    BY <2>1 DEF TailInv, TailTypeOK, Running
  <2>4. Len(raw) = 0 /\ Len(events) = 0 /\ Len(received) = 0
    BY <2>2
  <2>5. InOrder'
    BY <2>1, <2>2, <2>4 DEF InOrder, InTask, InThread
  <2>6. QED
    BY <2>1, <2>3, <2>5 DEF TailInv, NotBegun
<1>4. CASE DropStream
  <2>1. /\ connected /\ connected' = FALSE /\ cancelled' = TRUE /\ events' = <<>>
        /\ UNCHANGED <<poller, streak, polled, badFor, task, carried, raw, rawOpen, received>>
    BY <1>4 DEF DropStream, threadVars, taskVars
  <2>2. TailTypeOK'
    <3>1. events' \in Seq(0 .. MaxPolled) /\ Len(events') = 0
      BY <2>1, EmptySeq
    <3>2. /\ connected' = FALSE /\ cancelled' = TRUE
          /\ UNCHANGED <<poller, streak, polled, badFor, task, carried, raw, rawOpen, received>>
      BY <2>1
    <3>3. Len(events') <= ChannelSize
      BY <3>1, TailAssumption
    <3>4. QED
      BY <3>1, <3>2, <3>3 DEF TailInv, TailTypeOK
  <2>3. QED
    BY <2>1, <2>2 DEF TailInv, NotBegun
<1>5. CASE TickTail
  <2>1. /\ UNCHANGED <<poller, polled, task, carried, raw, rawOpen, events, received, connected, cancelled>>
        /\ streak' \in {NoStreak} \cup 0 .. StallTimeout /\ badFor' \in 0 .. StallTimeout
    BY <1>5, TailAssumption DEF TickTail, taskVars, TailInv, TailTypeOK, NoStreak
  <2>2. TailTypeOK'
    BY <2>1 DEF TailInv, TailTypeOK
  <2>3. QED
    BY <2>1, <2>2, NothingMoves DEF InThread
<1>6. QED
  BY <1>1, <1>2, <1>3, <1>4, <1>5, ThreadInv, DecoderInv, ReadInv DEF TailNext

\* Where every stage holds the records that follow, all of them together are
\* the records that were returned.
LEMMA OrderIsWhole == TailTypeOK /\ InOrder =>
    LET records == [n \in 1 .. polled |-> n]
    IN  InTransit \in {records, Append(records, ErrorEvent)}
<1> SUFFICES ASSUME TailTypeOK, InOrder
    PROVE  InTransit \in {[n \in 1 .. polled |-> n], Append([n \in 1 .. polled |-> n], ErrorEvent)}
  OBVIOUS
<1> DEFINE S == 0 .. MaxPolled
           records == [n \in 1 .. polled |-> n]
           held == IF task = "send" THEN <<carried>> ELSE <<>>
           last == IF poller = "send" THEN <<polled>> ELSE <<>>
           r == Len(received)
           e == Len(events)
           one == received \o events
           two == one \o held
           three == two \o raw
           whole == three \o last
<1>0. /\ polled \in Nat /\ MaxPolled \in Nat /\ polled \in S /\ carried \in S
      /\ received \in Seq(S) /\ events \in Seq(S) /\ raw \in Seq(S)
      /\ r \in Nat /\ e \in Nat /\ Len(raw) \in Nat
  <2>1. raw \in Seq(1 .. MaxPolled) /\ 1 .. MaxPolled \subseteq S
    BY TailFacts
  <2>2. raw \in Seq(S)
    BY <2>1, SeqMonotonic
  <2>3. QED
    BY <2>2, TailFacts
<1>1. /\ held \in Seq(S) /\ last \in Seq(S) /\ Len(held) = InTask /\ Len(last) = InThread
      /\ InTask \in {0, 1} /\ InThread \in {0, 1}
      /\ (InTask = 1 => held[1] = carried) /\ (InThread = 1 => last[1] = polled)
  <2>1. /\ <<carried>> \in Seq(S) /\ Len(<<carried>>) = 1 /\ <<carried>>[1] = carried
        /\ <<polled>> \in Seq(S) /\ Len(<<polled>>) = 1 /\ <<polled>>[1] = polled
    BY <1>0
  <2>2. <<>> \in Seq(S) /\ Len(<<>>) = 0
    BY EmptySeq
  <2>3. /\ held \in Seq(S) /\ Len(held) = InTask /\ InTask \in {0, 1}
        /\ InTask = 1 => held[1] = carried
    <3>1. CASE task = "send"
      <4>1. held = <<carried>> /\ InTask = 1
        BY <3>1 DEF InTask
      <4>2. QED
        BY <2>1, <4>1
    <3>2. CASE task # "send"
      <4>1. held = <<>> /\ InTask = 0
        BY <3>2 DEF InTask
      <4>2. held \in Seq(S) /\ Len(held) = 0
        BY <2>2, <4>1, Zenon
      <4>3. InTask = 0
        BY <4>1
      <4>4. QED
        BY <4>2, <4>3
    <3>3. QED
      BY <3>1, <3>2
  <2>4. /\ last \in Seq(S) /\ Len(last) = InThread /\ InThread \in {0, 1}
        /\ InThread = 1 => last[1] = polled
    <3>1. CASE poller = "send"
      <4>1. last = <<polled>> /\ InThread = 1
        BY <3>1 DEF InThread
      <4>2. QED
        BY <2>1, <4>1
    <3>2. CASE poller # "send"
      <4>1. last = <<>> /\ InThread = 0
        BY <3>2 DEF InThread
      <4>2. last \in Seq(S) /\ Len(last) = 0
        BY <2>2, <4>1, Zenon
      <4>3. InThread = 0
        BY <4>1
      <4>4. QED
        BY <4>2, <4>3
    <3>3. QED
      BY <3>1, <3>2
  <2>5. QED
    BY <2>3, <2>4
<1>2. InTransit = whole
  BY DEF InTransit
<1> HIDE DEF S, held, last
<1>3. /\ one \in Seq(S) /\ Len(one) = r + e
      /\ \A i \in 1 .. r : one[i] = received[i]
      /\ \A i \in 1 .. e : one[r + i] = events[i]
  BY <1>0, Joined
<1>4. \A i \in 1 .. Len(one) : one[i] = Nth(i)
  <2>1. ASSUME NEW i \in 1 .. Len(one) PROVE one[i] = Nth(i)
    <3>1. CASE i <= r
      BY <1>0, <1>3, <3>1 DEF InOrder
    <3>2. CASE i > r
      <4>1. i - r \in 1 .. e /\ i = r + (i - r)
        BY <1>0, <1>3, <3>2
      <4>2. one[r + (i - r)] = events[i - r] /\ events[i - r] = Nth(r + (i - r))
        BY <1>3, <4>1 DEF InOrder
      <4>3. QED
        BY <4>1, <4>2
    <3>3. QED
      BY <1>0, <1>3, <3>1, <3>2
  <2>2. QED
    BY <2>1
<1> HIDE DEF one
<1>5. /\ two \in Seq(S) /\ Len(two) = r + e + InTask
      /\ \A i \in 1 .. r + e : two[i] = one[i]
      /\ InTask = 1 => two[r + e + 1] = carried
  <2>1. /\ two \in Seq(S) /\ Len(two) = Len(one) + Len(held)
        /\ \A i \in 1 .. Len(one) : two[i] = one[i]
        /\ \A i \in 1 .. Len(held) : two[Len(one) + i] = held[i]
    BY <1>1, <1>3, Joined
  <2>2. InTask = 1 => two[r + e + 1] = carried
    <3>1. ASSUME InTask = 1 PROVE two[Len(one) + 1] = held[1]
      BY <1>1, <2>1, <3>1
    <3>2. QED
      BY <1>1, <1>3, <3>1
  <2>3. QED
    BY <1>1, <1>3, <2>1, <2>2
<1> HIDE DEF two
<1>6. /\ three \in Seq(S) /\ Len(three) = r + e + InTask + Len(raw)
      /\ \A i \in 1 .. Len(two) : three[i] = two[i]
      /\ \A i \in 1 .. Len(raw) : three[Len(two) + i] = raw[i]
  <2>1. /\ three \in Seq(S) /\ Len(three) = Len(two) + Len(raw)
        /\ \A i \in 1 .. Len(two) : three[i] = two[i]
        /\ \A i \in 1 .. Len(raw) : three[Len(two) + i] = raw[i]
    <3>1. raw \in Seq(S) /\ two \in Seq(S)
      BY <1>0, <1>5
    <3>2. QED
      BY <3>1, Joined
  <2>2. QED
    BY <1>5, <2>1
<1> HIDE DEF three
<1>7. /\ whole \in Seq(S) /\ Len(whole) = r + e + InTask + Len(raw) + InThread
      /\ \A i \in 1 .. Len(three) : whole[i] = three[i]
      /\ InThread = 1 => whole[Len(three) + 1] = polled
  <2>1. /\ whole \in Seq(S) /\ Len(whole) = Len(three) + Len(last)
        /\ \A i \in 1 .. Len(three) : whole[i] = three[i]
        /\ \A i \in 1 .. Len(last) : whole[Len(three) + i] = last[i]
    BY <1>1, <1>6, Joined
  <2>2. ASSUME InThread = 1 PROVE whole[Len(three) + 1] = polled
    BY <1>1, <2>1, <2>2
  <2>3. QED
    BY <1>1, <1>6, <2>1, <2>2
<1> HIDE DEF whole
<1>8. \A i \in 1 .. Len(whole) : whole[i] = Nth(i)
  <2>1. ASSUME NEW i \in 1 .. Len(whole) PROVE whole[i] = Nth(i)
    <3>0. i \in Nat /\ i >= 1 /\ i <= r + e + InTask + Len(raw) + InThread
      BY <1>0, <1>1, <1>7
    <3>1. CASE i <= r + e
      <4>1. i \in 1 .. Len(one) /\ i \in 1 .. r + e /\ i \in 1 .. Len(two) /\ i \in 1 .. Len(three)
        BY <1>0, <1>1, <1>3, <1>5, <1>6, <3>0, <3>1
      <4>2. QED
        BY <1>4, <1>5, <1>6, <1>7, <4>1
    <3>2. ASSUME i > r + e PROVE Nth(i) = i
      <4>1. r + e + InTask + Len(raw) + InThread = polled
        BY <1>0, <1>1, <3>0, <3>2 DEF InOrder, InTask, InThread, Ended
      <4>2. QED
        BY <1>0, <3>0, <4>1 DEF Nth
    <3>3. CASE i > r + e /\ i <= r + e + InTask
      <4>1. InTask = 1 /\ i = r + e + 1 /\ i \in 1 .. Len(two) /\ i \in 1 .. Len(three)
        BY <1>0, <1>1, <1>5, <1>6, <3>0, <3>3
      <4>2. carried = r + e + 1
        BY <4>1 DEF InOrder, InTask
      <4>3. QED
        BY <1>5, <1>6, <1>7, <3>2, <3>3, <4>1, <4>2
    <3>4. CASE i > r + e + InTask /\ i <= r + e + InTask + Len(raw)
      <4> DEFINE j == i - (r + e + InTask)
      <4>1. j \in 1 .. Len(raw) /\ i = Len(two) + j /\ i \in 1 .. Len(three) /\ i = r + e + InTask + j
        BY <1>0, <1>1, <1>5, <1>6, <3>0, <3>4
      <4> HIDE DEF j
      <4>2. raw[j] = i
        BY <4>1 DEF InOrder
      <4>3. QED
        BY <1>0, <1>1, <1>6, <1>7, <3>2, <3>4, <4>1, <4>2
    <3>5. CASE i > r + e + InTask + Len(raw)
      <4>a. InThread = 1
        BY <1>0, <1>1, <3>0, <3>5
      <4>1. InThread = 1 /\ i = Len(three) + 1
        BY <1>0, <1>1, <1>6, <3>0, <3>5, <4>a
      <4>2. r + e + InTask + Len(raw) + 1 = polled
        BY <1>0, <1>1, <3>0, <3>5, <4>1 DEF InOrder, InTask, InThread, Ended
      <4>3. QED
        BY <1>0, <1>1, <1>6, <1>7, <3>2, <3>5, <4>1, <4>2
    <3>6. QED
      BY <1>0, <1>1, <3>0, <3>1, <3>3, <3>4, <3>5
  <2>2. QED
    BY <2>1
<1>9. Len(whole) = polled \/ Len(whole) = polled + 1
  BY <1>0, <1>1, <1>7 DEF InOrder, InTask, InThread, Ended
<1>10. records \in Seq(S) /\ Len(records) = polled /\ \A i \in 1 .. polled : records[i] = i
  BY <1>0 DEF S
<1>11. ErrorEvent \in S
  BY <1>0 DEF S, ErrorEvent
<1> HIDE DEF records
<1>12. CASE Len(whole) = polled
  <2>1. \A i \in 1 .. Len(whole) : whole[i] = records[i]
    BY <1>0, <1>8, <1>10, <1>12 DEF Nth
  <2>2. whole = records
    BY <1>7, <1>10, <1>12, <2>1, SeqEqual
  <2>3. QED
    BY <1>2, <2>2 DEF records
<1>13. CASE Len(whole) = polled + 1
  <2> DEFINE told == Append(records, ErrorEvent)
  <2>1. /\ told \in Seq(S) /\ Len(told) = polled + 1
        /\ \A i \in 1 .. polled : told[i] = records[i]
        /\ told[polled + 1] = ErrorEvent
    BY <1>10, <1>11, Appended
  <2> HIDE DEF told
  <2>2. ASSUME NEW i \in 1 .. Len(whole) PROVE whole[i] = told[i]
    <3>1. CASE i = polled + 1
      BY <1>8, <2>1, <2>2, <3>1 DEF Nth
    <3>2. CASE i # polled + 1
      <4>1. i \in 1 .. polled
        BY <1>0, <1>13, <2>2, <3>2
      <4>2. QED
        BY <1>8, <1>10, <2>1, <2>2, <3>2, <4>1 DEF Nth
    <3>3. QED
      BY <3>1, <3>2
  <2>3. whole = told
    BY <1>7, <1>13, <2>1, <2>2, SeqEqual
  <2>4. QED
    BY <1>2, <2>3 DEF told, records
<1>14. QED
  BY <1>9, <1>12, <1>13

\* The inductive invariant of a live stream.
THEOREM TailInvariant == TailSpec => []TailInv
  BY TailStarts, TailGoesOn, PTL DEF TailSpec

\* tail.rs: through both channels, both schedulers and a slow browser, the
\* records arrive whole and in order, and an error after all of them.
THEOREM StreamIsWholeHolds == TailSpec => []StreamIsWhole
<1>1. TailInv => StreamIsWhole
  BY OrderIsWhole DEF TailInv, StreamIsWhole
<1>2. QED
  BY <1>1, TailInvariant, PTL

-----------------------------------------------------------------------------
\* What was read of a partition is what it holds below the consumer's position,
\* and all that is wanted once the partition is complete.
ReadSoFar(p) ==
    /\ ranges[p].start \in Int /\ ranges[p].end \in Int
    /\ \A o \in Got(p) : o \in ranges[p].start .. ranges[p].end - 1
    /\ p \in DOMAIN next =>
         /\ next[p] \in Int /\ ranges[p].start <= next[p]
         /\ \A o \in Got(p) : o < next[p]
         /\ \A o \in Wanted(p) : o < next[p] \/ p \in done => o \in Got(p)
    /\ p \notin DOMAIN next => Wanted(p) = {}

FetchInv ==
    /\ \A p \in DOMAIN topic : LogAssumption(topic[p])
    /\ place = "none" => fetched = <<>> /\ jumped = {}
    /\ place \in {"accepted", "resolve"} => target[2] \in Int
    /\ place \in {"scan", "scanned"} => DOMAIN ranges \subseteq DOMAIN topic
    /\ place \in {"fetch", "scan", "scanned"} =>
         /\ fetched \in Seq((DOMAIN ranges) \X Int)
         /\ DOMAIN next \subseteq DOMAIN ranges
         /\ \A p \in DOMAIN ranges \ jumped : p \in DOMAIN topic => ReadSoFar(p)

LEMMA FetchInit == RequestInit => FetchInv
  BY DEF RequestInit, FetchInv

\* Some offset of a set of them is the smallest.
LEMMA SmallestOffset ==
    ASSUME NEW T, T \subseteq Nat, T # {}
    PROVE  \E x \in T : \A y \in T : x <= y
<1> DEFINE R == OpToRel(<, Nat)
<1>1. IsWellFoundedOn(R, Nat)
  BY NatLessThanWellFounded
<1> HIDE DEF R
<1>2. PICK x \in T : \A y \in T : ~ (<<y, x>> \in R)
  BY <1>1, WFMin
<1>3. \A y \in T : ~(y < x)
  BY <1>2 DEF R, OpToRel
<1>4. QED
  BY <1>3

LEMMA LogFacts ==
    ASSUME FetchInv, NEW p \in DOMAIN topic
    PROVE  /\ DOMAIN topic[p] = {"lo", "hi", "recs", "ts"}
           /\ topic[p].lo \in Nat /\ topic[p].hi \in Nat
           /\ topic[p].recs \subseteq topic[p].lo .. topic[p].hi - 1
           /\ topic[p].recs \subseteq Int
<1>1. LogAssumption(topic[p])
  BY DEF FetchInv
<1>2. QED
  BY <1>1 DEF LogAssumption

\* A record is appended to those of its partition.
LEMMA GotMore ==
    ASSUME NEW S, fetched \in Seq(S), NEW p, NEW o, <<p, o>> \in S,
           fetched' = Append(fetched, <<p, o>>), NEW q
    PROVE  Got(q)' = IF q = p THEN Got(q) \cup {o} ELSE Got(q)
<1>1. /\ DOMAIN fetched = 1 .. Len(fetched) /\ Len(fetched) \in Nat
      /\ DOMAIN fetched' = 1 .. Len(fetched) + 1
      /\ \A i \in DOMAIN fetched : fetched'[i] = fetched[i]
      /\ fetched'[Len(fetched) + 1] = <<p, o>>
  OBVIOUS
<1>2. <<p, o>>[1] = p /\ <<p, o>>[2] = o
  OBVIOUS
<1>3. ASSUME NEW x  PROVE x \in Got(q)' <=> x \in Got(q) \/ (q = p /\ x = o)
  <2>1. x \in Got(q)' <=> \E i \in 1 .. Len(fetched) + 1 : fetched'[i][1] = q /\ x = fetched'[i][2]
    BY <1>1 DEF Got
  <2>2. x \in Got(q) <=> \E i \in 1 .. Len(fetched) : fetched[i][1] = q /\ x = fetched[i][2]
    BY <1>1 DEF Got
  <2>3. 1 .. Len(fetched) + 1 = (1 .. Len(fetched)) \cup {Len(fetched) + 1}
    BY <1>1
  <2>4. QED
    BY <1>1, <1>2, <2>1, <2>2, <2>3
<1>4. QED
  BY <1>3

\* A fetch sets out with nothing read.
LEMMA BeginInv ==
    ASSUME FetchInv, NEW wanted,
           \A p \in DOMAIN wanted : wanted[p].start \in Int /\ wanted[p].end \in Int,
           \A p \in DOMAIN topic' : LogAssumption(topic'[p]),
           place' \in {"scan", "fetch"},
           place' = "scan" => DOMAIN wanted \subseteq DOMAIN topic',
           ranges' = wanted, fetched' = <<>>, jumped' = {},
           next' = [p \in {x \in DOMAIN wanted : wanted[x].start < wanted[x].end}
                      |-> wanted[p].start],
           done' = DOMAIN wanted \ {x \in DOMAIN wanted : wanted[x].start < wanted[x].end}
    PROVE  FetchInv'
<1>1. ASSUME NEW p \in DOMAIN ranges', p \in DOMAIN topic'  PROVE ReadSoFar(p)'
  <2>1. ranges'[p].start \in Int /\ ranges'[p].end \in Int /\ topic'[p].recs \subseteq Int
    BY <1>1 DEF LogAssumption
  <2>2. Got(p)' = {}
    BY DEF Got
  <2>3. p \in DOMAIN next' <=> ranges'[p].start < ranges'[p].end
    BY <1>1
  <2>4. p \in DOMAIN next' => next'[p] = ranges'[p].start /\ p \notin done'
    BY <2>3
  <2>5. \A o \in Wanted(p)' : o \in Int /\ ranges'[p].start <= o /\ o < ranges'[p].end
    BY <2>1 DEF Wanted
  <2>6. p \notin DOMAIN next' => Wanted(p)' = {}
    BY <2>1, <2>3, <2>5
  <2>7. QED
    BY <2>1, <2>2, <2>4, <2>5, <2>6 DEF ReadSoFar
<1>2. QED
  BY <1>1 DEF FetchInv

LEMMA ScanInv == FetchInv /\ ScanRanges => FetchInv'
<1> SUFFICES ASSUME FetchInv, ScanRanges  PROVE FetchInv'
  OBVIOUS
<1>1. /\ topic' \in Topics /\ place' = "scan" /\ fetched' = <<>> /\ jumped' = {}
  BY DEF ScanRanges, FetchInv
<1>2. PICK s \in Scans :
        /\ ranges' = s.ranges
        /\ next' = [p \in {x \in DOMAIN s.ranges : s.ranges[x].start < s.ranges[x].end}
                      |-> s.ranges[p].start]
        /\ done' = DOMAIN s.ranges \ {x \in DOMAIN s.ranges : s.ranges[x].start < s.ranges[x].end}
  BY DEF ScanRanges
<1>3. QED
  BY <1>1, <1>2, BeginInv, RequestAssumption

LEMMA FetchOneInv == FetchInv /\ FetchOne => FetchInv'
<1> SUFFICES ASSUME FetchInv, FetchOne  PROVE FetchInv'
  OBVIOUS
<1> DEFINE wanted == [p \in {target[1]} |-> [start |-> target[2], end |-> OffsetAfter(target[2])]]
<1>1. /\ ranges' = wanted /\ fetched' = <<>> /\ jumped' = {} /\ place' = "fetch"
      /\ next' = [p \in {x \in DOMAIN wanted : wanted[x].start < wanted[x].end}
                    |-> wanted[p].start]
      /\ done' = DOMAIN wanted \ {x \in DOMAIN wanted : wanted[x].start < wanted[x].end}
      /\ topic' = topic
  BY DEF FetchOne, BeginFetch, Ask
<1>2. target[2] \in Int /\ OffsetAfter(target[2]) \in Int
  BY RequestAssumption DEF FetchOne, FetchInv, OffsetAfter
<1>3. \A p \in DOMAIN wanted : wanted[p].start \in Int /\ wanted[p].end \in Int
  BY <1>2
<1> HIDE DEF wanted
<1>4. QED
  BY <1>1, <1>3, BeginInv DEF FetchInv

LEMMA PollRecordInv ==
    ASSUME FetchInv, NEW p \in DOMAIN next, PollRecord(p)
    PROVE  FetchInv'
<1>1. UNCHANGED <<topic, target, place, ranges, jumped>> /\ p \in DOMAIN topic
  BY DEF PollRecord, requestVars
<1>2. PICK o \in Ahead(p) :
        /\ \A x \in Ahead(p) : o <= x
        /\ next' = [next EXCEPT ![p] = o + 1]
        /\ fetched' = IF o >= ranges[p].end THEN fetched ELSE Append(fetched, <<p, o>>)
        /\ done' = IF FinishedBy(p, o) THEN done \cup {p} ELSE done
  BY DEF PollRecord
<1>3. o \in Int /\ o \in topic[p].recs /\ o >= next[p] /\ topic[p].recs \subseteq Int
  BY <1>1, <1>2, LogFacts DEF Ahead
<1>4. place # "none"
  BY DEF PollRecord, Polling
<1>5. ASSUME place \in {"fetch", "scan", "scanned"}
      PROVE  /\ fetched' \in Seq((DOMAIN ranges) \X Int)
             /\ \A q \in DOMAIN ranges \ jumped : q \in DOMAIN topic => ReadSoFar(q)'
  <2>1. fetched \in Seq((DOMAIN ranges) \X Int) /\ p \in DOMAIN ranges
    BY <1>5 DEF FetchInv
  <2>2. fetched \in Seq((DOMAIN ranges) \X Int) /\ <<p, o>> \in (DOMAIN ranges) \X Int
    BY <2>1, <1>3
  <2>3. ASSUME NEW q
        PROVE  Got(q)' = IF q = p /\ ~(o >= ranges[p].end) THEN Got(q) \cup {o} ELSE Got(q)
    <3>1. CASE o >= ranges[p].end
      BY <1>2, <3>1 DEF Got
    <3>2. CASE ~(o >= ranges[p].end)
      BY <1>2, <2>2, <3>2, GotMore
    <3>3. QED
      BY <3>1, <3>2
  <2>4. ASSUME NEW q \in DOMAIN ranges \ jumped, q \in DOMAIN topic, q # p
        PROVE  ReadSoFar(q)'
    <3>1. ReadSoFar(q) /\ Got(q)' = Got(q) /\ Wanted(q)' = Wanted(q)
      BY <1>1, <1>5, <2>3, <2>4 DEF FetchInv, Wanted
    <3>2. /\ (q \in DOMAIN next') = (q \in DOMAIN next) /\ (q \in done') = (q \in done)
          /\ q \in DOMAIN next => next'[q] = next[q]
      BY <1>2, <2>4
    <3>3. QED
      BY <1>1, <3>1, <3>2 DEF ReadSoFar
  <2>5. ASSUME p \notin jumped  PROVE ReadSoFar(p)'
    <3>1. ReadSoFar(p) /\ Wanted(p)' = Wanted(p)
      BY <1>1, <1>5, <2>5 DEF FetchInv, Wanted
    <3>2. p \in DOMAIN next' /\ next'[p] = o + 1 /\ topic[p].recs \subseteq Int
      BY <1>2, <1>3
    <3>3. \A x \in Wanted(p) : x \in Int /\ x < ranges[p].end /\ (x \in Ahead(p) \/ x < next[p])
      BY <3>1, <3>2 DEF Wanted, Ahead, ReadSoFar
    <3>4. \A x \in Got(p)' : x \in ranges[p].start .. ranges[p].end - 1 /\ x < o + 1
      BY <1>3, <2>3, <3>1 DEF ReadSoFar
    <3>5. \A x \in Wanted(p) : x < o + 1 => x \in Got(p)'
      BY <1>2, <1>3, <2>3, <3>1, <3>3 DEF ReadSoFar
    <3>6. \A x \in Wanted(p) : p \in done' => x \in Got(p)'
      BY <1>2, <1>3, <2>3, <3>1, <3>3, <3>5 DEF ReadSoFar, FinishedBy
    <3>7. ranges[p].start <= o + 1
      BY <1>3, <3>1 DEF ReadSoFar
    <3>8. QED
      BY <1>1, <1>3, <3>1, <3>2, <3>4, <3>5, <3>6, <3>7 DEF ReadSoFar
  <2>6. fetched' \in Seq((DOMAIN ranges) \X Int)
    <3> DEFINE S == (DOMAIN ranges) \X Int
    <3>1. fetched \in Seq(S) /\ <<p, o>> \in S
      BY <2>2
    <3> HIDE DEF S
    <3>2. Append(fetched, <<p, o>>) \in Seq(S)
      BY <3>1
    <3>3. fetched' \in Seq(S)
      BY <1>2, <3>1, <3>2
    <3>4. QED
      BY <3>3 DEF S
  <2>7. QED
    BY <2>4, <2>5, <2>6
<1>6. QED
  BY <1>1, <1>2, <1>4, <1>5 DEF FetchInv

LEMMA PollEofInv ==
    ASSUME FetchInv, NEW p \in DOMAIN next, PollEof(p)
    PROVE  FetchInv'
<1>1. /\ UNCHANGED <<topic, target, place, ranges, next, fetched, jumped>> /\ done' = done \cup {p}
      /\ Ahead(p) = {} /\ p \in DOMAIN topic
  BY DEF PollEof, requestVars
<1>2. ASSUME NEW q \in DOMAIN ranges \ jumped, q \in DOMAIN topic,
             place \in {"fetch", "scan", "scanned"}
      PROVE  ReadSoFar(q)'
  <2>1. ReadSoFar(q) /\ Got(q)' = Got(q) /\ Wanted(q)' = Wanted(q)
    BY <1>1, <1>2 DEF FetchInv, Got, Wanted
  <2>2. q = p => \A x \in Wanted(q) : x < next[q]
    BY <1>1, <2>1, LogFacts DEF Wanted, Ahead, ReadSoFar
  <2>3. QED
    BY <1>1, <2>1, <2>2 DEF ReadSoFar
<1>3. QED
  BY <1>1, <1>2 DEF FetchInv

\* A partition in which the consumer was overtaken is not spoken for.
LEMMA PollResetInv ==
    ASSUME FetchInv, NEW p \in DOMAIN next, PollReset(p)
    PROVE  FetchInv'
<1>1. /\ UNCHANGED <<topic, target, place, ranges, done, fetched>> /\ jumped' = jumped \cup {p}
      /\ next' = [next EXCEPT ![p] = topic[p].hi] /\ place # "none"
  BY DEF PollReset, Polling, requestVars
<1>2. ASSUME NEW q \in DOMAIN ranges \ jumped', q \in DOMAIN topic,
             place \in {"fetch", "scan", "scanned"}
      PROVE  ReadSoFar(q)'
  <2>1. ReadSoFar(q) /\ Got(q)' = Got(q) /\ Wanted(q)' = Wanted(q)
    BY <1>1, <1>2 DEF FetchInv, Got, Wanted
  <2>2. (q \in DOMAIN next') = (q \in DOMAIN next) /\ (q \in DOMAIN next => next'[q] = next[q])
    BY <1>1, <1>2
  <2>3. QED
    BY <1>1, <2>1, <2>2 DEF ReadSoFar
<1>3. QED
  BY <1>1, <1>2 DEF FetchInv

\* Retention takes records away, never a promise.
LEMMA RetentionInv == FetchInv /\ Retention => FetchInv'
<1> SUFFICES ASSUME FetchInv, Retention  PROVE FetchInv'
  OBVIOUS
<1>1. UNCHANGED <<target, place, ranges, next, done, fetched, jumped>>
  BY DEF Retention, requestVars, fetchVars
<1>2. PICK p \in DOMAIN topic :
        \E lo \in topic[p].lo + 1 .. topic[p].hi :
          topic' = [topic EXCEPT ![p].lo = lo, ![p].recs = {o \in @ : o >= lo}]
  BY DEF Retention
<1>3. PICK lo \in topic[p].lo + 1 .. topic[p].hi :
        topic' = [topic EXCEPT ![p].lo = lo, ![p].recs = {o \in @ : o >= lo}]
  BY <1>2
<1>4. /\ DOMAIN topic' = DOMAIN topic
      /\ \A q \in DOMAIN topic : /\ DOMAIN topic'[q] = DOMAIN topic[q]
                                 /\ topic'[q].recs \subseteq topic[q].recs
                                 /\ LogAssumption(topic'[q])
  <2>1. ASSUME NEW q \in DOMAIN topic, q # p  PROVE topic'[q] = topic[q] /\ LogAssumption(topic[q])
    BY <1>3, <2>1 DEF FetchInv
  <2>2. /\ DOMAIN topic'[p] = DOMAIN topic[p]
        /\ topic'[p].lo = lo /\ topic'[p].hi = topic[p].hi
        /\ topic'[p].recs = {o \in topic[p].recs : o >= lo}
    <3> DEFINE raised == [topic[p] EXCEPT !.lo = lo]
    <3>1. topic'[p] = [raised EXCEPT !.recs = {o \in raised.recs : o >= lo}]
      BY <1>3, Zenon
    <3>2. DOMAIN topic[p] = {"lo", "hi", "recs", "ts"}
      BY LogFacts
    <3>3. /\ DOMAIN raised = {"lo", "hi", "recs", "ts"} /\ raised.lo = lo
          /\ raised.hi = topic[p].hi /\ raised.recs = topic[p].recs
      BY <3>2
    <3> HIDE DEF raised
    <3>4. DOMAIN topic'[p] = DOMAIN topic[p]
      BY <3>1, <3>2, <3>3
    <3>5. topic'[p].lo = lo /\ topic'[p].hi = topic[p].hi
      BY <3>1, <3>3
    <3>6. topic'[p].recs = {o \in topic[p].recs : o >= lo}
      BY <3>1, <3>3
    <3>7. QED
      BY <3>4, <3>5, <3>6
  <2>3. LogAssumption(topic'[p])
    <3>1. LogAssumption(topic[p])
      BY DEF FetchInv
    <3>2. lo \in Nat /\ topic[p].lo <= lo /\ lo <= topic[p].hi
      BY <3>1 DEF LogAssumption
    <3>3. QED
      BY <2>2, <3>1, <3>2 DEF LogAssumption
  <2>4. QED
    BY <1>3, <2>1, <2>2, <2>3
<1>5. ASSUME NEW q \in DOMAIN ranges \ jumped, q \in DOMAIN topic,
             place \in {"fetch", "scan", "scanned"}
      PROVE  ReadSoFar(q)'
  <2>1. ReadSoFar(q) /\ Got(q)' = Got(q) /\ Wanted(q)' \subseteq Wanted(q)
    BY <1>1, <1>4, <1>5 DEF FetchInv, Got, Wanted, ReadSoFar
  <2>2. QED
    BY <1>1, <1>4, <2>1 DEF ReadSoFar
<1>6. QED
  BY <1>1, <1>4, <1>5 DEF FetchInv

LEMMA FetchNext == FetchInv /\ [RequestNext]_timelineVars => FetchInv'
<1> SUFFICES ASSUME FetchInv, [RequestNext]_timelineVars  PROVE FetchInv'
  OBVIOUS
<1>1. CASE UNCHANGED timelineVars \/ EndScan
  <2>1. UNCHANGED <<topic, target, ranges, next, done, fetched, jumped>>
        /\ (UNCHANGED place \/ (place = "scan" /\ place' = "scanned"))
    BY <1>1 DEF timelineVars, requestVars, fetchVars, EndScan, Ends
  <2>2. QED
    BY <2>1 DEF FetchInv, ReadSoFar, Got, Wanted
<1>2. CASE ReceiveRequest
  BY <1>2, RequestAssumption
     DEF ReceiveRequest, FetchInv, Admission, Validated, ParsedAnchor
<1>3. CASE ReadBounds \/ ResolvePlain \/ ResolveTimestamp \/ OffsetsForTimes
           \/ EndFetchOne \/ FetchFails
  <2>1. UNCHANGED topic /\ place' \notin {"none", "accepted", "fetch", "scan", "scanned"}
        /\ (place' = "resolve" => UNCHANGED target /\ place = "accepted")
    BY <1>3 DEF ReadBounds, ResolvePlain, ResolveTimestamp, OffsetsForTimes,
                EndFetchOne, FetchFails, Ask, Ends
  <2>2. QED
    BY <2>1 DEF FetchInv
<1>4. QED
  BY <1>1, <1>2, <1>3, ScanInv, FetchOneInv, PollRecordInv, PollEofInv, PollResetInv,
     RetentionInv
     DEF RequestNext

\* fetch_ranges_blocking: whatever the logs, the ranges, the cap and the moment
\* it is stopped, and whatever retention deletes meanwhile, what it returns of a
\* partition in which it was not overtaken is a prefix of what was asked for.
THEOREM FetchIsPrefixHolds ==
    RequestInit /\ [][RequestNext]_timelineVars => []FetchIsPrefix
<1>1. FetchInv => FetchIsPrefix
  <2> SUFFICES ASSUME FetchInv, place = "scanned", NEW p \in DOMAIN ranges \ jumped
               PROVE  /\ Got(p) \subseteq ranges[p].start .. ranges[p].end - 1
                      /\ \A o \in Wanted(p) : o \in Got(p) \/ (p \notin done /\ \A x \in Got(p) : x < o)
    BY DEF FetchIsPrefix
  <2>1. ReadSoFar(p) /\ topic[p].recs \subseteq Int
    BY LogFacts DEF FetchInv
  <2>2. \A o \in Wanted(p) : o \in Int
    BY <2>1 DEF Wanted
  <2>3. QED
    BY <2>1, <2>2 DEF ReadSoFar
<1>2. QED
  BY FetchInit, FetchNext, <1>1, PTL

-----------------------------------------------------------------------------
\* Where a request stands, and what it has found out by then: nothing of its
\* moment before it asked, watermarks that retention can only have raised since,
\* and, once its page begins, positions that are those of its anchor.
BoundsOK ==
    \A p \in DOMAIN bounds :
        /\ p \in DOMAIN topic
        /\ bounds[p].lo \in Nat /\ bounds[p].lo <= topic[p].lo
        /\ bounds[p].hi = topic[p].hi

ByMoment ==
    \/ query.anchor = "timestamp"
    \/ query.anchor = "offset" /\ query.direction = Forward

PlaceOK ==
    /\ place \in {"none", "accepted", "resolve", "fetch"} => moment = NoTime
    /\ place \in {"none", "accepted", "scan", "scanned"} => DOMAIN bounds = {}
    /\ place \in {"accepted", "resolve", "fetch", "times", "page"} =>
         query.direction \in Direction /\ target[2] \in Int
    /\ place = "fetch" =>
         ranges = [p \in {target[1]} |->
                     [start |-> target[2], end |-> OffsetAfter(target[2])]]
    /\ place \in {"fetch", "times"} => ByMoment
    /\ place = "page" =>
         positions = InitialPositions(unresolved) /\ (moment = NoTime \/ ByMoment)
    /\ place # "page" => unresolved = {}

JumpInv == FetchInv /\ BoundsOK /\ PlaceOK /\ RefusedIfAbsent

LEMMA JumpInit == RequestInit => JumpInv
<1> SUFFICES ASSUME RequestInit  PROVE JumpInv
  OBVIOUS
<1>1. FetchInv
  BY FetchInit
<1>2. DOMAIN bounds = {}
  BY DEF RequestInit
<1>3. QED
  BY <1>1, <1>2 DEF RequestInit, JumpInv, BoundsOK, PlaceOK, RefusedIfAbsent

LEMMA PositionsKept ==
    ASSUME UNCHANGED <<topic, query, target, bounds, moment, unresolved>>
    PROVE  InitialPositions(unresolved)' = InitialPositions(unresolved)
  BY DEF InitialPositions, Latest, Earliest, FirstFrom, From, Pinned, Resolved

\* The same where the lookup has just been answered.
LEMMA PositionsAnswered ==
    ASSUME UNCHANGED <<topic, query, target, bounds, moment>>
    PROVE  InitialPositions(unresolved)' = InitialPositions(unresolved')
  BY DEF InitialPositions, Latest, Earliest, FirstFrom, From, Pinned, Resolved

\* The steps of a fetch leave the request where it is.
LEMMA FetchKeepsPlace ==
    ASSUME JumpInv, UNCHANGED <<requestVars, ranges>>, place \in {"fetch", "scan", "resolve"},
           BoundsOK'
    PROVE  PlaceOK' /\ RefusedIfAbsent'
  BY DEF JumpInv, requestVars, PlaceOK, ByMoment, RefusedIfAbsent

LEMMA RetentionKeepsBounds == JumpInv /\ Retention => BoundsOK'
<1> SUFFICES ASSUME JumpInv, Retention  PROVE BoundsOK'
  OBVIOUS
<1>1. PICK p \in DOMAIN topic :
        \E lo \in topic[p].lo + 1 .. topic[p].hi :
          topic' = [topic EXCEPT ![p].lo = lo, ![p].recs = {o \in @ : o >= lo}]
  BY DEF Retention
<1>2. PICK lo \in topic[p].lo + 1 .. topic[p].hi :
        topic' = [topic EXCEPT ![p].lo = lo, ![p].recs = {o \in @ : o >= lo}]
  BY <1>1
<1>3. topic[p].lo \in Nat /\ lo >= topic[p].lo /\ DOMAIN topic[p] = {"lo", "hi", "recs", "ts"}
  BY LogFacts DEF JumpInv
<1>4. topic'[p].lo = lo /\ topic'[p].hi = topic[p].hi
  <2> DEFINE raised == [topic[p] EXCEPT !.lo = lo]
  <2>1. topic'[p] = [raised EXCEPT !.recs = {o \in raised.recs : o >= lo}]
    BY <1>2, Zenon
  <2>2. /\ DOMAIN raised = {"lo", "hi", "recs", "ts"} /\ raised.lo = lo
        /\ raised.hi = topic[p].hi
    BY <1>3
  <2> HIDE DEF raised
  <2>3. QED
    BY <2>1, <2>2
<1>5. \A q \in DOMAIN topic : q # p => topic'[q] = topic[q]
  BY <1>2
<1>6. bounds' = bounds /\ DOMAIN topic' = DOMAIN topic
  BY <1>2 DEF Retention, requestVars
<1>7. ASSUME NEW q \in DOMAIN bounds
      PROVE  /\ q \in DOMAIN topic'
             /\ bounds[q].lo \in Nat /\ bounds[q].lo <= topic'[q].lo
             /\ bounds[q].hi = topic'[q].hi
  <2>1. /\ q \in DOMAIN topic /\ bounds[q].lo \in Nat /\ bounds[q].lo <= topic[q].lo
        /\ bounds[q].hi = topic[q].hi
    BY DEF JumpInv, BoundsOK
  <2>2. topic[q].lo \in Nat
    BY <2>1, LogFacts DEF JumpInv
  <2>3. CASE q = p
    BY <1>3, <1>4, <1>6, <2>1, <2>3
  <2>4. CASE q # p
    BY <1>5, <1>6, <2>1, <2>4
  <2>5. QED
    BY <2>3, <2>4
<1>8. QED
  BY <1>6, <1>7 DEF BoundsOK

\* A complete fetch of one offset that brings nothing found none there.
LEMMA EndFetchOneInv == JumpInv /\ EndFetchOne => BoundsOK' /\ PlaceOK' /\ RefusedIfAbsent'
<1> SUFFICES ASSUME JumpInv, EndFetchOne  PROVE BoundsOK' /\ PlaceOK' /\ RefusedIfAbsent'
  OBVIOUS
<1> DEFINE p == target[1]  o == target[2]
<1>1. /\ UNCHANGED <<topic, query, target, bounds, unresolved, ranges, done, fetched, jumped>>
      /\ place = "fetch" /\ place' \in {"absent", "times"}
      /\ cut' = (DOMAIN ranges \ done # {})
      /\ place' = "absent" =>
           fetched = <<>> \/ topic[p].ts[fetched[1][2]] = NoTime
  BY DEF EndFetchOne, Ends
<1>2. /\ ranges = [q \in {p} |-> [start |-> o, end |-> OffsetAfter(o)]]
      /\ o \in Int /\ ByMoment /\ query.direction \in Direction
  BY <1>1 DEF JumpInv, PlaceOK
<1>3. BoundsOK' /\ PlaceOK'
  BY <1>1, <1>2 DEF JumpInv, BoundsOK, PlaceOK, ByMoment
<1>4. ASSUME place' = "absent", ~cut', jumped = {}, p \in DOMAIN topic, o \in topic[p].recs
      PROVE  topic[p].ts[o] = NoTime
  <2>1. p \in done /\ DOMAIN ranges = {p} /\ ReadSoFar(p)
    BY <1>1, <1>2, <1>4 DEF JumpInv, FetchInv
  <2>2. OffsetAfter(o) = o + 1
    BY <1>2, <1>4, LogFacts DEF JumpInv, FetchInv, LogAssumption, OffsetAfter
  <2>3. o \in Wanted(p)
    BY <1>2, <1>4, <2>2 DEF Wanted
  <2>4. o \in Got(p)
    BY <2>1, <2>3 DEF ReadSoFar
  <2>5. fetched # <<>> /\ fetched \in Seq({p} \X Int)
    BY <1>1, <2>1, <2>4 DEF Got, JumpInv, FetchInv
  <2>6. 1 \in DOMAIN fetched /\ fetched[1] \in {p} \X Int
    BY <2>5
  <2>7. fetched[1][2] \in Got(p)
    BY <2>6 DEF Got
  <2>8. fetched[1][2] = o
    BY <1>2, <2>1, <2>2, <2>7 DEF ReadSoFar
  <2>9. QED
    BY <1>1, <1>4, <2>5, <2>8
<1>5. QED
  BY <1>1, <1>3, <1>4 DEF RefusedIfAbsent

LEMMA JumpNext == JumpInv /\ [RequestNext]_timelineVars => JumpInv'
<1> SUFFICES ASSUME JumpInv, [RequestNext]_timelineVars  PROVE BoundsOK' /\ PlaceOK' /\ RefusedIfAbsent'
  BY FetchNext DEF JumpInv
<1>1. CASE UNCHANGED timelineVars
  <2>1. InitialPositions(unresolved)' = InitialPositions(unresolved)
    BY <1>1, PositionsKept DEF timelineVars, requestVars
  <2>2. QED
    BY <1>1, <2>1
       DEF timelineVars, requestVars, fetchVars, JumpInv, BoundsOK, PlaceOK, ByMoment,
           RefusedIfAbsent
<1>2. CASE ReceiveRequest
  <2>1. place' = "accepted" => query'.direction \in Direction
    BY <1>2 DEF ReceiveRequest, Admission, Validated, ParsedAnchor, ParsedParams
  <2>2. place' \in {"accepted", "bad", "http", "panic"}
    BY <1>2 DEF ReceiveRequest, Admission, Validated, ParsedAnchor
  <2>3. target'[2] \in Int /\ UNCHANGED <<bounds, moment, unresolved>> /\ place = "none"
    BY <1>2, RequestAssumption DEF ReceiveRequest
  <2>4. QED
    BY <2>1, <2>2, <2>3 DEF JumpInv, BoundsOK, PlaceOK, RefusedIfAbsent
<1>3. CASE ScanRanges
  BY <1>3 DEF ScanRanges, JumpInv, BoundsOK, PlaceOK, RefusedIfAbsent
<1>4. CASE ReadBounds
  <2>1. BoundsOK'
    <3>1. CASE bounds' = bounds
      BY <1>4, <3>1 DEF ReadBounds, JumpInv, BoundsOK, Ask
    <3>2. ASSUME NEW listed \in SUBSET DOMAIN topic,
                 bounds' = [p \in listed |-> [lo |-> topic[p].lo, hi |-> topic[p].hi]]
          PROVE  BoundsOK'
      BY <1>4, <3>2, LogFacts DEF ReadBounds, JumpInv, BoundsOK, Ask
    <3>3. QED
      BY <1>4, <3>1, <3>2 DEF ReadBounds
  <2>2. QED
    BY <1>4, <2>1 DEF ReadBounds, Ask, JumpInv, PlaceOK, RefusedIfAbsent
<1>5. CASE ResolvePlain \/ OffsetsForTimes
  <2>1. /\ UNCHANGED <<topic, query, target, bounds, moment>>
        /\ \/ place' = "page" /\ positions' = InitialPositions(unresolved')
           \/ place' = "event" /\ unresolved' = unresolved
        /\ place = "resolve" \/ place = "times"
    <3>1. unresolved = {} /\ (place = "resolve" \/ place = "times")
      BY <1>5 DEF ResolvePlain, OffsetsForTimes, JumpInv, PlaceOK
    <3>2. CASE ResolvePlain
      BY <3>1, <3>2 DEF ResolvePlain, Ask
    <3>3. CASE OffsetsForTimes
      BY <3>1, <3>3 DEF OffsetsForTimes, Ask
    <3>4. QED
      BY <1>5, <3>1, <3>2, <3>3
  <2>2. InitialPositions(unresolved)' = InitialPositions(unresolved')
    BY <2>1, PositionsAnswered
  <2>3. QED
    BY <2>1, <2>2 DEF JumpInv, BoundsOK, PlaceOK, ByMoment, RefusedIfAbsent
<1>6. CASE ResolveTimestamp
  BY <1>6 DEF ResolveTimestamp, Ask, JumpInv, BoundsOK, PlaceOK, ByMoment, RefusedIfAbsent
<1>7. CASE FetchOne
  <2>1. /\ UNCHANGED <<topic, query, target, bounds, moment, unresolved>> /\ place' = "fetch"
        /\ ranges' = [p \in {target[1]} |->
                        [start |-> target[2], end |-> OffsetAfter(target[2])]]
        /\ place = "resolve" /\ ByMoment
    BY <1>7 DEF FetchOne, BeginFetch, Ask, ByMoment
  <2>2. OffsetAfter(target[2])' = OffsetAfter(target[2])
    BY <2>1 DEF OffsetAfter
  <2>3. QED
    BY <2>1, <2>2 DEF JumpInv, BoundsOK, PlaceOK, ByMoment, RefusedIfAbsent
<1>8. CASE EndScan
  BY <1>8 DEF EndScan, Ends, JumpInv, BoundsOK, PlaceOK, RefusedIfAbsent
<1>9. CASE FetchFails
  BY <1>9 DEF FetchFails, fetchVars, JumpInv, BoundsOK, PlaceOK, RefusedIfAbsent
<1>10. CASE Retention
  BY <1>10, RetentionKeepsBounds, FetchKeepsPlace DEF Retention, fetchVars
<1>11. CASE \E p \in DOMAIN next : PollRecord(p) \/ PollEof(p) \/ PollReset(p)
  <2>1. UNCHANGED <<topic, requestVars, ranges>> /\ place \in {"fetch", "scan"}
    BY <1>11 DEF PollRecord, PollEof, PollReset, Polling
  <2>2. BoundsOK'
    BY <2>1 DEF requestVars, JumpInv, BoundsOK
  <2>3. QED
    BY <2>1, <2>2, FetchKeepsPlace
<1>12. QED
  BY <1>1, <1>2, <1>3, <1>4, <1>5, <1>6, <1>7, <1>8, <1>9, <1>10, <1>11, EndFetchOneInv
     DEF RequestNext

\* Of the records at or after a moment, FirstFrom names the first.
LEMMA FirstIsFirst ==
    ASSUME JumpInv, NEW p \in DOMAIN topic, NEW t, From(p, t) # {}
    PROVE  /\ FirstFrom(p, t) \in From(p, t)
           /\ \A o \in From(p, t) : FirstFrom(p, t) <= o
<1>1. From(p, t) \subseteq Nat
  BY LogFacts DEF JumpInv, From
<1>2. \E o \in From(p, t) : \A x \in From(p, t) : o <= x
  BY <1>1, SmallestOffset
<1>3. QED
  BY <1>2 DEF FirstFrom

LEMMA JumpFacts == JumpInv => JumpBeginsWithMessage /\ JumpBackReaches /\ AlignedAtMoment
<1> SUFFICES ASSUME JumpInv, place = "page"
             PROVE  JumpBeginsWithMessage /\ JumpBackReaches /\ AlignedAtMoment
  BY DEF JumpBeginsWithMessage, JumpBackReaches, AlignedAtMoment
<1>1. /\ positions = InitialPositions(unresolved) /\ query.direction \in Direction /\ target[2] \in Int
      /\ moment = NoTime \/ ByMoment
  BY DEF JumpInv, PlaceOK
<1>2. ASSUME NEW p \in DOMAIN bounds
      PROVE  /\ p \in DOMAIN topic /\ bounds[p].lo \in Nat /\ bounds[p].hi \in Nat
             /\ bounds[p].lo <= bounds[p].hi /\ bounds[p].hi <= TopOffset
             /\ \A o \in topic[p].recs : o \in Nat /\ bounds[p].lo <= o
  <2>1. /\ p \in DOMAIN topic /\ bounds[p].lo \in Nat /\ bounds[p].lo <= topic[p].lo
        /\ bounds[p].hi = topic[p].hi
    BY DEF JumpInv, BoundsOK
  <2>2. LogAssumption(topic[p])
    BY <2>1 DEF JumpInv, FetchInv
  <2>3. QED
    BY <2>1, <2>2, RequestAssumption DEF LogAssumption
<1>3. JumpBeginsWithMessage
  <2> SUFFICES ASSUME query.anchor = "offset", target[1] \in DOMAIN bounds,
                      target[2] \in bounds[target[1]].lo .. bounds[target[1]].hi - 1
               PROVE  AdjacentOffset([start |-> Start(target[1]), end |-> Start(target[1])],
                                     query.direction) = target[2]
    BY DEF JumpBeginsWithMessage
  <2>1. OffsetAfter(target[2]) = target[2] + 1
    BY <1>1, <1>2, RequestAssumption DEF OffsetAfter
  <2>2. CASE query.direction = Back
    <3>1. positions[target[1]] = target[2] + 1
      BY <1>1, <2>1, <2>2 DEF InitialPositions, Back, Forward
    <3>2. Start(target[1]) = target[2] + 1
      BY <1>1, <1>2, <3>1 DEF Start, Clamp
    <3>3. QED
      BY <1>1, <2>2, <3>2 DEF AdjacentOffset
  <2>3. CASE query.direction = Forward
    <3>1. positions[target[1]] = target[2]
      BY <1>1, <2>3 DEF InitialPositions, Back, Forward, Pinned
    <3>2. Start(target[1]) = target[2]
      BY <1>1, <1>2, <3>1 DEF Start, Clamp
    <3>3. QED
      BY <2>3, <3>2 DEF AdjacentOffset, Back, Forward
  <2>4. QED
    BY <1>1, <2>2, <2>3 DEF Direction
<1>4. AlignedAtMoment
  <2> SUFFICES ASSUME moment # NoTime, NEW p \in DOMAIN bounds,
                      p # target[1] \/ query.anchor = "timestamp"
               PROVE  IF p \in unresolved THEN Start(p) = bounds[p].hi
                      ELSE /\ \A o \in From(p, moment) : o < bounds[p].hi => Start(p) <= o
                           /\ Start(p) < bounds[p].hi => Start(p) \in From(p, moment)
    BY DEF AlignedAtMoment
  <2>1. positions[p] = Resolved(p, unresolved)
    BY <1>1 DEF ByMoment, InitialPositions, Pinned, Back, Forward
  <2>5. CASE p \in unresolved
    BY <1>2, <2>1, <2>5 DEF Resolved, Latest, Start, Clamp
  <2>2. CASE p \notin unresolved /\ From(p, moment) = {}
    BY <1>2, <2>1, <2>2 DEF Resolved, FirstFrom, Latest, Start, Clamp
  <2>3. CASE p \notin unresolved /\ From(p, moment) # {}
    <3>1. /\ positions[p] \in From(p, moment)
          /\ \A o \in From(p, moment) : positions[p] <= o
      BY <1>2, <2>1, <2>3, FirstIsFirst DEF Resolved
    <3>2. \A o \in From(p, moment) : o \in Nat /\ bounds[p].lo <= o
      BY <1>2 DEF From
    <3>3. QED
      BY <1>2, <2>3, <3>1, <3>2 DEF Start, Clamp
  <2>4. QED
    BY <2>2, <2>3, <2>5
<1>5. JumpBackReaches
  <2> SUFFICES ASSUME query.anchor = "offset", query.direction = Back, target[1] \in DOMAIN bounds
               PROVE  IF target[2] = TopOffset THEN Start(target[1]) = bounds[target[1]].lo
                      ELSE \A o \in topic[target[1]].recs :
                             o < bounds[target[1]].hi => (o <= target[2] <=> o < Start(target[1]))
    BY DEF JumpBackReaches
  <2>1. positions[target[1]] = OffsetAfter(target[2])
    BY <1>1 DEF InitialPositions, Back, Forward
  <2>2. CASE target[2] = TopOffset
    BY <1>1, <1>2, <2>1, <2>2, RequestAssumption DEF OffsetAfter, Start, Clamp
  <2>3. CASE target[2] # TopOffset
    <3>1. positions[target[1]] = target[2] + 1
      BY <2>1, <2>3 DEF OffsetAfter
    <3>2. Start(target[1]) = IF target[2] + 1 < bounds[target[1]].lo THEN bounds[target[1]].lo
                             ELSE IF target[2] + 1 > bounds[target[1]].hi
                                  THEN bounds[target[1]].hi ELSE target[2] + 1
      BY <1>1, <1>2, <3>1 DEF Start, Clamp
    <3>3. QED
      BY <1>1, <1>2, <2>3, <3>2
  <2>4. QED
    BY <2>2, <2>3
<1>6. QED
  BY <1>3, <1>4, <1>5

\* resolve_positions: for every topic, request, watermarks and moment, and
\* whatever retention deletes between its calls, a jump begins with its message,
\* a page aligned at a moment skips nothing, and a refusal has its reason.
THEOREM JumpIsExactHolds ==
    RequestInit /\ [][RequestNext]_timelineVars => []JumpIsExact
<1>1. JumpInv => JumpIsExact
  BY JumpFacts DEF JumpInv, JumpIsExact
<1>2. QED
  BY JumpInit, JumpNext, <1>1, PTL

-----------------------------------------------------------------------------
\* A schema that is remembered was registered, and keeps its type; a decoding
\* reads a body under a schema that is remembered.
Readable == {"avro", "protobuf", "json", "unparsable"}

RegistryTypes ==
    /\ registered \in [Ids -> Types \cup {"none"}]
    /\ step \in [Decoders -> {"idle", "lookup", "recall", "fetch", "store", "fail",
                              "typed", "parse"}]
    /\ id \in [Decoders -> Ids \cup {NoId}]
    /\ known \in [Decoders -> BOOLEAN]
    /\ DOMAIN outcome = Decoders
    /\ \A d \in Decoders : step[d] # "idle" => id[d] \in Ids

CachesAreTrue ==
    /\ \A i \in cache : i \in Ids /\ registered[i] \in Readable
    /\ \A i \in parsedCache : i \in Ids /\ registered[i] \in {"avro", "protobuf"}
    /\ \A d \in Decoders :
         /\ step[d] \in {"store", "typed", "parse"} => registered[id[d]] \in Readable
         /\ step[d] = "parse" => registered[id[d]] \in {"avro", "protobuf"}
         /\ known[d] => id[d] \in cache

RegistryInv == RegistryTypes /\ CachesAreTrue /\ DecodingIsTrue

LEMMA RegistryInitInv == RegistryInit => RegistryInv
  BY RegistryAssumption
     DEF RegistryInit, RegistryInv, RegistryTypes, CachesAreTrue, DecodingIsTrue,
         SchemaIsKept, StampIsTrue, NoOutcome

\* What one decoding does leaves the others as they were.
LEMMA GoesInv ==
    ASSUME RegistryInv, NEW d \in Decoders, step[d] # "idle",
           NEW where \in {"recall", "fetch", "store", "fail", "typed", "parse"},
           Goes(d, where), UNCHANGED <<registered, parsedCache>>,
           cache' = cache \/ (step[d] = "store" /\ cache' = cache \cup {id[d]}),
           where \in {"store", "typed", "parse"} => registered[id[d]] \in Readable,
           where = "parse" => registered[id[d]] \in {"avro", "protobuf"},
           known[d] => where \in {"typed", "parse"}
    PROVE  RegistryInv'
<1>1. RegistryTypes'
  BY DEF RegistryInv, RegistryTypes, Goes
<1>2. CachesAreTrue'
  BY DEF RegistryInv, RegistryTypes, CachesAreTrue, Goes
<1>3. DecodingIsTrue'
  BY DEF RegistryInv, RegistryTypes, DecodingIsTrue, SchemaIsKept, StampIsTrue, Goes
<1>4. QED
  BY <1>1, <1>2, <1>3 DEF RegistryInv

LEMMA ShowsInv ==
    ASSUME RegistryInv, NEW d \in Decoders, NEW encoding, NEW body,
           Shows(d, encoding, body), UNCHANGED <<registered, cache>>,
           \A i \in parsedCache' : i \in Ids /\ registered[i] \in {"avro", "protobuf"},
           encoding = "json" => body = "json",
           encoding \in {"avro", "protobuf"} =>
             body = "valid" /\ registered[id[d]] = encoding
    PROVE  RegistryInv'
<1>1. RegistryTypes'
  BY DEF RegistryInv, RegistryTypes, Shows
<1>2. CachesAreTrue'
  BY DEF RegistryInv, RegistryTypes, CachesAreTrue, Shows
<1>3. DecodingIsTrue'
  BY DEF RegistryInv, RegistryTypes, DecodingIsTrue, SchemaIsKept, StampIsTrue, Shows
<1>4. QED
  BY <1>1, <1>2, <1>3 DEF RegistryInv

LEMMA DecodeStepInv ==
    ASSUME RegistryInv, NEW d \in Decoders, DecodeStep(d)
    PROVE  RegistryInv'
<1> DEFINE type == registered[id[d]]
<1>1. CASE Lookup(d)
  <2>1. id[d] \in cache => type \in Readable
    BY DEF RegistryInv, CachesAreTrue
  <2>2. known[d] => id[d] \in cache
    BY DEF RegistryInv, CachesAreTrue
  <2>3. CASE id[d] \in cache
    BY <1>1, <2>1, <2>3, GoesInv DEF Lookup, caches
  <2>4. CASE id[d] \notin cache
    BY <1>1, <2>2, <2>4, GoesInv DEF Lookup, caches
  <2>5. QED
    BY <2>3, <2>4
<1>2. CASE Recall(d)
  <2>1. step[d] = "recall" /\ ~known[d] /\ UNCHANGED <<registered, cache, parsedCache>>
        /\ \A i \in parsedCache : i \in Ids /\ registered[i] \in {"avro", "protobuf"}
    BY <1>2 DEF Recall, caches, RegistryInv, DecodingIsTrue, SchemaIsKept, CachesAreTrue
  <2>2. CASE Refuses(d)
    BY <2>1, <2>2, ShowsInv DEF Refuses
  <2>3. CASE Goes(d, "fetch")
    BY <2>1, <2>3, GoesInv
  <2>4. QED
    BY <1>2, <2>2, <2>3 DEF Recall
<1>3. CASE Fetch(d)
  <2>1. step[d] = "fetch" /\ ~known[d] /\ UNCHANGED <<registered, cache, parsedCache>>
    BY <1>3 DEF Fetch, caches, RegistryInv, DecodingIsTrue, SchemaIsKept
  <2>2. type \notin {"none", "unsupported"} => type \in Readable
    BY <2>1 DEF RegistryInv, RegistryTypes, Types, Readable
  <2>3. CASE Goes(d, "store") /\ type \notin {"none", "unsupported"}
    BY <2>1, <2>2, <2>3, GoesInv
  <2>4. CASE Goes(d, "fail")
    BY <2>1, <2>4, GoesInv
  <2>5. QED
    BY <1>3, <2>3, <2>4 DEF Fetch
<1>4. CASE Store(d)
  <2>1. step[d] = "store" /\ type \in Readable
    BY <1>4 DEF Store, RegistryInv, CachesAreTrue
  <2>2. QED
    BY <1>4, <2>1, GoesInv DEF Store
<1>5. CASE Fail(d)
  <2>1. \A i \in parsedCache : i \in Ids /\ registered[i] \in {"avro", "protobuf"}
    BY DEF RegistryInv, CachesAreTrue
  <2>2. QED
    BY <1>5, <2>1, ShowsInv DEF Fail, Refuses
<1>6. CASE DecodeTyped(d)
  <2>1. /\ step[d] = "typed" /\ type \in Readable
        /\ UNCHANGED <<registered, cache, parsedCache>>
        /\ \A i \in parsedCache : i \in Ids /\ registered[i] \in {"avro", "protobuf"}
    BY <1>6 DEF DecodeTyped, caches, RegistryInv, CachesAreTrue
  <2>2. ASSUME NEW body \in Bodies, Shows(d, Encoding(type, body), body)
        PROVE  RegistryInv'
    BY <2>1, <2>2, ShowsInv DEF Encoding, Plain
  <2>3. CASE Shows(d, "error", "none")
    BY <2>1, <2>3, ShowsInv
  <2>4. CASE type \notin {"json", "unparsable"} /\ Goes(d, "parse")
    BY <2>1, <2>4, GoesInv DEF Readable
  <2>5. QED
    BY <1>6, <2>2, <2>3, <2>4 DEF DecodeTyped
<1>7. CASE Parse(d)
  <2>1. /\ step[d] = "parse" /\ type \in {"avro", "protobuf"} /\ id[d] \in Ids
        /\ \A i \in parsedCache : i \in Ids /\ registered[i] \in {"avro", "protobuf"}
    BY <1>7 DEF Parse, RegistryInv, RegistryTypes, CachesAreTrue
  <2>2. /\ UNCHANGED <<registered, cache>>
        /\ \A i \in parsedCache' : i \in Ids /\ registered[i] \in {"avro", "protobuf"}
    BY <1>7, <2>1 DEF Parse
  <2>3. ASSUME NEW body \in Bodies, Shows(d, Encoding(type, body), body)
        PROVE  RegistryInv'
    BY <2>1, <2>2, <2>3, ShowsInv DEF Encoding, Plain
  <2>4. QED
    BY <1>7, <2>3 DEF Parse
<1>8. QED
  BY <1>1, <1>2, <1>3, <1>4, <1>5, <1>6, <1>7 DEF DecodeStep

LEMMA BeginDecodeInv ==
    ASSUME RegistryInv, NEW d \in Decoders, NEW i \in Ids, NEW c \in BOOLEAN,
           BeginDecode(d, i, c)
    PROVE  RegistryInv'
<1>1. RegistryTypes'
  BY DEF RegistryInv, RegistryTypes, BeginDecode
<1>2. CachesAreTrue'
  BY DEF RegistryInv, RegistryTypes, CachesAreTrue, BeginDecode, caches
<1>3. DecodingIsTrue'
  BY DEF RegistryInv, RegistryTypes, DecodingIsTrue, SchemaIsKept, StampIsTrue,
         BeginDecode, NoOutcome
<1>4. QED
  BY <1>1, <1>2, <1>3 DEF RegistryInv

\* An id is registered once; what was decoded under another one stays true.
LEMMA RegisterInv ==
    ASSUME RegistryInv, NEW i \in Ids, NEW type \in Types, Register(i, type)
    PROVE  RegistryInv'
<1>1. /\ registered[i] = "none" /\ registered' = [registered EXCEPT ![i] = type]
      /\ UNCHANGED <<caches, decoding>>
  BY DEF Register
<1>2. RegistryTypes'
  BY <1>1 DEF RegistryInv, RegistryTypes, decoding
<1>3. CachesAreTrue'
  BY <1>1 DEF RegistryInv, RegistryTypes, CachesAreTrue, Readable, decoding, caches
<1>4. DecodingIsTrue'
  BY <1>1 DEF RegistryInv, RegistryTypes, DecodingIsTrue, SchemaIsKept, StampIsTrue, decoding
<1>5. QED
  BY <1>2, <1>3, <1>4 DEF RegistryInv

LEMMA RegistryGoesOn == RegistryInv /\ [RegistryNext]_registryVars => RegistryInv'
<1> SUFFICES ASSUME RegistryInv, [RegistryNext]_registryVars PROVE RegistryInv'
  OBVIOUS
<1>1. CASE UNCHANGED <<registered, cache, parsedCache, decoding>>
  BY <1>1 DEF RegistryInv, RegistryTypes, CachesAreTrue, DecodingIsTrue,
              SchemaIsKept, StampIsTrue, decoding
<1>2. ASSUME NEW d \in Decoders, DecodePlain(d)
      PROVE  RegistryInv'
  <2>1. PICK body \in Bodies : Shows(d, Plain(body), body)
    BY <1>2 DEF DecodePlain
  <2>2. UNCHANGED <<registered, cache, parsedCache>>
        /\ \A i \in parsedCache : i \in Ids /\ registered[i] \in {"avro", "protobuf"}
    BY <1>2 DEF DecodePlain, caches, RegistryInv, CachesAreTrue
  <2>3. QED
    BY <2>1, <2>2, ShowsInv DEF Plain
<1>3. QED
  BY <1>1, <1>2, DecodeStepInv, BeginDecodeInv, RegisterInv
     DEF RegistryNext, RegistryToggles, TickRegistry, registryVars, caches

\* decode_payload: for any number of concurrent decodings and ids, and whatever
\* the registry does meanwhile, a stamp is true of its body, and a schema that
\* was remembered serves the decoding that began with it.
THEOREM DecodingIsTrueHolds ==
    RegistryInit /\ [][RegistryNext]_registryVars => []DecodingIsTrue
<1>1. RegistryInv => DecodingIsTrue
  BY DEF RegistryInv
<1>2. QED
  BY RegistryInitInv, RegistryGoesOn, <1>1, PTL

=============================================================================
