-------------------------------- MODULE Tail --------------------------------
(***************************************************************************)
(* The live stream of a topic (tail.rs): a thread that polls a consumer    *)
(* assigned to the end of every partition, a bounded channel of raw        *)
(* records, a task that decodes them, a bounded channel of events, and the *)
(* browser at the other end, which may go away at any time.  The n-th      *)
(* record the consumer returns is the number n.                            *)
(***************************************************************************)
EXTENDS Integers, Sequences

CONSTANTS
    ChannelSize,    \* 256, of both channels
    StallTimeout,   \* STALL_TIMEOUT, in ticks
    MaxPolled       \* bound: how many records the consumer returns

ASSUME TailAssumption ==
    ChannelSize \in Nat \ {0} /\ StallTimeout \in Nat \ {0} /\ MaxPolled \in Nat

VARIABLES
    poller,     \* where the polling thread is, or how it ended
    streak,     \* ticks since the first of the current errors, NoStreak if none
    polled,     \* how many records the consumer has returned
    raw,        \* the channel from the thread to the task
    rawOpen,    \* its receiver has not been dropped
    task,       \* where the decoding task is
    carried,    \* the record the task holds
    events,     \* the channel from the task to the response
    received,   \* history: the events the browser has read
    connected,  \* the browser holds the stream
    cancelled,  \* the flag of CancelOnDrop
    badFor      \* history: ticks since the last poll that was not an error

threadVars == <<poller, streak, polled, badFor>>
taskVars == <<task, carried>>
tailVars == <<threadVars, taskVars, raw, rawOpen, events, received, connected, cancelled>>

NoStreak == -1
ErrorEvent == 0
Running == {"create", "poll", "send"}
Ended == {"stopped", "failed", "stalled", "panicked"}

TailInit ==
    /\ poller = "none" /\ streak = NoStreak /\ polled = 0
    /\ raw = <<>> /\ rawOpen = TRUE
    /\ task = "none" /\ carried = ErrorEvent
    /\ events = <<>> /\ received = <<>>
    /\ connected = FALSE /\ cancelled = FALSE /\ badFor = 0

\* tail_sse and the first half of run: an unknown cluster or topic, or a broker
\* that does not answer, is an HTTP error, and no stream begins.
RefuseTail ==
    /\ task = "none"
    /\ task' = "refused"
    /\ UNCHANGED <<threadVars, carried, raw, rawOpen, events, received, connected, cancelled>>

StartTail ==
    /\ task = "none"
    /\ task' = "receive" /\ poller' = "create" /\ connected' = TRUE
    /\ UNCHANGED <<streak, polled, badFor, carried, raw, rawOpen, events, received, cancelled>>

Poller(place) ==
    /\ poller' = place
    /\ UNCHANGED <<taskVars, events, received, connected, cancelled>>

\* run_consumer_blocking: the client is created and assigned, or it is not and
\* the reason is the thread's result.
CreateConsumer ==
    /\ poller = "create"
    /\ Poller("poll") \/ Poller("failed")
    /\ UNCHANGED <<streak, polled, badFor, raw, rawOpen>>

PollAgain == poller = "poll" /\ ~cancelled

PollMessage ==
    /\ PollAgain
    /\ polled < MaxPolled
    /\ polled' = polled + 1
    /\ streak' = NoStreak /\ badFor' = 0
    /\ Poller("send")
    /\ UNCHANGED <<raw, rawOpen>>

PollError ==
    /\ PollAgain
    /\ streak' = IF streak = NoStreak THEN 0 ELSE streak
    /\ Poller(IF streak' >= StallTimeout THEN "stalled" ELSE "poll")
    /\ UNCHANGED <<polled, badFor, raw, rawOpen>>

\* A quiet poll ends a streak of errors; a plausible error is to let only a
\* record end it.
QuietChangesNothing == streak' = streak

QuietEndsStreak == streak' = NoStreak

PollEmpty ==
    /\ PollAgain
    /\ QuietEndsStreak /\ badFor' = 0
    /\ Poller("poll")
    /\ UNCHANGED <<polled, raw, rawOpen>>

PollCancelled ==
    /\ poller = "poll" /\ cancelled
    /\ Poller("stopped")
    /\ UNCHANGED <<streak, polled, badFor, raw, rawOpen>>

\* The thread panics, between two polls: a JoinError for the task.
PollPanics ==
    /\ poller = "poll"
    /\ Poller("panicked")
    /\ UNCHANGED <<streak, polled, badFor, raw, rawOpen>>

\* blocking_send waits for room; it fails only when the receiver is dropped.  A
\* plausible error gives up on a full channel.
TrySend ==
    raw' = IF Len(raw) < ChannelSize THEN Append(raw, polled) ELSE raw

BlockingSend == Len(raw) < ChannelSize /\ raw' = Append(raw, polled)

SendRaw ==
    /\ poller = "send"
    /\ IF rawOpen THEN BlockingSend /\ Poller("poll")
                  ELSE Poller("stopped") /\ UNCHANGED raw
    /\ UNCHANGED <<streak, polled, badFor, rawOpen>>

Thread ==
    \/ CreateConsumer \/ PollMessage \/ PollError \/ PollEmpty \/ PollCancelled
    \/ PollPanics \/ SendRaw

Task(place) ==
    /\ task' = place
    /\ UNCHANGED <<threadVars, received, connected>>

\* recv yields a record while there is one, and ends when the channel is empty
\* and the thread, its only sender, is over.
Drained == poller \in Ended /\ raw = <<>>

Receive ==
    /\ task = "receive" /\ raw # <<>>
    /\ carried' = Head(raw) /\ raw' = Tail(raw)
    /\ Task("send")
    /\ UNCHANGED <<rawOpen, events, cancelled>>

\* The receiver is dropped before the thread is joined, so that a thread parked
\* in blocking_send is woken; a plausible error drops it at the end.
KeepReceiver == UNCHANGED <<raw, rawOpen>>

DropReceiver == raw' = <<>> /\ rawOpen' = FALSE

ReceiveEnds ==
    /\ task = "receive" /\ Drained
    /\ DropReceiver
    /\ Task("join")
    /\ UNCHANGED <<carried, events, cancelled>>

\* The record is decoded and sent, as soon as there is room.
SendMessage ==
    /\ task = "send" /\ connected /\ Len(events) < ChannelSize
    /\ events' = Append(events, carried)
    /\ carried' = ErrorEvent
    /\ Task("receive")
    /\ UNCHANGED <<raw, rawOpen, cancelled>>

SendFails ==
    /\ task = "send" /\ ~connected
    /\ cancelled' = TRUE
    /\ DropReceiver
    /\ Task("join")
    /\ UNCHANGED <<carried, events>>

\* The thread's result: a failure to start, a stall and a panic are told to the
\* browser, a cancelled thread has nothing to tell.
Failures == {"failed", "stalled", "panicked"}

Join ==
    /\ task = "join" /\ poller \in Ended
    /\ Task(IF poller \in Failures THEN "report" ELSE "over")
    /\ UNCHANGED <<carried, raw, rawOpen, events, cancelled>>

Report ==
    /\ task = "report"
    /\ IF connected THEN Len(events) < ChannelSize /\ events' = Append(events, ErrorEvent)
                    ELSE UNCHANGED events
    /\ Task("over")
    /\ UNCHANGED <<carried, raw, rawOpen, cancelled>>

Decoder == Receive \/ ReceiveEnds \/ SendMessage \/ SendFails \/ Join \/ Report

Read ==
    /\ connected /\ events # <<>>
    /\ received' = Append(received, Head(events))
    /\ events' = Tail(events)
    /\ UNCHANGED <<threadVars, taskVars, raw, rawOpen, connected, cancelled>>

\* The stream is dropped: because the browser closes it, or because it is at
\* its end.  Either way CancelOnDrop sets the flag.
DropStream ==
    /\ connected
    /\ connected' = FALSE /\ cancelled' = TRUE
    /\ events' = <<>>
    /\ UNCHANGED <<threadVars, taskVars, raw, rawOpen, received>>

\* Time passes; the ages stop counting where nothing tells the difference.
TickTail ==
    /\ poller = "poll"
    /\ streak' = IF streak \in 0 .. StallTimeout - 1 THEN streak + 1 ELSE streak
    /\ badFor' = IF badFor < StallTimeout THEN badFor + 1 ELSE badFor
    /\ UNCHANGED <<poller, polled, taskVars, raw, rawOpen, events, received, connected, cancelled>>

TailNext == RefuseTail \/ StartTail \/ Thread \/ Decoder \/ Read \/ DropStream \/ TickTail

\* The runtime runs the task and the thread, whose every poll ends after 200 ms;
\* a browser that keeps the stream open reads from it.
TailFairness == WF_tailVars(Thread) /\ WF_tailVars(Decoder) /\ WF_tailVars(Read)

TailSpec == TailInit /\ [][TailNext]_tailVars /\ TailFairness

-----------------------------------------------------------------------------
TailTypeOK ==
    /\ poller \in {"none"} \cup Running \cup Ended
    /\ streak \in {NoStreak} \cup 0 .. StallTimeout /\ badFor \in 0 .. StallTimeout
    /\ polled \in 0 .. MaxPolled
    /\ raw \in Seq(1 .. MaxPolled) /\ Len(raw) <= ChannelSize
    /\ task \in {"none", "refused", "receive", "send", "join", "report", "over"}
    /\ carried \in 0 .. MaxPolled
    /\ events \in Seq(0 .. MaxPolled) /\ Len(events) <= ChannelSize
    /\ received \in Seq(0 .. MaxPolled)
    /\ rawOpen \in BOOLEAN /\ connected \in BOOLEAN /\ cancelled \in BOOLEAN

\* Every record between the consumer and the browser, the oldest first.
InTransit ==
    received \o events \o (IF task = "send" THEN <<carried>> ELSE <<>>)
             \o raw \o (IF poller = "send" THEN <<polled>> ELSE <<>>)

Told(stream) == SelectSeq(stream, LAMBDA e : e = ErrorEvent) # <<>>

\* Two channels, two schedulers and a slow browser neither lose, repeat nor
\* reorder a record: while the stream is held, what was read and what is on its
\* way are the records the consumer returned, in its order; the error event, if
\* there is one, comes after all of them, however many the channels still held.
StreamIsWhole ==
    connected => LET records == [n \in 1 .. polled |-> n]
                 IN  InTransit \in {records, Append(records, ErrorEvent)}

\* "A stall is [...] only poll errors in between": a tail is given up for
\* stalled only when every poll of the whole STALL_TIMEOUT failed, so that a
\* quiet topic with a few isolated errors goes on.
StallIsReal == poller = "stalled" => badFor >= StallTimeout

\* No zombies: once the browser is gone, on its own or at the stream's end, the
\* thread and the task end, also when the thread was waiting for room.
NoZombie ==
    task \notin {"none", "refused"} /\ ~connected ~> task = "over" /\ poller \in Ended

\* A thread that failed tells a browser that stays: the channel never just
\* closes with nothing to show.
FailureIsTold ==
    poller \in {"failed", "stalled", "panicked"} ~> ErrorEvent \in {received[n] : n \in DOMAIN received} \/ ~connected

\* However a live stream ends, both sides of it come to know.
TailEndsKnown == NoZombie /\ FailureIsTold

=============================================================================
