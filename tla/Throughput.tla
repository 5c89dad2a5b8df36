----------------------------- MODULE Throughput -----------------------------
(***************************************************************************)
(* The throughput panel of a topic (api/topics.rs throughput, sampler.rs): *)
(* a poll that finds the newest sample old takes one, under the single     *)
(* flight; the guard goes with the closure that sampled, and the handler   *)
(* records the total afterwards.  In SingleFlight's places, "store" is a   *)
(* total about to leave the closure and "aloneDone" one about to be        *)
(* recorded.                                                               *)
(***************************************************************************)
EXTENDS SingleFlight, Sequences, SequencesExt

CONSTANTS
    Interval,      \* interval_ms, in ticks
    HistoryHorizon,\* HORIZON_MS, in ticks
    MaxTotal,      \* bound: records ever produced
    LastTick       \* bound: how long the run lasts

ASSUME ThroughputAssumption == {Interval, HistoryHorizon, MaxTotal, LastTick} \subseteq Nat

VARIABLES
    time,
    total,      \* the sum of the topic's heads
    history,    \* the samples, the oldest first
    sampled,    \* the total each poll has read
    stampedAt   \* the moment it is going to be recorded under

samplerVars == <<time, total, history, sampled, stampedAt>>
throughputVars == <<flightVars, samplerVars>>

NoStamp == -1

ThroughputInit ==
    /\ FlightInit
    /\ time = 0 /\ total = 0 /\ history = <<>>
    /\ sampled = [c \in Callers |-> 0] /\ stampedAt = [c \in Callers |-> NoStamp]

\* A poll that finds a recent sample is answered at once.
Due == history # <<>> => time - Last(history).at >= Interval

PollThroughput(c) ==
    /\ at[c] = "idle" /\ Due
    /\ Move(c, "acquire")
    /\ UNCHANGED <<inFlight, key, waited, samplerVars>>

BeginSample(c) == Begin(c) /\ UNCHANGED samplerVars

\* Who waited takes no sample of its own: it shows what the other one left.
WakeSample(c) == Wake(c) /\ UNCHANGED samplerVars

ServeHistory(c) ==
    /\ at[c] = "reread"
    /\ Move(c, "idle")
    /\ UNCHANGED <<inFlight, key, waited, samplerVars>>

\* sample_topic_blocking: the heads of all partitions, or nothing.
SampleTopic(c) ==
    /\ at[c] = "refresh"
    /\ sampled' = [sampled EXCEPT ![c] = total]
    /\ Move(c, "store")
    /\ UNCHANGED <<inFlight, key, waited, time, total, history, stampedAt>>

\* A failed sample is an error only when there is no history to show.
SampleTopicFails(c) ==
    /\ at[c] = "refresh"
    /\ DropGuard(c)
    /\ Move(c, "idle")
    /\ UNCHANGED <<key, waited, samplerVars>>

LeaveClosure(c) ==
    /\ at[c] = "store"
    /\ DropGuard(c)
    /\ Move(c, "aloneDone")
    /\ UNCHANGED <<key, waited, samplerVars>>

\* now_ms() is read before record takes its lock.
StampSample(c) ==
    /\ at[c] = "aloneDone" /\ stampedAt[c] = NoStamp
    /\ stampedAt' = [stampedAt EXCEPT ![c] = time]
    /\ UNCHANGED <<flightVars, time, total, history, sampled>>

\* retain: what is within the horizon of a moment, in its order.
Retained(samples, moment) ==
    LET Kept[n \in 0 .. Len(samples)] ==
            IF n = 0 THEN <<>>
            ELSE IF moment - samples[n].at <= HistoryHorizon
            THEN Append(Kept[n - 1], samples[n]) ELSE Kept[n - 1]
    IN  Kept[Len(samples)]

\* record: what is beyond the horizon goes, and everything before a total that
\* is smaller than the last one.  A plausible error keeps the latter.
KeptAlways(samples, amount) == samples

KeptBefore(samples, amount) ==
    IF samples # <<>> /\ amount < Last(samples).total THEN <<>> ELSE samples

Record(c) ==
    /\ at[c] = "aloneDone" /\ stampedAt[c] # NoStamp
    /\ LET recent == Retained(history, stampedAt[c])
       IN  history' = Append(KeptBefore(recent, sampled[c]),
                             [at |-> stampedAt[c], total |-> sampled[c]])
    /\ Move(c, "idle")
    /\ sampled' = [sampled EXCEPT ![c] = 0] /\ stampedAt' = [stampedAt EXCEPT ![c] = NoStamp]
    /\ UNCHANGED <<inFlight, key, waited, time, total>>

\* rate_points: a rate for each two samples in a row that are not of the same
\* moment or in the wrong order.
RatePoints ==
    {[delta |-> history[i + 1].total - history[i].total,
      window |-> history[i + 1].at - history[i].at] :
        i \in {j \in 1 .. Len(history) - 1 : history[j + 1].at > history[j].at}}

TopicGrows ==
    /\ total < MaxTotal
    /\ total' = total + 1
    /\ UNCHANGED <<flightVars, time, history, sampled, stampedAt>>

TopicRecreated ==
    /\ total > 0
    /\ total' = 0
    /\ UNCHANGED <<flightVars, time, history, sampled, stampedAt>>

TickThroughput ==
    /\ time < LastTick
    /\ time' = time + 1
    /\ WaitLonger
    /\ UNCHANGED <<inFlight, at, key, total, history, sampled, stampedAt>>

ThroughputNext ==
    \/ \E c \in Callers :
         \/ PollThroughput(c) \/ BeginSample(c) \/ WakeSample(c) \/ ServeHistory(c)
         \/ SampleTopic(c) \/ SampleTopicFails(c) \/ LeaveClosure(c) \/ StampSample(c) \/ Record(c)
    \/ TopicGrows \/ TopicRecreated \/ TickThroughput

-----------------------------------------------------------------------------
\* However the polls of several tabs overlap, and whatever becomes of the
\* topic, no panel draws a negative rate.
RatesArePossible == \A point \in RatePoints : point.delta >= 0

=============================================================================
