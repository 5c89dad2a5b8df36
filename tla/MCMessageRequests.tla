------------------------- MODULE MCMessageRequests -------------------------
(***************************************************************************)
(* The parts that answer for a topic's messages, their rate and the        *)
(* schemas, which have no state in common, each in a few small instances:  *)
(* a run is a run of one of them.                                          *)
(***************************************************************************)
EXTENDS Tail, TimelineRequest, SchemaRegistry, SubjectPages, Throughput, TLC

VARIABLE part   \* the one that runs

messageVars == <<part, tailVars, timelineVars, registryVars, subjectVars, throughputVars>>

MCNoTime == -9

\* Timestamps that rise with the offsets, and some that do not or are missing.
Rising == [o \in 0 .. 3 |-> o + 1]
Mixed == [o \in 0 .. 3 |-> IF o = 1 THEN 3 ELSE IF o = 3 THEN MCNoTime ELSE o]

Log(lo, hi, recs, ts) == [lo |-> lo, hi |-> hi, recs |-> recs, ts |-> ts]

MCTopics ==
    {0 :> Log(0, 4, {0, 1, 2, 3}, Rising) @@ 1 :> Log(1, 3, {1, 2}, Rising),
     0 :> Log(0, 4, {0, 2}, Mixed) @@ 1 :> Log(1, 3, {1}, Rising),
     0 :> Log(0, 4, {1, 3}, Mixed) @@ 1 :> Log(1, 3, {}, Rising)}

\* Every kind of request with one thing wrong with it, or nothing.
Valid == [direction |-> Back, numbers |-> TRUE, limit |-> 1, cursor |-> "absent",
          anchor |-> "latest", fields |-> TRUE, filter |-> "absent", cluster |-> TRUE]
MCQueries ==
    [direction : {Back, Forward}, numbers : {TRUE}, limit : {1}, cursor : {"absent", "bad", "good"},
     anchor : {"absent", "latest", "beginning", "offset", "timestamp", "odd"},
     fields : BOOLEAN, filter : {"absent", "good"}, cluster : BOOLEAN]
    \cup {[Valid EXCEPT !.direction = "odd"], [Valid EXCEPT !.numbers = FALSE],
          [Valid EXCEPT !.limit = 0], [Valid EXCEPT !.filter = "bad"]}

\* In the log, on a hole, beyond its end, the largest offset, in a partition
\* that is not there.
MCTargets == {<<0, 0>>, <<0, 1>>, <<0, 3>>, <<1, 2>>, <<0, 5>>, <<0, 7>>, <<2, 1>>}

Span(s, e) == [start |-> s, end |-> e]
MCScans == {[ranges |-> 0 :> Span(a, b) @@ 1 :> Span(1, c), cap |-> k] :
                a \in {0, 1}, b \in {2, 4}, c \in {1, 3}, k \in {2, 9}}

MessageInit ==
    /\ part \in {"tail", "timeline", "registry", "subjects", "throughput"}
    /\ TailInit /\ RequestInit /\ RegistryInit /\ PagesInit /\ ThroughputInit
    /\ part # "subjects" => settings

MessageNext ==
    /\ UNCHANGED part
    /\ \/ part = "tail" /\ TailNext
          /\ UNCHANGED <<timelineVars, registryVars, subjectVars, throughputVars>>
       \/ part = "timeline" /\ RequestNext
          /\ UNCHANGED <<tailVars, registryVars, subjectVars, throughputVars>>
       \/ part = "registry" /\ RegistryNext
          /\ UNCHANGED <<tailVars, timelineVars, subjectVars, throughputVars>>
       \/ part = "subjects" /\ PagesNext
          /\ UNCHANGED <<tailVars, timelineVars, registryVars, throughputVars>>
       \/ part = "throughput" /\ ThroughputNext
          /\ UNCHANGED <<tailVars, timelineVars, registryVars, subjectVars>>

\* Each part has its fairness while it is the one that runs.
MessageSpec ==
    /\ MessageInit /\ [][MessageNext]_messageVars
    /\ part = "tail" => TailFairness
    /\ part = "registry" => RegistryFairness

TypeOK == TailTypeOK /\ RequestTypeOK /\ RegistryTypeOK /\ PagesTypeOK /\ FlightTypeOK

=============================================================================
