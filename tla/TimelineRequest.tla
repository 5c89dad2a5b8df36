-------------------------- MODULE TimelineRequest --------------------------
(***************************************************************************)
(* A GET .../timeline request up to its page: validation, watermarks, and  *)
(* the resolution of an anchor into positions (messages.rs, anchor.rs);    *)
(* and the bounded Kafka fetch (fetch.rs) that a jump uses to read the     *)
(* anchored message and a page to scan its windows.  Meanwhile retention   *)
(* may delete the oldest records of a partition.                           *)
(***************************************************************************)
EXTENDS TimelineWindow, Sequences

CONSTANTS
    Topics,        \* contents a topic may have: watermarks, records, timestamps
    Queries,       \* the requests, by what is right and wrong about them
    Targets,       \* the (partition, offset) pairs a jump may name
    Scans,         \* the ranges a page may ask for, and how many records at most
    TopOffset,     \* i64::MAX
    NoTime         \* a record without a timestamp, or none was asked for

\* A log's records lie between its watermarks, which an i64 holds.  A page asks
\* for the partitions its watermarks named, between offsets.
LogAssumption(log) ==
    /\ DOMAIN log = {"lo", "hi", "recs", "ts"}
    /\ log.lo \in Nat /\ log.hi \in Nat /\ log.lo <= log.hi /\ log.hi <= TopOffset
    /\ log.recs \subseteq log.lo .. log.hi - 1

ASSUME RequestAssumption ==
    /\ \A t \in Topics : \A p \in DOMAIN t : LogAssumption(t[p])
    /\ \A g \in Targets : g[2] \in Int
    /\ \A s \in Scans : s.cap \in Nat
    /\ \A s \in Scans : \A p \in DOMAIN s.ranges :
         /\ s.ranges[p].start \in Int /\ s.ranges[p].end \in Int
         /\ \A t \in Topics : p \in DOMAIN t
    /\ TopOffset \in Nat

VARIABLES
    topic,      \* the records of each partition and its watermarks, now
    place,      \* where the request is
    query,      \* the request
    target,     \* the message it names
    bounds,     \* the watermarks it read
    moment,     \* the timestamp it resolves
    positions,  \* the positions its page will start from
    unresolved, \* history: partitions whose own lookup of the timestamp failed
    ranges,     \* the fetch: its ranges,
    cap,        \* how many records it may return,
    next,       \* the consumer's position in each partition,
    done,       \* the partitions that are complete,
    fetched,    \* the records returned,
    cut,        \* history: it was stopped by its deadline, its cap or a disconnect
    jumped      \* history: partitions in which retention overtook the consumer

requestVars == <<place, query, target, bounds, moment, positions, unresolved>>
fetchVars == <<ranges, cap, next, done, fetched, cut, jumped>>
timelineVars == <<topic, requestVars, fetchVars>>

RequestInit ==
    /\ topic = <<>> /\ place = "none" /\ query = <<>> /\ target = <<>>
    /\ bounds = <<>> /\ moment = NoTime /\ positions = <<>> /\ unresolved = {}
    /\ ranges = <<>> /\ cap = 0 /\ next = <<>> /\ done = {} /\ fetched = <<>>
    /\ cut = FALSE /\ jumped = {}

\* The arithmetic of an i64 in a release build.
OffsetAfter(o) == IF o = TopOffset THEN -TopOffset - 1 ELSE o + 1

\* ---- validation: everything that can be said without a cluster ----

\* Exactly one of cursor and anchor; a plausible error refuses only both.
NotBoth(q) == ~(q.cursor # "absent" /\ q.anchor # "absent")

ExactlyOne(q) == (q.cursor # "absent") # (q.anchor # "absent")

ParsedParams(q) ==
    /\ q.numbers
    /\ q.direction \in Direction
    /\ q.limit # 0
    /\ ExactlyOne(q)
    /\ q.filter \in {"absent", "good"}

\* parse_anchor_input, which takes for granted that there is an anchor.
ParsedAnchor(q) ==
    IF q.anchor = "absent" THEN "panic"
    ELSE IF q.anchor \in {"latest", "beginning"} \/ (q.anchor \in {"offset", "timestamp"} /\ q.fields)
    THEN "accepted" ELSE "bad"

Validated(q) ==
    IF ~ParsedParams(q) THEN "bad"
    ELSE IF q.cursor = "absent" THEN ParsedAnchor(q)
    ELSE IF q.cursor = "good" THEN "accepted" ELSE "bad"

\* What is wrong with the request is one event inside a 200 stream; only then
\* is the cluster looked up.
Admission(q) ==
    IF Validated(q) = "accepted" /\ ~q.cluster THEN "http" ELSE Validated(q)

ReceiveRequest ==
    /\ place = "none"
    /\ topic' \in Topics
    /\ query' \in Queries
    /\ target' \in Targets
    /\ place' = Admission(query')
    /\ UNCHANGED <<bounds, moment, positions, unresolved, fetchVars>>

\* ---- positions ----

Ask(where) == place' = where /\ UNCHANGED <<topic, query, target>>

\* watermarks_blocking fails as a whole, or names the partitions it could read.
ReadBounds ==
    /\ place = "accepted"
    /\ \/ /\ \E listed \in SUBSET DOMAIN topic :
               bounds' = [p \in listed |-> [lo |-> topic[p].lo, hi |-> topic[p].hi]]
          /\ Ask("resolve")
       \/ Ask("event") /\ UNCHANGED bounds
    /\ UNCHANGED <<moment, positions, unresolved, fetchVars>>

\* The offsets at or after a moment in one partition, for offsets_for_times.
From(p, t) == {o \in topic[p].recs : topic[p].ts[o] # NoTime /\ topic[p].ts[o] >= t}

\* The first offset at or after a moment, the head where there is none.  A
\* plausible error starts such a partition at its beginning.
Earliest(p) == bounds[p].lo

Latest(p) == bounds[p].hi

FirstFrom(p, t) ==
    IF From(p, t) = {} THEN Latest(p)
    ELSE CHOOSE o \in From(p, t) : \A x \in From(p, t) : o <= x

\* An entry that is no offset is taken for "no message at or after it", also
\* when it stands for a partition that failed.
Resolved(p, failed) == IF p \in failed THEN Latest(p) ELSE FirstFrom(p, moment)

\* OffsetForwardAligned pins the anchored partition to the offset itself; a
\* plausible error takes the answer of the timestamp lookup for it too.
Realigned(p, failed) == Resolved(p, failed)

Pinned(p, failed) == IF p = target[1] THEN target[2] ELSE Resolved(p, failed)

InitialPositions(failed) ==
    [p \in DOMAIN bounds |->
        CASE query.anchor = "latest" -> Latest(p)
          [] query.anchor = "beginning" -> Earliest(p)
          [] query.anchor = "timestamp" -> Resolved(p, failed)
          [] query.anchor = "offset" /\ query.direction = Forward -> Pinned(p, failed)
          [] query.anchor = "offset" /\ query.direction = Back ->
               IF p = target[1] THEN OffsetAfter(target[2]) ELSE Latest(p)
          [] OTHER -> target[2]]

\* An anchor that needs no lookup, or a cursor, whatever positions it carries.
ResolvePlain ==
    /\ place = "resolve"
    /\ \/ query.anchor \in {"absent", "latest", "beginning"}
       \/ query.anchor = "offset" /\ query.direction = Back
    /\ positions' = InitialPositions({})
    /\ Ask("page")
    /\ UNCHANGED <<bounds, moment, unresolved, fetchVars>>

\* A timestamp is looked up at once; a forward jump first fetches its message.
ResolveTimestamp ==
    /\ place = "resolve" /\ query.anchor = "timestamp"
    /\ moment' = target[2]
    /\ Ask("times")
    /\ UNCHANGED <<bounds, positions, unresolved, fetchVars>>

\* offsets_for_times fails as a whole, or answers for each partition, of which
\* any may have failed by itself.
OffsetsForTimes ==
    /\ place = "times"
    /\ \/ \E failed \in SUBSET DOMAIN bounds :
            /\ positions' = InitialPositions(failed)
            /\ unresolved' = failed
            /\ Ask("page")
       \/ Ask("event") /\ UNCHANGED <<positions, unresolved>>
    /\ UNCHANGED <<bounds, moment, fetchVars>>

\* ---- the bounded fetch ----

\* Empty ranges are complete at once, and need no consumer.
BeginFetch(wanted, limit, where) ==
    LET live == {p \in DOMAIN wanted : wanted[p].start < wanted[p].end} IN
    /\ ranges' = wanted
    /\ cap' = limit
    /\ next' = [p \in live |-> wanted[p].start]
    /\ done' = DOMAIN wanted \ live
    /\ fetched' = <<>> /\ cut' = FALSE /\ jumped' = {}
    /\ Ask(where)

FetchOne ==
    /\ place = "resolve" /\ query.anchor = "offset" /\ query.direction = Forward
    /\ BeginFetch([p \in {target[1]} |-> [start |-> target[2], end |-> OffsetAfter(target[2])]],
                  1, "fetch")
    /\ UNCHANGED <<bounds, moment, positions, unresolved>>

\* A chunk of some page, on its own.
ScanRanges ==
    /\ place = "none"
    /\ topic' \in Topics
    /\ \E s \in Scans :
         LET live == {p \in DOMAIN s.ranges : s.ranges[p].start < s.ranges[p].end} IN
         /\ ranges' = s.ranges /\ cap' = s.cap
         /\ next' = [p \in live |-> s.ranges[p].start]
         /\ done' = DOMAIN s.ranges \ live
    /\ place' = "scan"
    /\ UNCHANGED <<query, target, bounds, moment, positions, unresolved, fetched, cut, jumped>>

Polling ==
    /\ place \in {"fetch", "scan"}
    /\ DOMAIN ranges \ done # {}
    /\ Len(fetched) < cap

Ahead(p) == {o \in topic[p].recs : o >= next[p]}
InRange(p) == next[p] >= topic[p].lo /\ next[p] <= topic[p].hi

\* A range is finished by the record at its last offset, or by the first one
\* past it.  A plausible error finishes it one record early.
FinishedEarly(p, o) == o + 2 >= ranges[p].end

FinishedBy(p, o) == o + 1 >= ranges[p].end

PollRecord(p) ==
    /\ Polling
    /\ p \in DOMAIN topic /\ InRange(p)
    /\ \E o \in Ahead(p) :
         /\ \A x \in Ahead(p) : o <= x
         /\ next' = [next EXCEPT ![p] = o + 1]
         /\ fetched' = IF o >= ranges[p].end THEN fetched ELSE Append(fetched, <<p, o>>)
         /\ done' = IF FinishedBy(p, o) THEN done \cup {p} ELSE done
    /\ UNCHANGED <<topic, requestVars, ranges, cap, cut, jumped>>

PollEof(p) ==
    /\ Polling
    /\ p \in DOMAIN topic /\ InRange(p) /\ Ahead(p) = {}
    /\ done' = done \cup {p}
    /\ UNCHANGED <<topic, requestVars, ranges, cap, next, fetched, cut, jumped>>

\* A position outside of the log: the consumer goes to the log's end, which is
\* librdkafka's default for auto.offset.reset, and the code sets no other.
PollReset(p) ==
    /\ Polling
    /\ p \in DOMAIN topic /\ ~InRange(p)
    /\ next' = [next EXCEPT ![p] = topic[p].hi]
    /\ jumped' = jumped \cup {p}
    /\ UNCHANGED <<topic, requestVars, ranges, cap, done, fetched, cut>>

\* The loop ends when every range is done, at the cap, at the deadline or when
\* the client is gone: at any time, as far as the other steps can tell.
Ends(where) ==
    /\ cut' = (DOMAIN ranges \ done # {})
    /\ place' = where
    /\ UNCHANGED <<topic, query, target, bounds, positions, unresolved>>
    /\ UNCHANGED <<ranges, cap, next, done, fetched, jumped>>

EndScan == place = "scan" /\ Ends("scanned") /\ UNCHANGED moment

\* The message's timestamp, when it came back and has one.
EndFetchOne ==
    /\ place = "fetch"
    /\ LET time == IF fetched = <<>> THEN NoTime
                   ELSE topic[target[1]].ts[fetched[1][2]]
       IN  /\ moment' = time
           /\ Ends(IF time = NoTime THEN "absent" ELSE "times")

\* Any broker call of the fetch fails as a whole.
FetchFails ==
    /\ place \in {"fetch", "scan"}
    /\ place' = "event"
    /\ UNCHANGED <<topic, query, target, bounds, moment, positions, unresolved, fetchVars>>

\* Retention deletes the oldest offsets of a partition.
Retention ==
    /\ place \in {"resolve", "fetch", "scan"} /\ jumped = {}
    /\ \E p \in DOMAIN topic : \E lo \in topic[p].lo + 1 .. topic[p].hi :
         topic' = [topic EXCEPT ![p].lo = lo, ![p].recs = {o \in @ : o >= lo}]
    /\ UNCHANGED <<requestVars, fetchVars>>

RequestNext ==
    \/ ReceiveRequest \/ ReadBounds \/ ResolvePlain \/ ResolveTimestamp \/ OffsetsForTimes
    \/ FetchOne \/ ScanRanges \/ EndScan \/ EndFetchOne \/ FetchFails \/ Retention
    \/ \E p \in DOMAIN next : PollRecord(p) \/ PollEof(p) \/ PollReset(p)

-----------------------------------------------------------------------------
\* No query reaches the resolution of an anchor without one: "unreachable!".
RequestTypeOK ==
    /\ place \in {"none", "bad", "http", "event", "accepted", "resolve", "times",
                  "fetch", "scan", "scanned", "absent", "page"}
    /\ cut \in BOOLEAN
    /\ DOMAIN positions \subseteq DOMAIN bounds /\ DOMAIN bounds \subseteq DOMAIN topic
    /\ unresolved \subseteq DOMAIN bounds
    /\ done \subseteq DOMAIN ranges /\ jumped \subseteq DOMAIN next
    /\ DOMAIN next \subseteq DOMAIN ranges
    /\ cap \in Nat /\ Len(fetched) <= cap

Start(p) == Clamp(positions[p], bounds[p].lo, bounds[p].hi)

\* The page of a jump to a message begins, in that message's partition, with
\* the message itself, whichever way it reads.
JumpBeginsWithMessage ==
    place = "page" /\ query.anchor = "offset" /\ target[1] \in DOMAIN bounds =>
        LET p == target[1]
            w == [start |-> Start(p), end |-> Start(p)]
        IN  target[2] \in bounds[p].lo .. bounds[p].hi - 1 =>
              AdjacentOffset(w, query.direction) = target[2]

\* A jump back to an offset shows everything up to it, also one past the log's
\* end; but the successor of the largest offset wraps, and a jump back to that
\* one starts at the beginning.
JumpBackReaches ==
    place = "page" /\ query.anchor = "offset" /\ query.direction = Back
        /\ target[1] \in DOMAIN bounds =>
        LET p == target[1] IN
        IF target[2] = TopOffset THEN Start(p) = bounds[p].lo
        ELSE \A o \in topic[p].recs : o < bounds[p].hi => (o <= target[2] <=> o < Start(p))

\* A page aligned at a moment starts, in every other partition, exactly at the
\* first message that is not older: none is skipped, none is older.  Only where
\* a partition's own lookup failed, of which the page does not tell, does it
\* start at the head and skip them.
AlignedAtMoment ==
    place = "page" /\ moment # NoTime =>
        \A p \in DOMAIN bounds : p # target[1] \/ query.anchor = "timestamp" =>
            IF p \in unresolved THEN Start(p) = bounds[p].hi
            ELSE /\ \A o \in From(p, moment) : o < bounds[p].hi => Start(p) <= o
                 /\ Start(p) < bounds[p].hi => Start(p) \in From(p, moment)

\* A jump is refused for want of its message only when the message, or its
\* timestamp, is not there, or the fetch was cut short.
RefusedIfAbsent ==
    place = "absent" =>
        \/ cut \/ jumped # {}
        \/ target[1] \notin DOMAIN topic
        \/ target[2] \notin topic[target[1]].recs
        \/ topic[target[1]].ts[target[2]] = NoTime

\* Where a jump lands, through three calls to the brokers of which each sees
\* another moment of the topic.
JumpIsExact == JumpBeginsWithMessage /\ JumpBackReaches /\ AlignedAtMoment /\ RefusedIfAbsent

Got(p) == {fetched[i][2] : i \in {j \in DOMAIN fetched : fetched[j][1] = p}}
Wanted(p) == {o \in topic[p].recs : ranges[p].start <= o /\ o < ranges[p].end}

\* What a page relies on (FetchOutcome of TimelinePage): in each partition the
\* records come as a prefix of the range, without a gap, and a complete one is
\* all of it; unless retention overtook the consumer in that partition.
FetchIsPrefix ==
    place = "scanned" => \A p \in DOMAIN ranges \ jumped :
        /\ Got(p) \subseteq ranges[p].start .. ranges[p].end - 1
        /\ \A o \in Wanted(p) : o \in Got(p) \/ (p \notin done /\ \A x \in Got(p) : x < o)

\* "A partition marked complete had its entire requested range scanned, so any
\* offsets in that range absent from records are confirmed, legitimate holes":
\* none of them is a record that the partition still has.
AbsentIsHole ==
    place = "scanned" => \A p \in done \cap DOMAIN topic : Wanted(p) \subseteq Got(p)

=============================================================================
