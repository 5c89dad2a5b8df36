----------------------------- MODULE Watermarks -----------------------------
(***************************************************************************)
(* The cluster's shared cache of high watermarks (keyed_cache.rs, and      *)
(* Watermarks of admin.rs).  Every reader brings its own TTL; what it      *)
(* cannot take from the cache it lists from the brokers in one call, in    *)
(* which each partition may fail by itself.  What a reader may use is what *)
(* THIS call validated, and how old the oldest of it is.                   *)
(***************************************************************************)
EXTENDS Integers, FiniteSets

CONSTANTS Partitions,
          Askers,      \* the concurrent calls of ensure
          Horizon,     \* horizon_ms of the cache, in ticks
          MaxOffset,   \* bound: how far a head rises
          MaxTime,     \* bound: how long the run lasts
          NoOffset     \* no value

ASSUME WatermarksAssumption ==
    /\ Horizon \in Nat /\ MaxOffset \in Nat /\ MaxTime \in Nat
    /\ NoOffset \notin Int

VARIABLES
    now,       \* the clock, in ticks
    head,      \* each partition's head, at its leader
    headAt,    \* history: the heads at the moment the clock showed t
    cached,    \* the cached head, NoOffset when there is none
    cachedAt,  \* when it was sampled
    ask        \* the progress of each call of ensure

headVars == <<now, head, headAt>>
cacheVars == <<cached, cachedAt>>

Offsets == 0 .. MaxOffset
Times == 0 .. MaxTime

\* A call that has not begun.
NoAsk == [step |-> "off", missing |-> {}, heads |-> [p \in Partitions |-> NoOffset],
          fetchedAt |-> 0, asOf |-> 0]

WatermarksInit ==
    /\ now = 0
    /\ head = [p \in Partitions |-> 0]
    /\ headAt = [t \in {0} |-> head]
    /\ cached = [p \in Partitions |-> NoOffset]
    /\ cachedAt = [p \in Partitions |-> 0]
    /\ ask = [a \in Askers |-> NoAsk]

\* Each watermark the cache can serve under this TTL.  A TTL of zero accepts
\* no age at all.
Usable(wanted, ttl) ==
    {p \in wanted : cached[p] # NoOffset /\ ttl > 0 /\ now - cachedAt[p] < ttl}

\* The moments at which the values the call hands out were sampled: of the
\* cached ones it uses, and of the listing to come if anything is missing.
Stamps(wanted, ttl) ==
    LET usable == Usable(wanted, ttl)
    IN  {cachedAt[p] : p \in usable} \cup
        (IF usable = wanted /\ wanted # {} THEN {} ELSE {now})

\* The age of the answer is that of its oldest value; a plausible error is the
\* flattering one.
NewestOf(stamps) == {t \in stamps : \A u \in stamps : u <= t}

OldestOf(stamps) == {t \in stamps : \A u \in stamps : t <= u}

\* The first half of ensure.
Ensure(a, wanted, ttl) ==
    LET usable == Usable(wanted, ttl) IN
    /\ ask[a].step = "off"
    /\ \E asOf \in OldestOf(Stamps(wanted, ttl)) :
         ask' = [ask EXCEPT ![a] =
           [step |-> IF usable = wanted THEN "done" ELSE "list",
            missing |-> wanted \ usable,
            heads |-> [p \in Partitions |-> IF p \in usable THEN cached[p] ELSE NoOffset],
            fetchedAt |-> now,
            asOf |-> asOf]]
    /\ UNCHANGED <<headVars, cacheVars>>

\* The brokers answer, each partition for itself.  A failed partition stays
\* absent; a plausible error is to show what the cache remembers of it.
RememberedHead(p) == cached[p]

FailedHead(p) == NoOffset

ListHeads(a) ==
    /\ ask[a].step = "list"
    /\ \E failed \in SUBSET ask[a].missing :
         ask' = [ask EXCEPT ![a].step = "insert",
                            ![a].missing = @ \ failed,
                            ![a].heads = [p \in Partitions |->
                                IF p \notin ask[a].missing THEN @[p]
                                ELSE IF p \in failed THEN FailedHead(p) ELSE head[p]]]
    /\ UNCHANGED <<headVars, cacheVars>>

\* insert_many: sweep what is beyond the horizon, then enter the heads just
\* listed, under the moment the call BEGAN.  A plausible error is to stamp
\* them when they are entered, or to keep the moment they expire.
StampAtInsertion(a) == now

StampOfExpiry(a) == ask[a].fetchedAt + Horizon

InsertionStamp(a) == ask[a].fetchedAt

InsertHeads(a) ==
    LET stamp == InsertionStamp(a)
        kept == {p \in Partitions : stamp - cachedAt[p] < Horizon}
    IN  /\ ask[a].step = "insert"
        /\ cached' = [p \in Partitions |->
                        IF p \in ask[a].missing THEN ask[a].heads[p]
                        ELSE IF p \in kept THEN cached[p] ELSE NoOffset]
        /\ cachedAt' = [p \in Partitions |->
                          IF p \in ask[a].missing THEN stamp
                          ELSE IF p \in kept THEN cachedAt[p] ELSE 0]
        /\ ask' = [ask EXCEPT ![a].step = "done", ![a].missing = {}, ![a].fetchedAt = 0]
        /\ UNCHANGED headVars

\* The call's answer has been used, or the call has failed.
EndAsk(a) == ask' = [ask EXCEPT ![a] = NoAsk]

\* A record is produced.
Produce(p) ==
    /\ head[p] < MaxOffset
    /\ head' = [head EXCEPT ![p] = @ + 1]
    /\ UNCHANGED <<now, headAt, cacheVars, ask>>

AdvanceClock ==
    /\ now < MaxTime
    /\ now' = now + 1
    /\ headAt' = [t \in 0 .. now + 1 |-> IF t = now + 1 THEN head ELSE headAt[t]]

WatermarksTypeOK ==
    /\ now \in Times
    /\ head \in [Partitions -> Offsets]
    /\ headAt \in [0 .. now -> [Partitions -> Offsets]]
    /\ cached \in [Partitions -> Offsets \cup {NoOffset}]
    /\ cachedAt \in [Partitions -> 0 .. now]
    /\ ask \in [Askers ->
         [step : {"off", "list", "insert", "done"}, missing : SUBSET Partitions,
          heads : [Partitions -> Offsets \cup {NoOffset}],
          fetchedAt : 0 .. now, asOf : 0 .. now]]

\* A head is never shown under a stamp at which it was already out of date:
\* it is at least what the head was at that stamp.
HonestHead(p, offset, stamp) ==
    offset # NoOffset => headAt[stamp][p] <= offset /\ offset <= head[p]

\* The shared cache is honest about its age, whichever call filled it, and so
\* is every call about the oldest value it hands out.
HeadsAreHonest ==
    /\ \A p \in Partitions : HonestHead(p, cached[p], cachedAt[p])
    /\ \A a \in Askers : ask[a].step = "done" =>
         \A p \in Partitions : HonestHead(p, ask[a].heads[p], ask[a].asOf)

=============================================================================
