------------------------------ MODULE GroupLag ------------------------------
(***************************************************************************)
(* The lag of one consumer group (group_lag_cached and sample_group_lag of *)
(* admin.rs): the committed offsets, then the heads of exactly those       *)
(* partitions, stored as one pair for every view.  Samplers share a single *)
(* flight and list the heads through the watermarks that they share with   *)
(* every other reader.                                                     *)
(***************************************************************************)
EXTENDS SharedHeads, SingleFlight, FiniteSetsExt

CONSTANTS GroupTtl,   \* the viewer's freshness policy, in ticks
          NoEntry     \* nothing cached for the group

ASSUME GroupLagAssumption ==
    Callers \subseteq Askers /\ Keys # {} /\ GroupTtl \in Nat /\ IsFiniteSet(Partitions)

VARIABLES
    committed,  \* the group's committed offset, at its coordinator
    commits,    \* the committed offsets each sampler read
    entry,      \* the group's cached pair, or NoEntry
    truth       \* history: what was true of the group when each sampler read them

groupVars == <<committed, commits, entry>>
lagVars == <<flightVars, headVars, cacheVars, ask, groupVars, truth>>

NoCommits == [p \in Partitions |-> NoOffset]

Held(offsets) == {p \in Partitions : offsets[p] # NoOffset}

\* The lag of a group with these offsets against these heads, where both are
\* known.
LagOver(known, offsets, heads) ==
    MapThenSumSet(LAMBDA p : IF heads[p] > offsets[p] THEN heads[p] - offsets[p] ELSE 0,
                  known)

\* What is true of a group while these commits are read: the lag they make up,
\* those that lie ahead of their partition's end, and all that it holds.
TruthOf(read) ==
    [lag |-> LagOver(read, committed, head),
     ahead |-> {p \in read : committed[p] > head[p]}, held |-> Held(committed)]

NoTruth == [lag |-> 0, ahead |-> {}, held |-> {}]

LagInit ==
    /\ FlightInit
    /\ WatermarksInit
    /\ committed \in [Partitions -> {0, NoOffset}]
    /\ commits = [c \in Callers |-> NoCommits]
    /\ entry = NoEntry
    /\ truth = [c \in Callers |-> NoTruth]

\* A view asks for the lag; an entry younger than its TTL answers at once.
FreshEntry == entry # NoEntry /\ now - entry.at < GroupTtl

RequestLag(c) ==
    /\ at[c] = "idle"
    /\ ~FreshEntry
    /\ Move(c, "acquire")
    /\ UNCHANGED <<inFlight, key, waited, headVars, cacheVars, ask, groupVars, truth>>

BeginFlight(c) ==
    Begin(c) /\ UNCHANGED <<headVars, cacheVars, ask, groupVars, truth>>

WakeUp(c) ==
    Wake(c) /\ UNCHANGED <<headVars, cacheVars, ask, groupVars, truth>>

\* After waiting: serve whatever is cached, or sample without the flight.
Reread(c) ==
    /\ at[c] = "reread"
    /\ Move(c, IF entry # NoEntry THEN "idle" ELSE "alone")
    /\ UNCHANGED <<inFlight, key, waited, headVars, cacheVars, ask, groupVars, truth>>

Sampling(c) == at[c] \in {"refresh", "alone"}

\* A sampler leaves: with its answer, or with an error.  An owner's guard is
\* dropped on the way out.
Leave(c) ==
    /\ Move(c, "idle")
    /\ IF at[c] = "refresh" THEN DropGuard(c) ELSE UNCHANGED inFlight
    /\ commits' = [commits EXCEPT ![c] = NoCommits]
    /\ EndAsk(c)
    /\ truth' = [truth EXCEPT ![c] = NoTruth]
    /\ UNCHANGED <<key, waited>>

\* fetch_group_commits: one answer for every partition, after a few retries if
\* the coordinator is moving.  An entry that failed has no offset, and is left
\* out as if nothing were committed there.
ReadCommits(c) ==
    /\ Sampling(c) /\ commits[c] = NoCommits /\ ask[c].step = "off"
    /\ \E read \in SUBSET Held(committed) \ {{}} :
         /\ commits' = [commits EXCEPT ![c] = [p \in Partitions |->
                          IF p \in read THEN committed[p] ELSE NoOffset]]
         /\ truth' = [truth EXCEPT ![c] = TruthOf(read)]
    /\ UNCHANGED <<flightVars, headVars, cacheVars, ask, committed, entry>>

\* A group that committed nothing, as far as the answer says, needs no heads;
\* it has no rows.
ReadNothing(c) ==
    /\ Sampling(c) /\ commits[c] = NoCommits /\ ask[c].step = "off"
    /\ entry' = [rows |-> NoCommits, ends |-> NoCommits, unknown |-> {}, at |-> now,
                 truth |-> TruthOf({})]
    /\ Leave(c)
    /\ UNCHANGED <<headVars, cacheVars, committed>>

\* The heads are listed afresh, never taken from the cache: that is a TTL of
\* zero.  A plausible error is the TTL of the other views.
HeadsLikeOtherViews(c) == Ensure(c, Held(commits[c]), GroupTtl)

HeadsOf(c) == Ensure(c, Held(commits[c]), 0)

AskHeads(c) ==
    /\ Sampling(c) /\ Held(commits[c]) # {}
    /\ HeadsOf(c)
    /\ UNCHANGED <<flightVars, groupVars, truth>>

\* Any of the broker calls fails as a whole.
SampleFails(c) ==
    /\ Sampling(c) /\ ask[c].step \in {"off", "list"}
    /\ Leave(c)
    /\ UNCHANGED <<headVars, cacheVars, committed, entry>>

\* lag_rows: a row for each commit whose head is known; a partition with an
\* unreadable head is listed as unknown.  A plausible error is to leave it out
\* without a word.
ForgetUnknown(offsets, heads) == {}

Unknown(offsets, heads) == {p \in Held(offsets) : heads[p] = NoOffset}

StorePair(c) ==
    LET offsets == commits[c]
        heads == ask[c].heads
        rows == {p \in Held(offsets) : heads[p] # NoOffset}
    IN  /\ Sampling(c) /\ ask[c].step = "done"
        /\ entry' = [rows |-> [p \in Partitions |-> IF p \in rows THEN offsets[p] ELSE NoOffset],
                     ends |-> [p \in Partitions |-> IF p \in rows THEN heads[p] ELSE NoOffset],
                     unknown |-> Unknown(offsets, heads),
                     at |-> now, truth |-> truth[c]]
        /\ Leave(c)
        /\ UNCHANGED <<headVars, cacheVars, committed>>

List(c) == ListHeads(c) /\ UNCHANGED <<flightVars, groupVars, truth>>

Insert(c) == InsertHeads(c) /\ UNCHANGED <<flightVars, groupVars, truth>>

\* The consumer commits, or an operator moves the group; no one compares the
\* offset with the partition's end, so it may be ahead of it.
Commit(p) ==
    /\ \E offset \in Offsets : committed' = [committed EXCEPT ![p] = offset]
    /\ UNCHANGED <<flightVars, headVars, cacheVars, ask, commits, entry, truth>>

Append(p) == Produce(p) /\ UNCHANGED <<flightVars, groupVars, truth>>

TickLag ==
    /\ AdvanceClock
    /\ WaitLonger
    /\ UNCHANGED <<inFlight, at, key, head, cacheVars, ask, groupVars, truth>>

LagNext ==
    \/ \E c \in Callers :
         \/ RequestLag(c) \/ BeginFlight(c) \/ WakeUp(c) \/ Reread(c)
         \/ ReadCommits(c) \/ ReadNothing(c) \/ SampleFails(c)
         \/ AskHeads(c) \/ List(c) \/ Insert(c) \/ StorePair(c)
    \/ \E a \in Askers \ Callers : Reads(a) /\ UNCHANGED <<flightVars, groupVars, truth>>
    \/ \E p \in Partitions : Commit(p) \/ Append(p)
    \/ TickLag

LagSpec == LagInit /\ [][LagNext]_lagVars

-----------------------------------------------------------------------------

Truths == [lag : Nat, ahead : SUBSET Partitions, held : SUBSET Partitions]

LagTypeOK ==
    /\ FlightTypeOK
    /\ WatermarksTypeOK
    /\ committed \in [Partitions -> Offsets \cup {NoOffset}]
    /\ commits \in [Callers -> [Partitions -> Offsets \cup {NoOffset}]]
    /\ truth \in [Callers -> Truths]
    /\ entry # NoEntry =>
         entry \in [rows : [Partitions -> Offsets \cup {NoOffset}],
                    ends : [Partitions -> Offsets \cup {NoOffset}],
                    unknown : SUBSET Partitions, at : 0 .. now, truth : Truths]

\* "committed > end" on screen: pairing a commit with an older end would invent
\* it.  However the sample interleaved with the consumer, the producers, the
\* other samplers and the shared watermarks, a stored row shows a commit beyond
\* its end only if it was beyond it when it was read (a reset may leave it
\* there), and no row shows an end the partition has not reached.
PairIsPossible ==
    entry # NoEntry => \A p \in Held(entry.rows) :
        /\ entry.ends[p] # NoOffset
        /\ entry.rows[p] > entry.ends[p] => p \in entry.truth.ahead
        /\ entry.ends[p] <= head[p]

\* A total shown as a total (no unknown partition) is never less than the lag
\* that the commits of the answer made up when they were read: no partition
\* drops out of the sum after that.
LagNotUnderstated ==
    entry # NoEntry /\ entry.unknown = {} =>
        LagOver(Held(entry.rows), entry.rows, entry.ends) >= entry.truth.lag

\* "A total that silently omits a partition would under-report with confidence":
\* only "partitions the group has no committed offset for" are absent, that is
\* neither a row nor unknown, so that a total is one of all the group holds.
AbsentHasNone ==
    entry # NoEntry => Held(entry.rows) \cup entry.unknown = entry.truth.held

=============================================================================
