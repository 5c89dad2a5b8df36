---------------------------- MODULE TimelinePage ----------------------------
(***************************************************************************)
(* One timeline page: the task that run_page (engine.rs) spawns for a      *)
(* GET .../timeline request, and the client at the other end of its event  *)
(* channel.  A page is a loop of chunks; a chunk is planned, scanned by a  *)
(* blocking Kafka fetch, merged record by record, then committed and sent. *)
(* The client may disconnect between any two of these steps.               *)
(***************************************************************************)
EXTENDS TimelineWindow

CONSTANTS
    Partitions,        \* partition ids, integers
    Logs,              \* the topic contents a page may meet
    StartPositions,    \* the positions a request may carry, decoded and raw
    Limits,            \* the limit parameter, 1 or more
    Budgets,           \* the configured scan budget
    ChunkSpan,         \* CHUNK_SPAN
    ProgressInterval,  \* PROGRESS_INTERVAL
    NoOffset,          \* None of an Option<i64>
    NoCursor           \* a page_end without a cursor

\* A log gives each partition its watermarks, the records between them (the
\* other offsets are holes), their timestamps (a null one is the smallest) and
\* the records the request's filter would match.
ASSUME ConstantsAssumption ==
    /\ Partitions \subseteq Nat
    /\ IsFiniteSet(Partitions)
    /\ NoOffset \notin Int
    /\ Limits \subseteq Nat \ {0}
    /\ Budgets \subseteq Nat
    /\ ChunkSpan \in Nat \ {0}
    /\ ProgressInterval \in Nat \ {0}

ASSUME LogsAssumption ==
    \A l \in Logs :
        /\ DOMAIN l \subseteq Partitions
        /\ \A p \in DOMAIN l :
             /\ l[p].lo \in Int
             /\ l[p].hi \in Int
             /\ l[p].lo <= l[p].hi
             /\ l[p].recs \subseteq l[p].lo .. l[p].hi - 1
             /\ l[p].hit \subseteq l[p].recs
             /\ \A o \in l[p].recs : l[p].ts[o] \in Int

ASSUME PositionsAssumption ==
    \A s \in StartPositions : \A p \in DOMAIN s : s[p] \in Int

\* The absence of a cursor is told apart from every cursor.
ASSUME NoCursorAssumption == \A D \in SUBSET Partitions : NoCursor \notin [D -> Int]

VARIABLES
    log,        \* the topic, fixed for the page: watermarks are read once
    req,        \* the request: dir, filtered, limit, budget, positions
    pc,         \* where the page task is
    start,      \* the clamped positions the page set out from
    pos,        \* cur_positions
    matches,    \* total_matches
    scanned,    \* total_scanned
    first,      \* chunk_index = 0
    windows,    \* this chunk's windows
    complete,   \* partitions the fetch scanned to the end of their window
    streams,    \* what is left to merge of each trusted window
    takenMin,   \* extreme offsets popped from each stream in this chunk
    takenMax,
    popped,     \* records_popped_this_chunk
    hits,       \* chunk_matches
    exhausted,
    gone,       \* the client dropped the stream: cancelled set, sends fail
    delivered,  \* Match events sent, over the whole page
    progress,   \* scanned, as the last Progress event reported it
    cursor      \* the cursor of the page_end event

request == <<log, req>>
chunk == <<windows, complete, streams, takenMin, takenMax, popped, hits>>
totals == <<matches, scanned, first>>
channel == <<delivered, progress, cursor>>
vars == <<log, req, pc, start, pos, matches, scanned, first, windows, complete,
          streams, takenMin, takenMax, popped, hits, exhausted, gone, delivered,
          progress, cursor>>

Wm == [p \in DOMAIN log |-> [lo |-> log[p].lo, hi |-> log[p].hi]]
IsMatch(p, o) == ~req.filtered \/ o \in log[p].hit

Init ==
    /\ log \in Logs
    /\ req \in [dir : Direction, filtered : BOOLEAN, limit : Limits,
                budget : Budgets, positions : StartPositions]
    /\ pc = "start"
    /\ start = <<>> /\ pos = <<>>
    /\ matches = 0 /\ scanned = 0 /\ first = TRUE
    /\ windows = <<>> /\ complete = {} /\ streams = <<>>
    /\ takenMin = <<>> /\ takenMax = <<>> /\ popped = 0 /\ hits = {}
    /\ exhausted = FALSE /\ gone = FALSE
    /\ delivered = {} /\ progress = 0 /\ cursor = NoCursor

Budget == LargerOf(req.budget, 1)

StartPage ==
    /\ pc = "start"
    /\ pos' = ClampPositions(req.positions, Wm)
    /\ start' = pos'
    /\ pc' = "loop"
    /\ UNCHANGED <<request, totals, chunk, exhausted, gone, channel>>

PageIsFull == matches >= req.limit \/ scanned >= Budget

PlannedWindows ==
    LET remaining == Budget - scanned
        base == IF ~req.filtered /\ first THEN req.limit ELSE ChunkSpan
        span == ChunkWidth(base, remaining,
                           Cardinality(ActivePartitions(pos, Wm, req.dir)))
    IN  CapWindowsToBudget(PageWindows(pos, Wm, req.dir, span), remaining)

\* Head of the chunk loop: the page is over, or the client is gone, or there
\* is nothing left in this direction, or there is a chunk to scan.
LeaveLoop ==
    /\ pc = "loop"
    /\ PageIsFull
    /\ pc' = "finish"
    /\ UNCHANGED <<request, start, pos, totals, chunk, exhausted, gone, channel>>

StopIfCancelled ==
    /\ pc = "loop"
    /\ ~PageIsFull
    /\ gone
    /\ pc' = "gone"
    /\ UNCHANGED <<request, start, pos, totals, chunk, exhausted, gone, channel>>

PlanChunk ==
    /\ pc = "loop"
    /\ ~PageIsFull
    /\ ~gone
    /\ windows' = PlannedWindows
    /\ IF DOMAIN windows' = {}
       THEN pc' = "finish" /\ exhausted' = TRUE
       ELSE pc' = "scan" /\ UNCHANGED exhausted
    /\ UNCHANGED <<request, start, pos, totals, complete, streams, takenMin,
                   takenMax, popped, hits, gone, channel>>

InWindow(p) == {o \in log[p].recs : windows[p].start <= o /\ o < windows[p].end}

\* The discipline of select_partition_streams: a window is used when it was
\* scanned to its end, or when the record next to the position came back.
TrustEverything(w, fetched, done, dir) == fetched

TrustedStream(w, fetched, done, dir) ==
    IF done \/ AdjacentOffset(w, dir) \in fetched THEN fetched ELSE {}

\* The fetch reads every window upwards from its start.  A partition it did
\* not finish (deadline, transient errors, cancellation) yields a prefix; the
\* record at the last offset of a window always finishes it.
FetchOutcome(done, upto) ==
    \A p \in DOMAIN windows :
        /\ upto[p] \in windows[p].start .. windows[p].end
        /\ p \in done => upto[p] = windows[p].end
        /\ windows[p].end - 1 \in InWindow(p) /\ upto[p] = windows[p].end => p \in done

ScanChunk ==
    /\ pc = "scan"
    /\ \E done \in SUBSET DOMAIN windows :
       \E upto \in [DOMAIN windows -> UNION {windows[p].start .. windows[p].end :
                                               p \in DOMAIN windows}] :
         /\ FetchOutcome(done, upto)
         /\ complete' = done
         /\ streams' = [p \in DOMAIN windows |->
                          TrustedStream(windows[p],
                                        {o \in InWindow(p) : o < upto[p]},
                                        p \in done, req.dir)]
    /\ takenMin' = [p \in DOMAIN windows |-> NoOffset]
    /\ takenMax' = [p \in DOMAIN windows |-> NoOffset]
    /\ popped' = 0
    /\ hits' = {}
    /\ pc' = "merge"
    /\ UNCHANGED <<request, start, pos, totals, windows, exhausted, gone, channel>>

\* A fetch error or a join failure becomes the terminal error event.
ScanFails ==
    /\ pc = "scan"
    /\ pc' = IF gone THEN "gone" ELSE "error"
    /\ UNCHANGED <<request, start, pos, totals, chunk, exhausted, gone, channel>>

\* o is the front of a stream: the remaining record nearest to the position.
IsFront(o, stream) ==
    /\ o \in stream
    /\ \A x \in stream : IF req.dir = Back THEN x <= o ELSE o <= x

MergePrefers(p, o, q, x) ==
    LET a == log[p].ts[o]
        b == log[q].ts[x]
    IN  IF a = b THEN p < q ELSE IF req.dir = Back THEN a > b ELSE a < b

IsBestFront(p, o) ==
    /\ IsFront(o, streams[p])
    /\ \A q \in DOMAIN streams \ {p} : \A x \in streams[q] :
         IsFront(x, streams[q]) => MergePrefers(p, o, q, x)

MergeIsOver ==
    \/ matches + Cardinality(hits) >= req.limit
    \/ \A p \in DOMAIN streams : streams[p] = {}

\* One round of merge_chunk_records: pop the best front, decode, filter, and
\* at every ProgressInterval-th record send a Progress event.
MergeOne ==
    /\ pc = "merge"
    /\ ~MergeIsOver
    /\ \E p \in DOMAIN streams : \E o \in streams[p] :
         /\ IsBestFront(p, o)
         /\ streams' = [streams EXCEPT ![p] = @ \ {o}]
         /\ takenMin' = [takenMin EXCEPT ![p] = IF @ = NoOffset THEN o
                                                ELSE SmallerOf(@, o)]
         /\ takenMax' = [takenMax EXCEPT ![p] = IF @ = NoOffset THEN o
                                                ELSE LargerOf(@, o)]
         /\ hits' = IF IsMatch(p, o) THEN hits \cup {<<p, o>>} ELSE hits
    /\ popped' = popped + 1
    /\ IF popped' % ProgressInterval # 0
       THEN UNCHANGED <<pc, progress>>
       ELSE IF gone
       THEN pc' = "gone" /\ UNCHANGED progress
       ELSE progress' = scanned + popped' /\ UNCHANGED pc
    /\ UNCHANGED <<request, start, pos, totals, windows, complete, exhausted,
                   gone, delivered, cursor>>

\* Plausible errors in the cursor advance: an unfinished partition jumps to its
\* window boundary; a forward cursor lands on the last record it delivered; a
\* backward cursor advances by its highest record instead of its lowest.
JumpOverUnscanned(p, here) ==
    IF p \notin DOMAIN windows THEN here
    ELSE IF streams[p] = {}
    THEN IF req.dir = Back THEN windows[p].start ELSE windows[p].end
    ELSE IF takenMin[p] = NoOffset THEN here
    ELSE IF req.dir = Back THEN takenMin[p] ELSE takenMax[p] + 1

ForwardForgetsPlusOne(p, here) ==
    IF p \notin DOMAIN windows THEN here
    ELSE IF p \in complete /\ streams[p] = {}
    THEN IF req.dir = Back THEN windows[p].start ELSE windows[p].end
    ELSE IF takenMin[p] = NoOffset THEN here
    ELSE IF req.dir = Back THEN takenMin[p] ELSE takenMax[p]

BackUsesHighest(p, here) ==
    IF p \notin DOMAIN windows THEN here
    ELSE IF p \in complete /\ streams[p] = {}
    THEN IF req.dir = Back THEN windows[p].start ELSE windows[p].end
    ELSE IF takenMin[p] = NoOffset THEN here ELSE takenMax[p] + 1

\* A drained, complete window is crossed whole, trailing holes included;
\* otherwise the position moves just past the last record popped.
AdvancedPosition(p, here) ==
    IF p \notin DOMAIN windows THEN here
    ELSE IF p \in complete /\ streams[p] = {}
    THEN IF req.dir = Back THEN windows[p].start ELSE windows[p].end
    ELSE IF takenMin[p] = NoOffset THEN here
    ELSE IF req.dir = Back THEN takenMin[p] ELSE takenMax[p] + 1

NewPositions == [p \in DOMAIN pos |-> AdvancedPosition(p, pos[p])]

\* A plausible error: a chunk that brought nothing is committed like any other.
NeverStalled == FALSE

MadeNoProgress ==
    /\ popped = 0
    /\ \E p \in DOMAIN windows : p \notin complete
    /\ ~gone

StallChunk ==
    /\ pc = "merge"
    /\ MergeIsOver
    /\ MadeNoProgress
    /\ pc' = "error"
    /\ UNCHANGED <<request, start, pos, totals, chunk, exhausted, gone, channel>>

\* The chunk is committed and its matches sent.  When the client is gone the
\* first send fails and the task returns.
CommitChunk ==
    /\ pc = "merge"
    /\ MergeIsOver
    /\ ~MadeNoProgress
    /\ pos' = NewPositions
    /\ scanned' = scanned + Charge(pos, NewPositions)
    /\ matches' = matches + Cardinality(hits)
    /\ exhausted' = AllPartitionsAtEdge(NewPositions, Wm, req.dir)
    /\ first' = FALSE
    /\ IF gone
       THEN pc' = "gone" /\ UNCHANGED channel
       ELSE /\ pc' = IF exhausted' THEN "finish" ELSE "loop"
            /\ delivered' = delivered \cup hits
            /\ progress' = scanned'
            /\ UNCHANGED cursor
    /\ UNCHANGED <<request, start, chunk, gone>>

SendPageEnd ==
    /\ pc = "finish"
    /\ IF gone
       THEN pc' = "gone" /\ UNCHANGED cursor
       ELSE /\ pc' = "ended"
            /\ cursor' = IF exhausted THEN NoCursor ELSE pos
    /\ UNCHANGED <<request, start, pos, totals, chunk, exhausted, gone,
                   delivered, progress>>

Stopped == pc \in {"ended", "error", "gone"}

\* The browser closes the stream: CancelOnDrop sets the flag and the channel's
\* receiver is dropped with it.
Disconnect ==
    /\ ~gone
    /\ ~Stopped
    /\ gone' = TRUE
    /\ UNCHANGED <<request, pc, start, pos, totals, chunk, exhausted, channel>>

TaskStep ==
    \/ StartPage \/ LeaveLoop \/ StopIfCancelled \/ PlanChunk
    \/ ScanChunk \/ ScanFails \/ MergeOne \/ StallChunk \/ CommitChunk
    \/ SendPageEnd

Next == TaskStep \/ Disconnect

\* The runtime keeps polling a spawned task, and every blocking fetch ends by
\* its own deadline; nothing obliges a client to disconnect.
Spec == Init /\ [][Next]_vars /\ WF_vars(TaskStep)

-----------------------------------------------------------------------------
States == {"start", "loop", "scan", "merge", "finish", "ended", "error", "gone"}

TypeOK ==
    /\ log \in Logs
    /\ req \in [dir : Direction, filtered : BOOLEAN, limit : Limits,
                budget : Budgets, positions : StartPositions]
    /\ pc \in States
    /\ matches \in Nat /\ scanned \in Nat /\ popped \in Nat /\ progress \in Nat
    /\ first \in BOOLEAN /\ exhausted \in BOOLEAN /\ gone \in BOOLEAN
    /\ DOMAIN pos \subseteq DOMAIN log
    /\ \A p \in DOMAIN pos : pos[p] \in Int
    /\ DOMAIN windows \subseteq DOMAIN pos
    /\ complete \subseteq DOMAIN log

Covered(from, to) ==
    UNION {{<<p, o>> : o \in {x \in log[p].recs :
                                /\ x \in Between(from[p], to[p], req.dir)
                                /\ IsMatch(p, x)}} : p \in DOMAIN from}

\* run_page promises loss-free, overlap-free pages: whatever the holes, short
\* reads, filter and merge order, the Match events sent so far are exactly the
\* matching records between where the page set out from and where its cursor
\* now stands, in every partition.
PageExact == pc # "gone" => delivered = Covered(start, pos)

\* No record is sent twice within a page: a chunk never merges a record that
\* an earlier chunk delivered.
NoOverlap == hits \cap delivered = {} \/ pc # "merge"

\* The scan budget is a hard per-request cap, even when fewer records are
\* left of it than there are partitions to read.
BudgetIsHard == scanned <= Budget /\ progress <= Budget

\* exhausted is the sole end-of-data signal: a page_end without a cursor means
\* every matching record up to the edge was sent, and one with a cursor leaves
\* some partition short of its edge.
EndIsTruthful ==
    pc = "ended" =>
        (cursor = NoCursor <=> AllPartitionsAtEdge(pos, Wm, req.dir))

\* A client that follows cursors always gets somewhere: a page never hands
\* back the positions it was given (the loop clamp_positions guards against).
CursorMoves == pc = "ended" /\ cursor # NoCursor => pos # start

\* The scanned figure of the Progress events never goes backwards, although
\* mid-chunk events count records and end-of-chunk events count offsets.
ProgressNeverDrops == [][progress' >= progress]_progress

\* A page ends: with page_end, with the terminal error, or because nobody is
\* left to read it.
PageTerminates == <>Stopped

=============================================================================
