----------------------------- MODULE TimelineView -----------------------------
(***************************************************************************)
(* The timeline of a topic in the browser (Timeline.tsx with its hooks): a *)
(* sliding window fed by pages in both directions and by a live stream,    *)
(* which is merged or buffered.  Every handler runs to its end before the  *)
(* next event; between the request of a page and its landing anything may  *)
(* happen.  The backend's pages are what TimelinePage shows them to be.    *)
(***************************************************************************)
EXTENDS SlidingWindow, SequencesExt

CONSTANTS
    Records,       \* per partition, the offsets of the records the filter matches
    FirstHead,     \* per partition, the head when the view is mounted
    LastHead,      \* bound: per partition, how far the head rises
    Limit,         \* PAGE_LIMIT
    BufferCap,     \* BUFFER_CAP
    Screenful,     \* the most rows the list shows without scrolling
    FlakyListing,  \* may the offset listing of one partition fail?
    NoOffset, NoRow, NoRequest, NoHeads, NoDirection

Partitions == DOMAIN Records
Rows == UNION {{p} \X Records[p] : p \in Partitions}

ASSUME ViewAssumption ==
    /\ IsFiniteSet(Partitions)
    /\ FirstHead \in [Partitions -> Nat] /\ LastHead \in [Partitions -> Nat]
    /\ \A p \in Partitions : FirstHead[p] <= LastHead[p]
    /\ \A p \in Partitions : Records[p] \subseteq 0 .. LastHead[p] - 1
    /\ Limit \in Nat \ {0} /\ BufferCap \in Nat \ {0}
    /\ Limit + BufferCap <= Cap
    /\ Screenful \in Nat /\ Screenful < Cap
    /\ FlakyListing \in BOOLEAN

\* What stands for the absence of a value is told apart from every value.
ASSUME AbsenceAssumption ==
    /\ \A ps \in SUBSET Partitions : NoPositions \notin [ps -> Nat] /\ NoHeads \notin [ps -> Nat]
    /\ NoOffset \notin Nat /\ NoRow \notin Rows /\ NoDirection \notin Direction

VARIABLES
    head,      \* the head of each partition
    tail,      \* the offset each partition's live stream delivers next
    view,      \* the component's state
    request,   \* the page in flight, at most one
    tailFrom,  \* history: where each partition's live stream began
    history    \* history of the window since it was last reset: where its anchor
               \* page began, the heads it first caught up with, and the rows
               \* the full buffer dropped

vars == <<head, tail, view, request, tailFrom, history>>

MountedView ==
    [window |-> EmptyWindow, attached |-> FALSE, pause |-> "none", expanded |-> NoRow,
     pinned |-> TRUE, buffer |-> <<>>, fromBeginning |-> FALSE, offer |-> NoDirection,
     exhausted |-> [d \in Direction |-> FALSE],
     trimmed |-> [d \in Direction |-> FALSE]]

Inspecting(v) == v.expanded # NoRow

-----------------------------------------------------------------------------
(* The pause machine: what an event does to the pause, and whether it flushes *)
(* the buffer or jumps to now.                                                *)

\* Does a pause outlast the moment the window catches up?  A plausible error is
\* to forget that something is being inspected.
OutlastsIfExplicit(v) == v.pause = "explicit"

OutlastsReattachment(v) == Inspecting(v) \/ v.pause = "explicit"

Decide(pause, flush) == [pause |-> pause, flush |-> flush, jump |-> FALSE]

NextPause(v, event) ==
    LET stay == Decide(v.pause, FALSE)
        resume == Decide("none", TRUE)
        toNow == [stay EXCEPT !.jump = TRUE]
    IN  CASE event = "pillClick" ->
               IF ~v.attached THEN toNow
               ELSE Decide(IF v.pause = "auto" THEN "none" ELSE v.pause, TRUE)
          [] event = "toggleClick" ->
               IF ~v.attached THEN toNow
               ELSE IF v.pause = "none" THEN Decide("explicit", FALSE) ELSE resume
          [] event = "scrollPinnedTop" ->
               IF ~Inspecting(v) /\ v.attached /\ v.pause = "auto" THEN resume ELSE stay
          [] event = "scrollAwayFromTop" ->
               Decide(IF v.pause = "none" THEN "auto" ELSE v.pause, FALSE)
          [] event = "reattached" ->
               IF OutlastsReattachment(v) THEN stay ELSE resume
          [] event = "lastInspectionClosed" ->
               IF v.attached /\ v.pause # "explicit" THEN resume ELSE stay

\* A jump never lifts an explicit pause.  A plausible error is to take over its
\* own intent.
IntentOfJump(v, intent) == intent

PauseAfterJump(v, intent) == IF v.pause = "explicit" THEN "explicit" ELSE intent

-----------------------------------------------------------------------------
(* The synchronous handlers: from a view to the views they may leave.        *)

\* noteOutcome, without what follows when the inspection ends.
\* A plausible error is to go on as attached.
StayAttached(v, outcome) == v.attached

AttachedAfter(v, outcome) == v.attached /\ ~outcome.trimmedTop

\* A plausible error is not to remember a trim.
ForgetTrim(v, outcome) == v.trimmed

TrimmedAfter(v, outcome) ==
    [d \in Direction |-> v.trimmed[d] \/ IF d = Back THEN outcome.trimmedBottom
                                                   ELSE outcome.trimmedTop]

\* A trim ends the inspection of a row that the window does not hold.
Gone(v, outcome) ==
    /\ outcome.trimmedTop \/ outcome.trimmedBottom
    /\ v.expanded \notin outcome.window.rows

Applied(v, outcome) ==
    [v EXCEPT !.window = outcome.window,
              !.attached = AttachedAfter(v, outcome),
              !.trimmed = TrimmedAfter(v, outcome),
              !.expanded = IF Gone(v, outcome) THEN NoRow ELSE @]

Drained(v) ==
    IF v.buffer = <<>> THEN {v}
    ELSE {Applied([v EXCEPT !.buffer = <<>>], outcome) :
            outcome \in InsertLive(v.window, ToSet(v.buffer))}

\* noteOutcome: an inspection that ends at the top of the list may resume.
Noted(v, outcome) ==
    LET applied == Applied(v, outcome)
        decision == NextPause(applied, "lastInspectionClosed")
    IN  IF Inspecting(v) /\ ~Inspecting(applied) /\ v.pinned
        THEN {[x EXCEPT !.pause = decision.pause] :
                x \in IF decision.flush THEN Drained(applied) ELSE {applied}}
        ELSE {applied}

\* flushBuffer.
Flushed(v) ==
    IF v.buffer = <<>> THEN {v}
    ELSE UNION {Noted([v EXCEPT !.buffer = <<>>], outcome) :
                  outcome \in InsertLive(v.window, ToSet(v.buffer))}

Decided(v, decision) ==
    {[x EXCEPT !.pause = decision.pause] : x \in IF decision.flush THEN Flushed(v) ELSE {v}}

\* The window catches up with the tail.
Reattached(v) ==
    LET now == [v EXCEPT !.attached = TRUE]
    IN  Decided(now, NextPause([now EXCEPT !.attached = FALSE], "reattached"))

\* onPageEnd of a page that is not stale.
Committed(v, page, outcome) ==
    LET noted == Noted([v EXCEPT !.exhausted[page.dir] = page.cont = NoPositions], outcome)
    IN  {[x EXCEPT !.trimmed[page.dir] = FALSE] :
            x \in UNION {IF ~y.attached /\ outcome.window.attached THEN Reattached(y) ELSE {y} :
                           y \in noted}}

\* resetWindow.
Cleared(v) ==
    [v EXCEPT !.window = EmptyWindow, !.attached = FALSE, !.expanded = NoRow,
              !.buffer = <<>>,
              !.exhausted = [d \in Direction |-> FALSE],
              !.trimmed = [d \in Direction |-> FALSE]]

-----------------------------------------------------------------------------
\* A page request replaces the one in flight, if any, takes back the offer to
\* continue, and clears the exhaustion of its direction.
Asked(dir, start, anchor) ==
    [step |-> "asked", dir |-> dir, start |-> start, anchor |-> anchor, from |-> start,
     rows |-> {}, cont |-> NoPositions, heads |-> NoHeads]

Loading(v, dir) == [v EXCEPT !.exhausted[dir] = FALSE, !.offer = NoDirection]

NoHistory == [origin |-> NoHeads, known |-> NoHeads, dropped |-> {}]

Init ==
    /\ head = FirstHead
    /\ tail = [p \in Partitions |-> NoOffset]
    /\ view = MountedView
    /\ request = Asked(Back, NoPositions, "now")
    /\ tailFrom = tail
    /\ history = NoHistory

\* loadOlder and loadNewer go ahead unless their side is exhausted and has not
\* been trimmed since, or has no cursor.
MayLoad(v, dir) ==
    /\ ~v.exhausted[dir] \/ v.trimmed[dir]
    /\ EdgeFor(v.window, dir) # NoPositions

Load(v, dir) ==
    /\ request' = Asked(dir, EdgeFor(v.window, dir), "none")
    /\ view' = Loading(v, dir)

world == <<head, tail, tailFrom>>

Produce(p) ==
    /\ head[p] < LastHead[p]
    /\ head' = [head EXCEPT ![p] = @ + 1]
    /\ UNCHANGED <<tail, tailFrom, view, request, history>>

\* The tail's consumer is assigned to the end of each partition, whenever that
\* end is looked up.
StartTail(p) ==
    /\ tail[p] = NoOffset
    /\ tail' = [tail EXCEPT ![p] = head[p]]
    /\ tailFrom' = [tailFrom EXCEPT ![p] = head[p]]
    /\ UNCHANGED <<head, view, request, history>>

\* A live row is merged when the window is attached and nothing holds it back,
\* else it joins the buffer, whose oldest row makes room.
Mergeable(v) == v.attached /\ v.pause = "none" /\ ~Inspecting(v)

Buffered(v, row) ==
    [v EXCEPT !.buffer = IF Len(@) < BufferCap THEN Append(@, row)
                         ELSE Append(Tail(@), row)]

Deliver(p) ==
    LET row == <<p, tail[p]>> IN
    /\ tail[p] # NoOffset
    /\ tail[p] < head[p]
    /\ tail' = [tail EXCEPT ![p] = @ + 1]
    /\ IF row \notin Rows THEN UNCHANGED <<view, history>>
       ELSE IF Mergeable(view)
       THEN /\ \E outcome \in InsertLive(view.window, {row}) : view' \in Noted(view, outcome)
            /\ UNCHANGED history
       ELSE /\ view' = Buffered(view, row)
            /\ history' = [history EXCEPT !.dropped = @ \cup
                             IF Len(view.buffer) < BufferCap THEN {} ELSE {Head(view.buffer)}]
    /\ UNCHANGED <<head, tailFrom, request>>

\* The backend reads the watermarks and serves the page: rows up to a new
\* position outward of the old one in every partition, as far as it likes
\* within the limit, but somewhere unless every partition is at its edge.
Anchored(anchor, start) ==
    CASE anchor = "now" -> start = head
      [] anchor = "beginning" -> start = [p \in Partitions |-> 0]
      [] anchor = "elsewhere" -> \A p \in Partitions : start[p] <= head[p]

Crossing(dir, from, to) ==
    {r \in Rows : /\ r[1] \in DOMAIN from
                  /\ IF dir = Back THEN to[r[1]] <= r[2] /\ r[2] < from[r[1]]
                                   ELSE from[r[1]] <= r[2] /\ r[2] < to[r[1]]}

Edge(dir, p) == IF dir = Back THEN 0 ELSE head[p]

\* A page from these positions; listed are the partitions whose offsets the
\* brokers gave.
ServedFrom(from, listed) ==
    \E to \in [DOMAIN from \cap listed ->
                 UNION {0 .. head[p] : p \in Partitions}] :
      LET start == [p \in DOMAIN to |-> from[p]]
          atEdge == \A p \in DOMAIN to : to[p] = Edge(request.dir, p)
          rows == Crossing(request.dir, start, to)
      IN  /\ \A p \in DOMAIN to : IF request.dir = Back THEN to[p] <= start[p]
                                  ELSE start[p] <= to[p] /\ to[p] <= head[p]
          /\ Cardinality(rows) <= Limit
          /\ atEdge \/ to # start
          /\ request' = [request EXCEPT !.step = "served", !.rows = rows, !.heads = head,
                                        !.from = from,
                                        !.cont = IF atEdge THEN NoPositions ELSE to]

Serve ==
    /\ request # NoRequest /\ request.step = "asked"
    /\ \E listed \in IF FlakyListing THEN SUBSET Partitions ELSE {Partitions} :
         IF request.start # NoPositions THEN ServedFrom(request.start, listed)
         ELSE \E from \in [Partitions -> UNION {0 .. head[p] : p \in Partitions}] :
                Anchored(request.anchor, from) /\ ServedFrom(from, listed)
    /\ UNCHANGED <<world, view, history>>

\* The page's error, a lost connection, or a click on cancel.
PageFails ==
    /\ request # NoRequest
    /\ request' = NoRequest
    /\ UNCHANGED <<world, view, history>>

Page == [dir |-> request.dir, start |-> request.start, rows |-> request.rows,
         cont |-> request.cont, attach |-> request.anchor = "now"]

\* decidePostPage, once a page has landed: an empty one goes on by itself until
\* the cap on iterations, when the user is offered to go on, and a filtered
\* one that is not full is offered too.
Offers(v) ==
    IF request.cont = NoPositions \/ Cardinality(request.rows) = Limit THEN {NoDirection}
    ELSE IF request.rows # {} THEN {NoDirection, request.dir}
    ELSE IF EdgeFor(v.window, request.dir) = NoPositions THEN {NoDirection} ELSE {request.dir}

\* What a landed page makes known of the window: where its anchor is, and the
\* heads at which it catches up first.
Recorded(attached) ==
    [history EXCEPT
        !.origin = IF request.start = NoPositions THEN request.from ELSE @,
        !.known = IF attached /\ @ = NoHeads THEN request.heads ELSE @]

Land ==
    /\ request # NoRequest /\ request.step = "served"
    /\ \E outcome \in InsertPage(view.window, Page) :
         /\ ~outcome.stale
         /\ \E v \in Committed(view, Page, outcome) :
              \E offer \in Offers(v) : view' = [v EXCEPT !.offer = offer]
         /\ history' = Recorded(outcome.window.attached)
    /\ request' = NoRequest
    /\ UNCHANGED world

\* The scan goes on, by itself or by the button that offers it.
Continue ==
    /\ request = NoRequest
    /\ view.offer # NoDirection
    /\ EdgeFor(view.window, view.offer) # NoPositions
    /\ Load(view, view.offer)
    /\ UNCHANGED <<world, history>>

\* A stale page is dropped and asked again from the window's own edge, until
\* the cap on iterations, when the user is offered to continue.
LandStale ==
    LET dir == request.dir
        distrusted == [view EXCEPT !.trimmed[dir] = TRUE,
                                   !.exhausted[dir] = request.cont = NoPositions]
    IN  /\ request # NoRequest /\ request.step = "served"
        /\ IsStale(view.window, dir, request.start)
        /\ IF EdgeFor(view.window, dir) # NoPositions
           THEN \/ Load(distrusted, dir)
                \/ view' = [distrusted EXCEPT !.offer = dir] /\ request' = NoRequest
           ELSE view' = distrusted /\ request' = NoRequest
        /\ UNCHANGED <<world, history>>

\* handleScroll: at the top, a pause may end and newer rows are loaded; away
\* from it, it begins; near the bottom older rows are loaded.  A short list is
\* at its top and at its bottom.
Scroll(pinned, nearBottom) ==
    LET decision == NextPause(view, IF pinned THEN "scrollPinnedTop" ELSE "scrollAwayFromTop")
    IN  /\ view.window.rows # {}
        /\ pinned /\ nearBottom => Cardinality(view.window.rows) <= Screenful
        /\ \E v \in Decided([view EXCEPT !.pinned = pinned], decision) :
             IF request # NoRequest
             THEN view' = v /\ UNCHANGED request
             ELSE IF nearBottom /\ MayLoad(v, Back)
             THEN Load(IF pinned /\ MayLoad(v, Forward) THEN Loading(v, Forward) ELSE v, Back)
             ELSE IF pinned /\ MayLoad(v, Forward)
             THEN Load(v, Forward)
             ELSE view' = v /\ UNCHANGED request
        /\ UNCHANGED <<world, history>>

\* The list shows the window's rows and those of the page in flight.
Shown == view.window.rows \cup IF request = NoRequest THEN {} ELSE request.rows

Expand(row) ==
    /\ view.expanded = NoRow
    /\ row \in Shown
    /\ view' = [view EXCEPT !.expanded = row]
    /\ UNCHANGED <<world, request, history>>

Collapse ==
    LET closed == [view EXCEPT !.expanded = NoRow]
    IN  /\ Inspecting(view)
        /\ view' \in IF view.pinned
                     THEN Decided(closed, NextPause(closed, "lastInspectionClosed"))
                     ELSE {closed}
        /\ UNCHANGED <<world, request, history>>

\* A jump, or a filter that settled: the window starts afresh.
Restart(v, dir, anchor) ==
    /\ view' = Loading(Cleared(v), dir)
    /\ request' = Asked(dir, NoPositions, anchor)
    /\ history' = NoHistory
    /\ UNCHANGED world

JumpToNow(v) ==
    Restart([v EXCEPT !.pause = PauseAfterJump(v, "none"), !.fromBeginning = FALSE],
            Back, "now")

JumpBack(anchor) ==
    Restart([view EXCEPT !.pause = PauseAfterJump(view, "auto"),
                         !.fromBeginning = anchor = "beginning"],
            Forward, anchor)

Refilter ==
    IF view.fromBeginning THEN Restart(view, Forward, "beginning")
                          ELSE Restart(view, Back, "now")

\* The pill shows while the buffer holds something; the button is always there.
Click(event) ==
    LET decision == NextPause(view, event) IN
    /\ event = "pillClick" => view.buffer # <<>>
    /\ IF decision.jump THEN JumpToNow(view)
       ELSE /\ view' \in Decided(view, decision)
            /\ UNCHANGED <<world, request, history>>

Next ==
    \/ \E p \in Partitions : Produce(p) \/ StartTail(p) \/ Deliver(p)
    \/ Serve \/ PageFails \/ Land \/ LandStale \/ Continue
    \/ \E pinned \in BOOLEAN, nearBottom \in BOOLEAN : Scroll(pinned, nearBottom)
    \/ \E row \in Rows : Expand(row)
    \/ Collapse
    \/ \E event \in {"pillClick", "toggleClick"} : Click(event)
    \/ JumpToNow(view)
    \/ \E anchor \in {"beginning", "elsewhere"} : JumpBack(anchor)
    \/ Refilter

Spec == Init /\ [][Next]_vars

-----------------------------------------------------------------------------
TypeOK ==
    /\ \A p \in Partitions : head[p] \in FirstHead[p] .. LastHead[p]
    /\ \A p \in Partitions : tail[p] = NoOffset \/ tail[p] \in 0 .. head[p]
    /\ WindowTypeOK(view.window, Rows, head)
    /\ view.attached \in BOOLEAN /\ view.pinned \in BOOLEAN
    /\ view.pause \in {"none", "auto", "explicit"}
    /\ view.expanded \in Rows \cup {NoRow}
    /\ view.offer \in Direction \cup {NoDirection}
    /\ Len(view.buffer) <= BufferCap /\ ToSet(view.buffer) \subseteq Rows

\* What the live stream never brings: rows produced after the page that caught
\* up was read and before the stream began.
Unseen ==
    {r \in Rows : /\ history.known # NoHeads
                  /\ history.known[r[1]] <= r[2]
                  /\ tailFrom[r[1]] = NoOffset \/ r[2] < tailFrom[r[1]]}

\* What it has yet to bring of what lies before the window's origin: a late row
\* that precedes them may be in the window already.
Awaited ==
    {r \in Rows : /\ r[2] < history.origin[r[1]]
                  /\ tail[r[1]] # NoOffset /\ tail[r[1]] <= r[2]}

Held == view.window.rows \cup ToSet(view.buffer)

\* Where a partition's part of the window begins and ends.
BottomOf(p) ==
    IF p \in DOMAIN view.window.bottom THEN view.window.bottom[p]
    ELSE IF p \in PartitionsOf(view.window.rows) THEN Lowest(view.window.rows)[p]
    ELSE history.origin[p]

TopOf(p) ==
    IF p \in DOMAIN view.window.top THEN view.window.top[p]
    ELSE IF p \in PartitionsOf(view.window.rows) THEN PastHighest(view.window.rows)[p]
    ELSE history.origin[p]

Within(r) == BottomOf(r[1]) <= r[2] /\ r[2] < TopOf(r[1])

Delivered(r) == tail[r[1]] # NoOffset /\ r[2] < tail[r[1]]

\* insertLive throws when the store is not attached: the view never takes
\* itself for attached when the store is not, whatever trims, late pages and
\* flushes did in between.
NeverThrows == view.attached => view.window.attached

\* Between its two edges the window skips no record, but for those it told were
\* dropped and those the live stream never brings or has yet to bring: what
\* trims, late pages and flushes took out is outside of the edges, where paging
\* brings it back.
WindowIsWhole ==
    history.origin # NoHeads =>
        \A r \in Rows : Within(r) => r \in Held \cup Unseen \cup history.dropped \cup Awaited

\* The same without the excuse that the live stream began late: a jump from one
\* row to the next is a span of holes in the log (the doc of insertLive).
NoRowSkipped ==
    history.origin # NoHeads =>
        \A r \in Rows : Within(r) => r \in Held \cup history.dropped

\* A window that says it shows the tail holds every record above its top edge
\* in the buffer, unless it was dropped there or is still to be delivered.
AttachedIsCaughtUp ==
    view.window.attached =>
        \A r \in Rows : r[2] >= TopOf(r[1]) /\ Delivered(r)
                            => r \in Held \cup Unseen \cup history.dropped

\* A reader of a detached window can go on towards the tail.
ReaderNotTrapped ==
    request = NoRequest /\ ~view.window.attached /\ view.window.rows # {} =>
        MayLoad(view, Forward)

\* What lies below the bottom edge, trimmed or never read, can be read (the doc
\* of createSlidingWindowStore).
BelowIsReachable ==
    request = NoRequest /\ (\E p \in DOMAIN view.window.bottom, r \in Rows :
                                r[1] = p /\ r[2] < view.window.bottom[p])
        => MayLoad(view, Back)

\* What is being inspected is on the screen: a pause for an inspection has a row
\* whose closing ends it (the comments of noteOutcome and resetWindow).
InspectedIsShown == Inspecting(view) => view.expanded \in Shown

\* Only its button lifts an explicit pause, whatever jumps, trims and late
\* pages happen meanwhile.
ExplicitPauseStands ==
    [][view.pause = "explicit" /\ view'.pause # "explicit" => Click("toggleClick")]_vars

\* While a row is inspected nothing merges the buffered rows around it but a
\* click of the reader, not even a page that catches up with the tail.
InspectionHoldsStill ==
    [][Inspecting(view) /\ Inspecting(view') /\ view.buffer # <<>> /\ view'.buffer = <<>>
         => Click("pillClick") \/ Click("toggleClick")]_vars

=============================================================================
