---------------------------- MODULE SlidingWindow ----------------------------
(***************************************************************************)
(* The browser's store of timeline rows (createSlidingWindowStore of       *)
(* timelineStore.ts): at most Cap rows, and per partition the position to  *)
(* read older rows from (bottom) and the one to read newer rows from       *)
(* (top).  A window is a record, an operation gives the set of outcomes it *)
(* may have: which rows of which partition a trim takes depends on their   *)
(* timestamps, and any interleaving of the partitions is possible.         *)
(***************************************************************************)
EXTENDS Integers, FiniteSets, FiniteSetsExt

CONSTANTS
    Cap,          \* the most rows a window holds
    NoPositions   \* no cursor

ASSUME CapAssumption == Cap \in Nat \ {0}

Back == "back"
Forward == "forward"
Direction == {Back, Forward}

\* A row is a pair of its partition and its offset.
PartitionsOf(rows) == {r[1] : r \in rows}
OffsetsOf(rows, p) == {r[2] : r \in {x \in rows : x[1] = p}}

Lowest(rows) == [p \in PartitionsOf(rows) |-> Min(OffsetsOf(rows, p))]
PastHighest(rows) == [p \in PartitionsOf(rows) |-> Max(OffsetsOf(rows, p)) + 1]

\* Position maps: one with the entries of another set over it, and two merged
\* by the lower or by the higher of their entries.
SetOver(map, entries) ==
    [p \in DOMAIN map \cup DOMAIN entries |->
        IF p \in DOMAIN entries THEN entries[p] ELSE map[p]]

Lowered(map, entries) ==
    SetOver(map, [p \in DOMAIN entries |->
        IF p \in DOMAIN map /\ map[p] < entries[p] THEN map[p] ELSE entries[p]])

Raised(map, entries) ==
    SetOver(map, [p \in DOMAIN entries |->
        IF p \in DOMAIN map /\ map[p] > entries[p] THEN map[p] ELSE entries[p]])

NoEntries == [p \in {} |-> 0]

EmptyWindow ==
    [rows |-> {}, bottom |-> NoEntries, top |-> NoEntries, attached |-> FALSE,
     topMatters |-> FALSE]

Outcome(window, top, bottom) ==
    [window |-> window, trimmedTop |-> top, trimmedBottom |-> bottom, stale |-> FALSE]

Rejected(window) ==
    [window |-> window, trimmedTop |-> FALSE, trimmedBottom |-> FALSE, stale |-> TRUE]

\* The n rows at the newest or at the oldest end of the merged view.
NewestRows(rows, n) ==
    {t \in kSubset(n, rows) :
        \A r \in t, x \in rows : x[1] = r[1] /\ x[2] > r[2] => x \in t}

OldestRows(rows, n) ==
    {t \in kSubset(n, rows) :
        \A r \in t, x \in rows : x[1] = r[1] /\ x[2] < r[2] => x \in t}

\* The top after a trim: the lowest row trimmed, and for the partitions it did
\* not touch what they still hold.
TopAfterTrim(top, trimmed, kept) ==
    SetOver(SetOver(top, PastHighest({r \in kept : r[1] \notin PartitionsOf(trimmed)})),
            Lowest(trimmed))

TrimTop(w, n) ==
    {Outcome([w EXCEPT !.rows = @ \ t,
                       !.top = TopAfterTrim(@, t, w.rows \ t),
                       !.attached = FALSE], TRUE, FALSE) : t \in NewestRows(w.rows, n)}

\* A plausible error is to leave the bottom where it was.
BottomForgotten(bottom, trimmed) == bottom

BottomAfterTrim(bottom, trimmed) == SetOver(bottom, PastHighest(trimmed))

TrimBottom(w, n) ==
    {Outcome([w EXCEPT !.rows = @ \ t,
                       !.bottom = BottomAfterTrim(@, t)], FALSE, TRUE) :
        t \in OldestRows(w.rows, n)}

\* The rows over the cap.  A plausible error is to allow one too many.
AllButOne(rows) == Cardinality(rows) - Cap - 1

Excess(rows) == Cardinality(rows) - Cap

\* The side opposite to the one that grew is trimmed.
EnforceCap(w, grew) ==
    CASE Excess(w.rows) <= 0 -> {Outcome(w, FALSE, FALSE)}
      [] Excess(w.rows) > 0 /\ grew = Back -> TrimTop(w, Excess(w.rows))
      [] Excess(w.rows) > 0 /\ grew = Forward -> TrimBottom(w, Excess(w.rows))

\* Has the edge moved past the positions a page was asked from?  A plausible
\* error is to trust every page.
NeverStale(w, dir, start) == FALSE

IsStale(w, dir, start) ==
    /\ start # NoPositions
    /\ \/ dir = Back /\ \E p \in DOMAIN start \cap DOMAIN w.bottom : w.bottom[p] > start[p]
       \/ dir = Forward /\ \E p \in DOMAIN start \cap DOMAIN w.top : w.top[p] < start[p]

\* The bottom and the top a page leaves behind: an anchor page seeds the
\* opposite side where nothing is known; the page's own side follows its rows
\* and then, when there is one, its continuation.
BottomAfterPage(w, page, new) ==
    IF page.dir = Forward
    THEN IF page.start = NoPositions THEN SetOver(Lowest(new), w.bottom) ELSE w.bottom
    ELSE SetOver(Lowered(w.bottom, Lowest(new)),
                 IF page.cont = NoPositions THEN NoEntries ELSE page.cont)

TopAfterPage(w, page, new) ==
    IF page.dir = Back
    THEN IF page.start = NoPositions THEN SetOver(PastHighest(new), w.top) ELSE w.top
    ELSE SetOver(Raised(w.top, PastHighest(new)),
                 IF page.cont = NoPositions THEN NoEntries ELSE page.cont)

\* A plausible error: every anchor page claims to show the tail.
AttachesAnywhere(page) == page.start = NoPositions \/ page.cont = NoPositions

Attaches(page) ==
    \/ page.dir = Back /\ page.start = NoPositions /\ page.attach
    \/ page.dir = Forward /\ page.cont = NoPositions

InsertPage(w, page) ==
    LET new == page.rows \ w.rows
    IN  IF IsStale(w, page.dir, page.start) THEN {Rejected(w)}
        ELSE EnforceCap(
               [rows |-> w.rows \cup new,
                bottom |-> BottomAfterPage(w, page, new),
                top |-> TopAfterPage(w, page, new),
                attached |-> w.attached \/ Attaches(page),
                topMatters |-> w.topMatters \/
                    (page.dir = Back /\ page.start = NoPositions /\ ~page.attach)],
               page.dir)

\* Live rows extend the top; what lies below the bottom is left out.
InsertLive(w, rows) ==
    LET safe == {r \in rows : r[1] \in DOMAIN w.bottom => r[2] >= w.bottom[r[1]]}
        new == safe \ w.rows
    IN  EnforceCap([w EXCEPT !.rows = @ \cup new, !.top = Raised(@, PastHighest(new))],
                   Forward)

\* edges(): the cursors minted from the maps.
BottomEdge(w) == IF DOMAIN w.bottom = {} THEN NoPositions ELSE w.bottom

TopEdge(w) ==
    IF \/ w.attached
       \/ DOMAIN w.top = {}
       \/ w.topMatters /\ ~(DOMAIN w.bottom \subseteq DOMAIN w.top)
    THEN NoPositions ELSE w.top

EdgeFor(w, dir) == IF dir = Back THEN BottomEdge(w) ELSE TopEdge(w)

WindowTypeOK(w, Rows, heads) ==
    /\ w.rows \subseteq Rows
    /\ Cardinality(w.rows) <= Cap
    /\ \A p \in DOMAIN w.bottom : w.bottom[p] \in 0 .. heads[p]
    /\ \A p \in DOMAIN w.top : w.top[p] \in 0 .. heads[p]
    /\ w.attached \in BOOLEAN /\ w.topMatters \in BOOLEAN

=============================================================================
