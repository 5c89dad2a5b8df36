--------------------------- MODULE TimelineWindow ---------------------------
(***************************************************************************)
(* The offset arithmetic of a timeline page, one operator per function of  *)
(* backend/src/message/timeline/window.rs plus the chunk sizing of         *)
(* engine.rs.  A list of (partition, offset) pairs is a function from a    *)
(* set of integer partition ids to offsets; the list order the code relies *)
(* on is the order of the ids, the order Kafka metadata gives them in.     *)
(***************************************************************************)
EXTENDS Integers, FiniteSets

Back == "back"
Forward == "forward"
Direction == {Back, Forward}

SmallerOf(a, b) == IF a <= b THEN a ELSE b
LargerOf(a, b) == IF a >= b THEN a ELSE b
Clamp(x, lo, hi) == IF x < lo THEN lo ELSE IF x > hi THEN hi ELSE x

\* A plausible error: the cursor is believed as it stands.
NoClamp(positions, wm) ==
    [p \in DOMAIN positions \cap DOMAIN wm |-> positions[p]]

\* A partition without a watermark is dropped, every other one is clamped.
ClampPositions(positions, wm) ==
    [p \in DOMAIN positions \cap DOMAIN wm |->
        Clamp(positions[p], wm[p].lo, wm[p].hi)]

AtEdge(pos, w, dir) == IF dir = Back THEN pos = w.lo ELSE pos = w.hi

Window(pos, w, dir, span) ==
    LET at == Clamp(pos, w.lo, w.hi)
    IN  IF dir = Back
        THEN [start |-> LargerOf(at - span, w.lo), end |-> at]
        ELSE [start |-> at, end |-> SmallerOf(at + span, w.hi)]

\* The windows adjacent to the positions; empty ones are omitted.
PageWindows(positions, wm, dir, span) ==
    LET w == [p \in DOMAIN positions |-> Window(positions[p], wm[p], dir, span)]
    IN  [p \in {q \in DOMAIN w : w[q].end > w[q].start} |-> w[p]]

\* The (partition, offset) pairs of some of the windows.  Counting them is how
\* a total width is defined: every width is a number of offsets.
WindowOffsets(windows, S) ==
    UNION {{p} \X (windows[p].start .. windows[p].end - 1) : p \in S}

TotalWidth(windows, S) == Cardinality(WindowOffsets(windows, S))

\* A plausible error: the floor of one record per partition is never capped.
NoCap(windows, cap) == windows

\* The longest prefix of the windows, in id order, whose total width fits.
CapWindowsToBudget(windows, cap) ==
    [p \in {q \in DOMAIN windows :
              TotalWidth(windows, {r \in DOMAIN windows : r <= q}) <= cap}
       |-> windows[p]]

AdjacentOffset(w, dir) == IF dir = Back THEN w.end - 1 ELSE w.start

ActivePartitions(positions, wm, dir) ==
    {p \in DOMAIN positions : ~AtEdge(positions[p], wm[p], dir)}

\* base is the limit on an unfiltered page's first chunk, CHUNK_SPAN otherwise.
ChunkWidth(base, remaining, active) ==
    LET share == LargerOf(remaining \div LargerOf(active, 1), 1)
    IN  LargerOf(SmallerOf(base, share), 1)

AllPartitionsAtEdge(positions, wm, dir) ==
    \A p \in DOMAIN positions : AtEdge(positions[p], wm[p], dir)

\* Offsets a reader moving outward from one position to another passes over.
Between(from, to, dir) == IF dir = Back THEN to .. from - 1 ELSE from .. to - 1

\* The offsets a chunk moved over, whichever way, and how many they are.
Crossed(old, new) ==
    UNION {{p} \X (SmallerOf(old[p], new[p]) .. LargerOf(old[p], new[p]) - 1) :
             p \in DOMAIN old}

\* A plausible error: a subtraction with the forward sign.
SignedCharge(old, new) ==
    IF \E p \in DOMAIN old : new[p] < old[p]
    THEN 0 - Cardinality(Crossed(old, new)) ELSE Cardinality(Crossed(old, new))

Charge(old, new) == Cardinality(Crossed(old, new))

=============================================================================
