--------------------------- MODULE MCTimelinePage ---------------------------
(***************************************************************************)
(* Two partitions of three and two offsets, with every placement of holes  *)
(* at one end, at the other and between, timestamps that agree or disagree *)
(* with offset order, and requests whose cursor is stale, out of range or  *)
(* names a partition the topic does not have.                              *)
(***************************************************************************)
EXTENDS ChunkOrder, TLC

MCPartitions == {0, 1, 2}

\* Timestamps as a function of the offset: rising, falling, all equal.
Rising == [o \in -1 .. 4 |-> o + 1]
Falling == [o \in -1 .. 4 |-> 5 - o]
Level == [o \in -1 .. 4 |-> 2]

Wide(recs, ts, hit) ==
    [lo |-> 1, hi |-> 4, recs |-> recs, ts |-> ts, hit |-> recs \cap hit]
Narrow(recs) ==
    [lo |-> 0, hi |-> 2, recs |-> recs, ts |-> Level, hit |-> recs \cap {0}]

MCLogs ==
    {0 :> Wide(r, t, {2, 3}) @@ 1 :> Narrow(n) :
        r \in {{1, 2, 3}, {1, 3}, {2}, {}}, t \in {Rising, Falling},
        n \in {{0, 1}, {0}}}

MCStartPositions ==
    { 0 :> 4 @@ 1 :> 2,             \* latest
      0 :> 1 @@ 1 :> 0,             \* beginning
      0 :> 3 @@ 1 :> 1,             \* a cursor in the middle
      0 :> 9 @@ 1 :> -1 @@ 2 :> 0 } \* stale, forged, another topic's

=============================================================================
