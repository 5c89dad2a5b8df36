--------------------------- MODULE MCTimelineView ---------------------------
(***************************************************************************)
(* Instances of TimelineView for TLC.  In the busy topic the live          *)
(* partition has three matching records, one more than a window holds, so  *)
(* that pages and live rows trim each other, and the quiet one has one,    *)
(* too old to be delivered live.  The young topic is the same one record   *)
(* earlier, for a live stream that begins late.  In the cold topic one     *)
(* partition is empty at first and gets its only record live.              *)
(***************************************************************************)
EXTENDS TimelineView, TLC

BusyRecords == 0 :> {0, 1, 2} @@ 1 :> {0}
BusyFirstHead == 0 :> 2 @@ 1 :> 1
BusyLastHead == 0 :> 3 @@ 1 :> 1

YoungFirstHead == 0 :> 1 @@ 1 :> 1

ColdRecords == 0 :> {0, 1} @@ 1 :> {0}
ColdFirstHead == 0 :> 1 @@ 1 :> 0
ColdLastHead == 0 :> 2 @@ 1 :> 1

=============================================================================
