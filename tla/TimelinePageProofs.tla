------------------------- MODULE TimelinePageProofs -------------------------
(***************************************************************************)
(* Proofs about TimelinePage, for every topic content, request and fetch   *)
(* outcome.  The inductive invariant says, chunk by chunk, what the merge  *)
(* holds: each stream is a gap-free stretch of its window starting where   *)
(* the records already popped end.  The order in which a chunk is sent     *)
(* (ChunkOrder) follows by induction on how much of it is left.            *)
(***************************************************************************)
EXTENDS ChunkOrder, FiniteSetTheorems, SequenceTheorems, WellFoundedInduction, TLAPS

Running == pc \notin {"start", "gone"}
InChunk == pc \in {"scan", "merge"}

RequestOK ==
    /\ log \in Logs
    /\ req \in [dir : Direction, filtered : BOOLEAN, limit : Limits,
                budget : Budgets, positions : StartPositions]
    /\ pc \in States

\* Both ends of the stretch the page has covered lie within the watermarks.
PositionsOK ==
    pc # "start" =>
        /\ DOMAIN pos \subseteq DOMAIN log
        /\ DOMAIN start = DOMAIN pos
        /\ \A p \in DOMAIN pos :
             /\ start[p] \in log[p].lo .. log[p].hi
             /\ pos[p] \in log[p].lo .. log[p].hi
             /\ req.dir = Back => pos[p] <= start[p]
             /\ req.dir = Forward => start[p] <= pos[p]

\* A window is adjacent to its partition's position, on the outward side.
WindowsOK ==
    InChunk =>
        /\ DOMAIN windows \subseteq DOMAIN pos
        /\ \A p \in DOMAIN windows :
             /\ windows[p].start \in Int
             /\ windows[p].end \in Int
             /\ log[p].lo <= windows[p].start
             /\ windows[p].start < windows[p].end
             /\ windows[p].end <= log[p].hi
             /\ req.dir = Back => windows[p].end = pos[p]
             /\ req.dir = Forward => windows[p].start = pos[p]

\* How far the merge has got in a window: the position a partition would have
\* if it took no shortcut to the window boundary.
Reach(p) ==
    IF takenMin[p] = NoOffset THEN pos[p]
    ELSE IF req.dir = Back THEN takenMin[p] ELSE takenMax[p] + 1

Ahead(p, o) ==
    IF req.dir = Back THEN windows[p].start <= o /\ o < Reach(p)
                      ELSE Reach(p) <= o /\ o < windows[p].end

NoFurther(o, x) == IF req.dir = Back THEN x <= o ELSE o <= x

StreamOK(p) ==
    /\ streams[p] \subseteq log[p].recs
    /\ \A o \in streams[p] : Ahead(p, o)
    /\ \A o \in streams[p], x \in log[p].recs :
         Ahead(p, x) /\ NoFurther(x, o) => x \in streams[p]
    /\ p \in complete => \A x \in log[p].recs : Ahead(p, x) => x \in streams[p]

TakenOK(p) ==
    /\ takenMin[p] = NoOffset <=> takenMax[p] = NoOffset
    /\ takenMin[p] # NoOffset =>
         /\ takenMin[p] \in windows[p].start .. windows[p].end - 1
         /\ takenMax[p] \in windows[p].start .. windows[p].end - 1

Reached == [p \in DOMAIN windows |-> Reach(p)]
AtWindows == [p \in DOMAIN windows |-> pos[p]]
HitsOK == hits = Covered(AtWindows, Reached)

MergeOK ==
    pc = "merge" =>
        /\ DOMAIN streams = DOMAIN windows
        /\ streams = [p \in DOMAIN windows |-> streams[p]]
        /\ takenMin = [p \in DOMAIN windows |-> takenMin[p]]
        /\ takenMax = [p \in DOMAIN windows |-> takenMax[p]]
        /\ complete \subseteq DOMAIN windows
        /\ \A p \in DOMAIN windows : StreamOK(p) /\ TakenOK(p)
        /\ HitsOK

ExactOK ==
    /\ pc = "start" =>
         delivered = {} /\ start = <<>> /\ pos = <<>> /\ windows = <<>>
    /\ Running => delivered = Covered(start, pos)

IInv ==
    /\ TypeOK /\ IsFiniteSet(hits)
    /\ RequestOK /\ PositionsOK /\ WindowsOK /\ MergeOK /\ ExactOK

-----------------------------------------------------------------------------
\* The pairs of a covered stretch, one by one.
LEMMA InCovered ==
    ASSUME NEW from, NEW to, NEW h
    PROVE  h \in Covered(from, to) <=>
             \E p \in DOMAIN from : \E o \in log[p].recs :
                 /\ h = <<p, o>>
                 /\ o \in Between(from[p], to[p], req.dir)
                 /\ IsMatch(p, o)
BY DEF Covered

LEMMA LogFacts ==
    ASSUME RequestOK
    PROVE  /\ DOMAIN log \subseteq Partitions
           /\ req.dir \in {Back, Forward}
           /\ Back # Forward
           /\ \A p \in DOMAIN log :
                /\ log[p].lo \in Int /\ log[p].hi \in Int
                /\ log[p].lo <= log[p].hi
                /\ \A o \in log[p].recs : /\ o \in Int
                                          /\ log[p].lo <= o
                                          /\ o < log[p].hi
BY LogsAssumption DEF RequestOK, Direction, Back, Forward


LEMMA FiniteStretches ==
    ASSUME NEW S, IsFiniteSet(S), NEW a, NEW b,
           \A p \in S : a[p] \in Int /\ b[p] \in Int
    PROVE  IsFiniteSet(UNION {{p} \X (a[p] .. b[p]) : p \in S})
<1> DEFINE T == {{p} \X (a[p] .. b[p]) : p \in S}
           f == [p \in S |-> {p} \X (a[p] .. b[p])]
<1>1. f \in Surjection(S, T)
  BY DEF Surjection
<1>2. IsFiniteSet(T)
  BY <1>1, FS_Surjection
<1>3. \A t \in T : IsFiniteSet(t)
  <2>1. SUFFICES ASSUME NEW p \in S
                 PROVE  IsFiniteSet({p} \X (a[p] .. b[p]))
    OBVIOUS
  <2>2. IsFiniteSet({p}) /\ IsFiniteSet(a[p] .. b[p])
    BY FS_Singleton, FS_Interval
  <2>3. QED
    BY <2>2, FS_Product
<1>4. QED
  BY <1>2, <1>3, FS_UNION

\* A chunk charges a natural number of offsets.
LEMMA ChargeType ==
    ASSUME NEW old, NEW new, IsFiniteSet(DOMAIN old),
           \A p \in DOMAIN old : old[p] \in Int /\ new[p] \in Int
    PROVE  Charge(old, new) \in Nat
<1> DEFINE a == [p \in DOMAIN old |-> SmallerOf(old[p], new[p])]
           b == [p \in DOMAIN old |-> LargerOf(old[p], new[p]) - 1]
<1>1. \A p \in DOMAIN old : a[p] \in Int /\ b[p] \in Int
  BY DEF SmallerOf, LargerOf
<1>2. IsFiniteSet(UNION {{p} \X (a[p] .. b[p]) : p \in DOMAIN old})
  <2> HIDE DEF a, b
  <2> QED BY <1>1, FiniteStretches
<1>3. Crossed(old, new) = UNION {{p} \X (a[p] .. b[p]) : p \in DOMAIN old}
  BY DEF Crossed
<1>4. QED
  BY <1>2, <1>3, FS_CardinalityType DEF Charge

\* The width of a chunk's windows is an integer.
LEMMA PlannedSpan ==
    ASSUME IInv, pc = "loop"
    PROVE  ChunkWidth(IF ~req.filtered /\ first THEN req.limit ELSE ChunkSpan,
                      Budget - scanned,
                      Cardinality(ActivePartitions(pos, Wm, req.dir))) \in Int
<1> DEFINE remaining == Budget - scanned
           base == IF ~req.filtered /\ first THEN req.limit ELSE ChunkSpan
           active == Cardinality(ActivePartitions(pos, Wm, req.dir))
<1>0. scanned \in Nat /\ req.budget \in Nat /\ req.limit \in Nat
  <2>1. req.budget \in Budgets /\ req.limit \in Limits
    BY DEF IInv, TypeOK
  <2>2. QED
    BY <2>1, ConstantsAssumption DEF IInv, TypeOK
<1>1. remaining \in Int
  BY <1>0 DEF Budget, LargerOf
<1>2. base \in Int
  BY <1>0, ConstantsAssumption
<1>3. active \in Nat
  <2>1. DOMAIN pos \subseteq Partitions
    BY LogFacts DEF IInv, PositionsOK
  <2>2. ActivePartitions(pos, Wm, req.dir) \subseteq Partitions
    BY <2>1 DEF ActivePartitions
  <2>3. IsFiniteSet(ActivePartitions(pos, Wm, req.dir))
    BY <2>2, ConstantsAssumption, FS_Subset
  <2>4. QED
    BY <2>3, FS_CardinalityType
<1> HIDE DEF remaining, base, active
<1>4. LargerOf(active, 1) \in Nat \ {0}
  BY <1>3 DEF LargerOf
<1>5. remaining \div LargerOf(active, 1) \in Int
  BY <1>1, <1>4
<1>6. ChunkWidth(base, remaining, active) \in Int
  BY <1>2, <1>5 DEF ChunkWidth, LargerOf, SmallerOf
<1>7. QED
  BY <1>6 DEF base, remaining, active

\* The windows a chunk plans are non-empty, within the watermarks and
\* adjacent to the positions.
LEMMA PlannedWindowsOK ==
    ASSUME IInv, pc = "loop"
    PROVE  /\ DOMAIN PlannedWindows \subseteq DOMAIN pos
           /\ \A p \in DOMAIN PlannedWindows :
                /\ PlannedWindows[p].start \in Int
                /\ PlannedWindows[p].end \in Int
                /\ log[p].lo <= PlannedWindows[p].start
                /\ PlannedWindows[p].start < PlannedWindows[p].end
                /\ PlannedWindows[p].end <= log[p].hi
                /\ req.dir = Back => PlannedWindows[p].end = pos[p]
                /\ req.dir = Forward => PlannedWindows[p].start = pos[p]
<1> DEFINE remaining == Budget - scanned
           base == IF ~req.filtered /\ first THEN req.limit ELSE ChunkSpan
           active == Cardinality(ActivePartitions(pos, Wm, req.dir))
           span == ChunkWidth(base, remaining, active)
           wins == PageWindows(pos, Wm, req.dir, span)
<1>1. PlannedWindows = CapWindowsToBudget(wins, remaining)
  BY DEF PlannedWindows
<1>2. span \in Int
  BY PlannedSpan
<1> HIDE DEF remaining, span
<1>3. \A p \in DOMAIN wins :
        /\ p \in DOMAIN pos
        /\ wins[p] = Window(pos[p], Wm[p], req.dir, span)
        /\ wins[p].end > wins[p].start
  BY DEF PageWindows
<1>4. \A p \in DOMAIN PlannedWindows :
        p \in DOMAIN wins /\ PlannedWindows[p] = wins[p]
  BY <1>1 DEF CapWindowsToBudget
<1>5. ASSUME NEW p \in DOMAIN pos
      PROVE  LET w == Window(pos[p], Wm[p], req.dir, span)
             IN  /\ w.start \in Int /\ w.end \in Int
                 /\ log[p].lo <= w.start
                 /\ w.end <= log[p].hi
                 /\ req.dir = Back => w.end = pos[p]
                 /\ req.dir = Forward => w.start = pos[p]
  <2>1. /\ p \in DOMAIN log
        /\ Wm[p] = [lo |-> log[p].lo, hi |-> log[p].hi]
        /\ log[p].lo \in Int /\ log[p].hi \in Int
        /\ pos[p] \in log[p].lo .. log[p].hi
    BY LogFacts DEF IInv, PositionsOK, Wm
  <2>2. Clamp(pos[p], Wm[p].lo, Wm[p].hi) = pos[p]
    BY <2>1 DEF Clamp
  <2>3. CASE req.dir = Back
    BY <1>2, <2>1, <2>2, <2>3 DEF Window, LargerOf, Back, Forward
  <2>4. CASE req.dir = Forward
    BY <1>2, <2>1, <2>2, <2>4 DEF Window, SmallerOf, Back, Forward
  <2>5. QED
    BY <2>3, <2>4, LogFacts DEF IInv
<1> HIDE DEF wins
<1>6. ASSUME NEW p \in DOMAIN PlannedWindows
      PROVE  /\ p \in DOMAIN pos
             /\ PlannedWindows[p] = Window(pos[p], Wm[p], req.dir, span)
             /\ PlannedWindows[p].end > PlannedWindows[p].start
  BY <1>3, <1>4
<1>7. QED
  BY <1>5, <1>6

LEMMA InitInv == Init => IInv
<1> SUFFICES ASSUME Init PROVE IInv
  OBVIOUS
<1>1. pc = "start" /\ RequestOK
  BY DEF Init, RequestOK, States
<1>2. TypeOK
  <2>1. DOMAIN pos = {} /\ DOMAIN windows = {} /\ complete = {}
    BY DEF Init
  <2>2. QED
    BY <1>1, <2>1 DEF Init, TypeOK, RequestOK
<1>3. IsFiniteSet(hits)
  BY FS_EmptySet DEF Init
<1>4. PositionsOK /\ WindowsOK /\ MergeOK /\ ExactOK
  BY <1>1 DEF Init, PositionsOK, WindowsOK, MergeOK, ExactOK, InChunk, Running
<1>5. QED
  BY <1>1, <1>2, <1>3, <1>4 DEF IInv

LEMMA StartPageInv == IInv /\ StartPage => IInv'
<1> SUFFICES ASSUME IInv, StartPage PROVE IInv'
  OBVIOUS
<1> USE LogFacts
<1>1. /\ log' = log /\ req' = req /\ pc' = "loop" /\ start' = pos'
      /\ pos' = ClampPositions(req.positions, Wm)
  BY DEF StartPage, request
<1>2. DOMAIN pos' \subseteq DOMAIN log
  BY <1>1 DEF ClampPositions, Wm
<1>3. ASSUME NEW p \in DOMAIN pos'
      PROVE  pos'[p] \in log[p].lo .. log[p].hi
  <2>1. p \in DOMAIN req.positions /\ p \in DOMAIN log
    BY <1>1, <1>3 DEF ClampPositions, Wm
  <2>2. req.positions[p] \in Int
    BY <2>1, PositionsAssumption DEF IInv, TypeOK
  <2>3. pos'[p] = Clamp(req.positions[p], log[p].lo, log[p].hi)
    BY <1>1, <1>3 DEF ClampPositions, Wm
  <2>4. QED
    BY <2>1, <2>2, <2>3 DEF Clamp, IInv
<1>4. PositionsOK'
  BY <1>1, <1>2, <1>3 DEF PositionsOK, IInv
<1>5. delivered' = {}
  BY DEF StartPage, channel, IInv, ExactOK
<1>6. Covered(start', pos') = {}
  <2>1. \A p \in DOMAIN start' : Between(start'[p], pos'[p], req.dir) = {}
    BY <1>1, <1>3 DEF Between, IInv
  <2>2. QED
    BY <2>1, InCovered
<1>7. Covered(start, pos)' = Covered(start', pos')
  BY <1>1 DEF Covered, IsMatch
<1>8. ExactOK'
  BY <1>1, <1>5, <1>6, <1>7 DEF ExactOK
<1>9. TypeOK'
  <2>1. windows' = windows /\ complete' = complete /\ UNCHANGED <<totals, channel, popped, exhausted, gone>>
    BY DEF StartPage, chunk
  <2>2. \A p \in DOMAIN pos' : pos'[p] \in Int
    BY <1>3, <1>2 DEF IInv
  <2>3. DOMAIN windows' \subseteq DOMAIN pos'
    BY <2>1 DEF StartPage, IInv, ExactOK
  <2>4. QED
    BY <1>1, <1>2, <2>1, <2>2, <2>3 DEF IInv, TypeOK, States, totals, channel
<1>10. (RequestOK /\ WindowsOK /\ MergeOK)' /\ IsFiniteSet(hits)'
  BY <1>1 DEF StartPage, chunk, IInv, RequestOK, WindowsOK, MergeOK, InChunk, States
<1>11. QED
  BY <1>4, <1>8, <1>9, <1>10 DEF IInv

\* Steps that only move the program counter.
LEMMA ControlInv ==
    IInv /\ (LeaveLoop \/ StopIfCancelled \/ ScanFails \/ StallChunk
              \/ SendPageEnd \/ Disconnect \/ UNCHANGED vars) => IInv'
<1> SUFFICES ASSUME IInv,
                    LeaveLoop \/ StopIfCancelled \/ ScanFails \/ StallChunk
                      \/ SendPageEnd \/ Disconnect \/ UNCHANGED vars
             PROVE  IInv'
  OBVIOUS
<1>1. /\ UNCHANGED <<log, req, start, pos, totals, chunk, exhausted, delivered, progress>>
      /\ pc' \in States /\ gone' \in BOOLEAN
      /\ pc' = pc \/ pc' \notin {"start", "scan", "merge"}
      /\ pc = "start" => pc' = "start"
  BY DEF LeaveLoop, StopIfCancelled, ScanFails, StallChunk, SendPageEnd,
         Disconnect, vars, request, totals, chunk, channel, IInv, TypeOK,
         RequestOK, States
<1>2. TypeOK' /\ IsFiniteSet(hits)'
  BY <1>1 DEF IInv, TypeOK, totals, chunk
<1>3. PositionsOK'
  BY <1>1 DEF IInv, PositionsOK
<1>4. WindowsOK'
  BY <1>1 DEF IInv, WindowsOK, InChunk, chunk
<1>5. MergeOK'
  <2>1. SUFFICES ASSUME pc' = "merge" PROVE MergeOK'
    BY DEF MergeOK
  <2>2. MergeOK /\ pc = "merge"
    BY <1>1, <2>1 DEF IInv
  <2>3. UNCHANGED <<log, req, pos, windows, complete, streams, takenMin, takenMax, hits>>
    BY <1>1 DEF chunk
  <2>4. \A p \in DOMAIN windows : StreamOK(p)' /\ TakenOK(p)'
    <3>1. \A p \in DOMAIN windows : StreamOK(p) /\ TakenOK(p)
      BY <2>2 DEF MergeOK
    <3>2. \A p, x : Ahead(p, x)' <=> Ahead(p, x)
      BY <2>3 DEF Ahead, Reach
    <3>3. \A p : StreamOK(p)' <=> StreamOK(p)
      BY <2>3, <3>2, Zenon DEF StreamOK, NoFurther
    <3>4. \A p : TakenOK(p)' <=> TakenOK(p)
      BY <2>3 DEF TakenOK
    <3>5. QED
      BY <2>3, <3>1, <3>3, <3>4
  <2>5. HitsOK'
    <3>1. AtWindows' = AtWindows /\ Reached' = Reached
      BY <2>3 DEF AtWindows, Reached, Reach
    <3>2. Covered(AtWindows, Reached)' = Covered(AtWindows, Reached)
      BY <2>3, <3>1 DEF Covered, IsMatch
    <3>3. QED
      BY <2>2, <2>3, <3>2 DEF MergeOK, HitsOK
  <2>6. QED
    BY <2>2, <2>3, <2>4, <2>5 DEF MergeOK
<1>6. Running' => Running \/ pc = "gone"
  BY <1>1 DEF Running
<1>7. pc = "gone" => pc' = "gone"
  BY DEF LeaveLoop, StopIfCancelled, ScanFails, StallChunk, SendPageEnd,
         Disconnect, Stopped, vars
<1>8. ExactOK'
  <2>1. Covered(start, pos)' = Covered(start, pos)
    BY <1>1 DEF Covered, IsMatch
  <2>2. QED
    BY <1>1, <1>6, <1>7, <2>1 DEF IInv, ExactOK, Running, chunk
<1>9. RequestOK'
  BY <1>1 DEF IInv, RequestOK
<1>10. QED
  BY <1>2, <1>3, <1>4, <1>5, <1>8, <1>9 DEF IInv

LEMMA PlanChunkInv == IInv /\ PlanChunk => IInv'
<1> SUFFICES ASSUME IInv, PlanChunk PROVE IInv'
  OBVIOUS
<1>1. /\ UNCHANGED <<log, req, start, pos, totals, complete, popped, hits, gone,
                     delivered, progress>>
      /\ windows' = PlannedWindows
      /\ pc = "loop" /\ pc' \in {"scan", "finish"}
      /\ exhausted' \in BOOLEAN
  BY DEF PlanChunk, request, channel, IInv, TypeOK
<1>2. WindowsOK'
  BY <1>1, PlannedWindowsOK DEF WindowsOK
<1>3. TypeOK' /\ IsFiniteSet(hits)'
  BY <1>1, PlannedWindowsOK DEF IInv, TypeOK, totals, States
<1>4. PositionsOK' /\ RequestOK' /\ MergeOK'
  BY <1>1 DEF IInv, PositionsOK, RequestOK, MergeOK, States
<1>5. Covered(start, pos)' = Covered(start, pos)
  BY <1>1 DEF Covered, IsMatch
<1>6. ExactOK'
  BY <1>1, <1>5 DEF IInv, ExactOK, Running
<1>7. QED
  BY <1>2, <1>3, <1>4, <1>6 DEF IInv

\* What a fetch hands over is a gap-free stretch of every trusted window: a
\* prefix that is not complete is trusted only from its near end.
LEMMA ScanChunkInv == IInv /\ ScanChunk => IInv'
<1> SUFFICES ASSUME IInv, ScanChunk PROVE IInv'
  OBVIOUS
<1>1. /\ UNCHANGED <<log, req, start, pos, totals, windows, exhausted, gone,
                     delivered, progress>>
      /\ pc = "scan" /\ pc' = "merge"
      /\ takenMin' = [p \in DOMAIN windows |-> NoOffset]
      /\ takenMax' = [p \in DOMAIN windows |-> NoOffset]
      /\ popped' = 0 /\ hits' = {}
  BY DEF ScanChunk, request, channel
<1>2. PICK done \in SUBSET DOMAIN windows,
           upto \in [DOMAIN windows ->
                        UNION {windows[p].start .. windows[p].end :
                                 p \in DOMAIN windows}] :
        /\ FetchOutcome(done, upto)
        /\ complete' = done
        /\ streams' = [p \in DOMAIN windows |->
                         TrustedStream(windows[p],
                                       {o \in InWindow(p) : o < upto[p]},
                                       p \in done, req.dir)]
  BY DEF ScanChunk
<1>3. WindowsOK /\ PositionsOK /\ RequestOK /\ InChunk
  BY <1>1 DEF IInv, InChunk
<1>4. ASSUME NEW p \in DOMAIN windows
      PROVE  StreamOK(p)' /\ TakenOK(p)'
  <2>1. TakenOK(p)'
    BY <1>1 DEF TakenOK
  <2>2. /\ windows[p].start \in Int /\ windows[p].end \in Int
        /\ windows[p].start < windows[p].end
        /\ p \in DOMAIN pos /\ p \in DOMAIN log /\ pos[p] \in Int
        /\ req.dir = Back => windows[p].end = pos[p]
        /\ req.dir = Forward => windows[p].start = pos[p]
    BY <1>1, <1>3, LogFacts DEF WindowsOK, PositionsOK
  <2>3. \A o \in log[p].recs : o \in Int
    BY <2>2, <1>3, LogFacts
  <2>4. \A o : Ahead(p, o)' <=> windows[p].start <= o /\ o < windows[p].end
    BY <1>1, <1>3, <2>2, LogFacts DEF Ahead, Reach
  <2> DEFINE fetched == {o \in InWindow(p) : o < upto[p]}
  <2>5. /\ upto[p] \in windows[p].start .. windows[p].end
        /\ p \in done => upto[p] = windows[p].end
    BY <1>2 DEF FetchOutcome
  <2>6. streams'[p] = IF p \in done \/ AdjacentOffset(windows[p], req.dir) \in fetched
                      THEN fetched ELSE {}
    BY <1>2 DEF TrustedStream
  <2>7. \A o : o \in fetched <=>
          o \in log[p].recs /\ windows[p].start <= o /\ o < windows[p].end /\ o < upto[p]
    BY DEF InWindow
  <2> HIDE DEF fetched
  <2>8. streams'[p] \subseteq log[p].recs /\ \A o \in streams'[p] : Ahead(p, o)'
    BY <2>4, <2>6, <2>7
  <2>9. p \in done => \A x \in log[p].recs : Ahead(p, x)' => x \in streams'[p]
    BY <2>3, <2>4, <2>5, <2>6, <2>7
  <2>10. ASSUME NEW o \in streams'[p], NEW x \in log[p].recs,
                Ahead(p, x)', NoFurther(x, o)'
         PROVE  x \in streams'[p]
    <3>1. streams'[p] = fetched
      BY <2>6
    <3>2. CASE req.dir = Back /\ p \notin done
      <4>1. windows[p].end - 1 \in fetched
        BY <2>6, <3>2 DEF AdjacentOffset
      <4>2. upto[p] = windows[p].end
        BY <4>1, <2>7, <2>5, <2>2
      <4>3. QED
        BY <3>1, <4>2, <2>7, <2>4, <2>10
    <3>3. CASE req.dir = Forward /\ p \notin done
      <4>1. x <= o /\ o < upto[p] /\ o \in Int /\ x \in Int
        BY <1>1, <3>1, <3>3, <2>10, <2>7, <2>3 DEF NoFurther, Back, Forward
      <4>2. QED
        BY <3>1, <4>1, <2>7, <2>4, <2>5, <2>2, <2>10
    <3>4. CASE p \in done
      BY <3>4, <2>9, <2>10
    <3>5. QED
      BY <3>2, <3>3, <3>4, <1>3, LogFacts
  <2>11. QED
    BY <1>1, <1>2, <2>1, <2>8, <2>9, <2>10 DEF StreamOK
<1>5. HitsOK'
  <2>1. \A p \in DOMAIN windows : Reach(p)' = pos[p]
    BY <1>1 DEF Reach
  <2>2. AtWindows' = [p \in DOMAIN windows |-> pos[p]]
        /\ Reached' = [p \in DOMAIN windows |-> pos[p]]
    BY <1>1, <2>1 DEF AtWindows, Reached
  <2>3. Covered(AtWindows, Reached)' = Covered(AtWindows', Reached')
    BY <1>1 DEF Covered, IsMatch
  <2>4. \A p \in DOMAIN windows : Between(pos[p], pos[p], req.dir) = {}
    BY <1>3, LogFacts DEF Between, WindowsOK, PositionsOK
  <2>5. Covered(AtWindows', Reached') = {}
    <3> DEFINE here == [p \in DOMAIN windows |-> pos[p]]
    <3>1. \A p \in DOMAIN here : Between(here[p], here[p], req.dir) = {}
      BY <2>4
    <3> HIDE DEF here
    <3>2. Covered(here, here) = {}
      BY <3>1, InCovered
    <3>3. QED
      BY <2>2, <3>2 DEF here
  <2>6. QED
    BY <1>1, <2>3, <2>5 DEF HitsOK
<1>6. MergeOK'
  <2>1. /\ streams' = [p \in DOMAIN windows |-> streams'[p]]
        /\ DOMAIN streams' = DOMAIN windows
    BY <1>2
  <2>2. QED
    BY <1>1, <1>2, <1>4, <1>5, <2>1 DEF MergeOK
<1>7. TypeOK' /\ IsFiniteSet(hits)'
  <2>1. complete' \subseteq DOMAIN log
    BY <1>2, <1>3 DEF WindowsOK, PositionsOK, IInv, TypeOK
  <2>2. QED
    BY <1>1, <2>1, FS_EmptySet DEF IInv, TypeOK, States, totals
<1>8. PositionsOK' /\ RequestOK' /\ WindowsOK'
  BY <1>1, <1>3 DEF PositionsOK, RequestOK, WindowsOK, InChunk, States
<1>9. Covered(start, pos)' = Covered(start, pos)
  BY <1>1 DEF Covered, IsMatch
<1>10. ExactOK'
  BY <1>1, <1>9 DEF IInv, ExactOK, Running
<1>11. QED
  BY <1>6, <1>7, <1>8, <1>10 DEF IInv

\* What the merge invariant says of one window, in plain arithmetic.
LEMMA MergeFacts ==
    ASSUME IInv, pc = "merge", NEW p \in DOMAIN windows
    PROVE  /\ p \in DOMAIN pos /\ p \in DOMAIN log
           /\ pos[p] \in Int /\ start[p] \in Int
           /\ windows[p].start \in Int /\ windows[p].end \in Int
           /\ Reach(p) \in Int
           /\ req.dir = Back =>
                windows[p].end = pos[p] /\ windows[p].start <= Reach(p) /\ Reach(p) <= pos[p]
           /\ req.dir = Forward =>
                windows[p].start = pos[p] /\ pos[p] <= Reach(p) /\ Reach(p) <= windows[p].end
           /\ \A o \in log[p].recs : o \in Int
           /\ StreamOK(p) /\ TakenOK(p)
<1>1. /\ WindowsOK /\ PositionsOK /\ MergeOK /\ RequestOK /\ InChunk
  BY DEF IInv, InChunk
<1>2. /\ p \in DOMAIN pos /\ p \in DOMAIN log
      /\ pos[p] \in Int /\ start[p] \in Int
      /\ windows[p].start \in Int /\ windows[p].end \in Int
      /\ windows[p].start < windows[p].end
      /\ req.dir = Back => windows[p].end = pos[p]
      /\ req.dir = Forward => windows[p].start = pos[p]
      /\ \A o \in log[p].recs : o \in Int
  BY <1>1, LogFacts DEF WindowsOK, PositionsOK
<1>3. StreamOK(p) /\ TakenOK(p)
  BY <1>1 DEF MergeOK
<1>4. req.dir = Back \/ req.dir = Forward
  BY <1>1, LogFacts
<1>5. CASE takenMin[p] = NoOffset
  BY <1>2, <1>3, <1>4, <1>5 DEF Reach
<1>6. CASE takenMin[p] # NoOffset
  BY <1>2, <1>3, <1>4, <1>6 DEF Reach, TakenOK, Back, Forward
<1>7. QED
  BY <1>2, <1>3, <1>5, <1>6

\* Popping a front moves the reach of its partition to that record, and no
\* record lies between the two.
LEMMA MergeOneInv == IInv /\ MergeOne => IInv'
<1> SUFFICES ASSUME IInv, MergeOne PROVE IInv'
  OBVIOUS
<1>1. /\ UNCHANGED <<log, req, start, pos, totals, windows, complete, exhausted,
                     gone, delivered>>
      /\ pc = "merge" /\ pc' \in {"merge", "gone"}
      /\ popped' = popped + 1
  BY DEF MergeOne, request
<1> DEFINE Pop(p, o) ==
        /\ IsBestFront(p, o)
        /\ streams' = [streams EXCEPT ![p] = @ \ {o}]
        /\ takenMin' = [takenMin EXCEPT ![p] = IF @ = NoOffset THEN o
                                               ELSE SmallerOf(@, o)]
        /\ takenMax' = [takenMax EXCEPT ![p] = IF @ = NoOffset THEN o
                                               ELSE LargerOf(@, o)]
        /\ hits' = IF IsMatch(p, o) THEN hits \cup {<<p, o>>} ELSE hits
<1>p. PICK p \in DOMAIN streams : \E o \in streams[p] : Pop(p, o)
  BY DEF MergeOne
<1>o. PICK o \in streams[p] : Pop(p, o)
  BY <1>p
<1>2. /\ p \in DOMAIN streams /\ o \in streams[p] /\ IsBestFront(p, o)
      /\ streams' = [streams EXCEPT ![p] = @ \ {o}]
      /\ takenMin' = [takenMin EXCEPT ![p] = IF @ = NoOffset THEN o
                                             ELSE SmallerOf(@, o)]
      /\ takenMax' = [takenMax EXCEPT ![p] = IF @ = NoOffset THEN o
                                             ELSE LargerOf(@, o)]
      /\ hits' = IF IsMatch(p, o) THEN hits \cup {<<p, o>>} ELSE hits
  BY <1>p, <1>o
<1> HIDE DEF Pop
<1>3. /\ MergeOK /\ WindowsOK /\ PositionsOK /\ RequestOK /\ ExactOK /\ TypeOK
      /\ IsFiniteSet(hits)
  BY DEF IInv
<1>4. /\ DOMAIN streams = DOMAIN windows /\ complete \subseteq DOMAIN windows
      /\ streams = [q \in DOMAIN windows |-> streams[q]]
      /\ takenMin = [q \in DOMAIN windows |-> takenMin[q]]
      /\ takenMax = [q \in DOMAIN windows |-> takenMax[q]]
      /\ \A q \in DOMAIN windows : StreamOK(q) /\ TakenOK(q)
      /\ HitsOK
  BY <1>1, <1>3 DEF MergeOK
<1>5. /\ p \in DOMAIN windows /\ o \in log[p].recs /\ o \in Int
      /\ req.dir \in {Back, Forward} /\ Back # Forward
  BY <1>1, <1>2, <1>3, <1>4, MergeFacts, LogFacts DEF StreamOK
<1>6. /\ streams'[p] = streams[p] \ {o}
      /\ takenMin'[p] = IF takenMin[p] = NoOffset THEN o ELSE SmallerOf(takenMin[p], o)
      /\ takenMax'[p] = IF takenMax[p] = NoOffset THEN o ELSE LargerOf(takenMax[p], o)
      /\ DOMAIN streams' = DOMAIN windows
      /\ streams' = [q \in DOMAIN windows |-> streams'[q]]
      /\ takenMin' = [q \in DOMAIN windows |-> takenMin'[q]]
      /\ takenMax' = [q \in DOMAIN windows |-> takenMax'[q]]
  BY <1>2, <1>4, <1>5
<1>7. \A q \in DOMAIN windows : q # p =>
        streams'[q] = streams[q] /\ takenMin'[q] = takenMin[q] /\ takenMax'[q] = takenMax[q]
  BY <1>2, <1>4, <1>5
<1>9. \A x \in streams[p] : IF req.dir = Back THEN x <= o ELSE o <= x
  BY <1>2 DEF IsBestFront, IsFront
<1>10. Ahead(p, o)
  BY <1>2, <1>4, <1>5 DEF StreamOK
<1>11. \A x \in log[p].recs : Ahead(p, x) /\ NoFurther(x, o) => x = o
  BY <1>1, <1>2, <1>4, <1>5, <1>9, MergeFacts DEF StreamOK, NoFurther
<1>12. Reach(p)' = IF req.dir = Back THEN o ELSE o + 1
  BY <1>1, <1>4, <1>5, <1>6, <1>10, MergeFacts, ConstantsAssumption
     DEF Reach, Ahead, TakenOK, SmallerOf, LargerOf
<1>13. \A q \in DOMAIN windows : q # p => Reach(q)' = Reach(q)
  BY <1>1, <1>7 DEF Reach
<1>14. StreamOK(p)'
  <2>1. \A x \in log[p].recs : Ahead(p, x)' <=> Ahead(p, x) /\ x # o
    BY <1>1, <1>5, <1>10, <1>11, <1>12, MergeFacts DEF Ahead, NoFurther
  <2>2. streams'[p] \subseteq log[p].recs /\ \A x \in streams'[p] : Ahead(p, x)'
    BY <1>4, <1>5, <1>6, <2>1 DEF StreamOK
  <2>3. \A x \in streams'[p], y \in log[p].recs :
          Ahead(p, y)' /\ NoFurther(y, x)' => y \in streams'[p]
    BY <1>1, <1>4, <1>5, <1>6, <2>1 DEF StreamOK, NoFurther
  <2>4. p \in complete => \A x \in log[p].recs : Ahead(p, x)' => x \in streams'[p]
    BY <1>4, <1>5, <1>6, <2>1 DEF StreamOK
  <2>5. QED
    BY <1>1, <2>2, <2>3, <2>4 DEF StreamOK
<1>15. TakenOK(p)'
  BY <1>1, <1>4, <1>5, <1>6, <1>10, MergeFacts, ConstantsAssumption
     DEF TakenOK, Ahead, SmallerOf, LargerOf
<1>16. ASSUME NEW q \in DOMAIN windows, q # p
       PROVE  StreamOK(q)' /\ TakenOK(q)'
  <2>1. \A x : Ahead(q, x)' <=> Ahead(q, x)
    BY <1>1, <1>13, <1>16 DEF Ahead
  <2>2. StreamOK(q)'
    BY <1>1, <1>4, <1>7, <1>16, <2>1 DEF StreamOK, NoFurther
  <2>3. TakenOK(q)'
    BY <1>1, <1>4, <1>7, <1>16 DEF TakenOK
  <2>4. QED
    BY <2>2, <2>3
<1>17. HitsOK'
  <2>1. AtWindows' = AtWindows /\ DOMAIN Reached' = DOMAIN windows
        /\ DOMAIN AtWindows = DOMAIN windows
    BY <1>1 DEF AtWindows, Reached
  <2>2. /\ \A q \in DOMAIN windows : AtWindows[q] = pos[q] /\ Reached[q] = Reach(q)
        /\ \A q \in DOMAIN windows : q # p => Reached'[q] = Reached[q]
        /\ Reached'[p] = IF req.dir = Back THEN o ELSE o + 1
    BY <1>1, <1>5, <1>12, <1>13 DEF AtWindows, Reached
  <2>3. Covered(AtWindows, Reached)' = Covered(AtWindows, Reached')
    BY <1>1, <2>1 DEF Covered, IsMatch
  <2>4. ASSUME NEW x \in log[p].recs
        PROVE  x \in Between(AtWindows[p], Reached'[p], req.dir) <=>
               x \in Between(AtWindows[p], Reached[p], req.dir) \/ x = o
    BY <1>1, <1>5, <1>10, <1>11, <2>2, MergeFacts DEF Between, Ahead, NoFurther
  <2>5. \A h : h \in Covered(AtWindows, Reached') <=>
              h \in Covered(AtWindows, Reached) \/ (IsMatch(p, o) /\ h = <<p, o>>)
    BY <1>5, <2>1, <2>2, <2>4, InCovered
  <2>6. HitsOK' <=> hits' = Covered(AtWindows, Reached')
    BY <2>3 DEF HitsOK
  <2>7. hits = Covered(AtWindows, Reached)
    BY <1>4 DEF HitsOK
  <2>8. hits' = IF IsMatch(p, o) THEN hits \cup {<<p, o>>} ELSE hits
    BY <1>2
  <2> DEFINE A == Covered(AtWindows, Reached)
             B == Covered(AtWindows, Reached')
             m == IsMatch(p, o)
  <2> HIDE DEF A, B, m
  <2>9. \A h : h \in B <=> h \in A \/ (m /\ h = <<p, o>>)
    BY <2>5 DEF A, B, m
  <2>10. \A h : h \in hits' <=> h \in A \/ (m /\ h = <<p, o>>)
    BY <2>7, <2>8 DEF A, m
  <2>11. (\E S : B = UNION S) /\ \E T : hits' = UNION T
    OBVIOUS
  <2>12. hits' = B
    BY <2>9, <2>10, Zenon
  <2>13. QED
    BY <2>6, <2>12 DEF B
<1>18. MergeOK'
  BY <1>1, <1>4, <1>6, <1>14, <1>15, <1>16, <1>17 DEF MergeOK
<1>19. TypeOK' /\ IsFiniteSet(hits)'
  <2>1. progress' \in Nat
    BY <1>3 DEF MergeOne, TypeOK
  <2>2. IsFiniteSet(hits')
    BY <1>2, <1>3, FS_AddElement
  <2>3. QED
    BY <1>1, <1>3, <2>1, <2>2 DEF TypeOK, States, totals
<1>20. PositionsOK' /\ RequestOK' /\ WindowsOK'
  BY <1>1, <1>3 DEF PositionsOK, RequestOK, WindowsOK, InChunk, States
<1>21. Covered(start, pos)' = Covered(start, pos)
  BY <1>1 DEF Covered, IsMatch
<1>22. ExactOK'
  BY <1>1, <1>3, <1>21 DEF ExactOK, Running
<1>23. QED
  BY <1>18, <1>19, <1>20, <1>22 DEF IInv

\* Where a committed chunk leaves one partition: within the watermarks, and
\* past exactly the records that were popped.
LEMMA AdvanceFacts ==
    ASSUME IInv, pc = "merge", NEW p \in DOMAIN pos
    PROVE  LET to == AdvancedPosition(p, pos[p])
           IN  /\ to \in log[p].lo .. log[p].hi
               /\ req.dir = Back => to <= pos[p]
               /\ req.dir = Forward => pos[p] <= to
               /\ \A x \in log[p].recs :
                    x \in Between(pos[p], to, req.dir) <=>
                      p \in DOMAIN windows /\ x \in Between(pos[p], Reach(p), req.dir)
<1> DEFINE to == AdvancedPosition(p, pos[p])
<1>1. /\ WindowsOK /\ PositionsOK /\ MergeOK /\ RequestOK /\ InChunk
  BY DEF IInv, InChunk
<1>2. /\ pos[p] \in log[p].lo .. log[p].hi /\ pos[p] \in Int
      /\ log[p].lo \in Int /\ log[p].hi \in Int
      /\ \A o \in log[p].recs : o \in Int
      /\ req.dir \in {Back, Forward} /\ Back # Forward
  BY <1>1, LogFacts DEF PositionsOK
<1>3. CASE p \notin DOMAIN windows
  BY <1>2, <1>3 DEF AdvancedPosition, Between
<1>4. CASE p \in DOMAIN windows /\ ~(p \in complete /\ streams[p] = {})
  <2>1. to = Reach(p)
    BY <1>2, <1>4 DEF AdvancedPosition, Reach
  <2>2. log[p].lo <= windows[p].start /\ windows[p].end <= log[p].hi
    BY <1>1, <1>4 DEF WindowsOK
  <2>3. /\ Reach(p) \in Int
        /\ windows[p].start \in Int /\ windows[p].end \in Int
        /\ req.dir = Back => windows[p].start <= Reach(p) /\ Reach(p) <= pos[p]
        /\ req.dir = Forward => pos[p] <= Reach(p) /\ Reach(p) <= windows[p].end
    BY <1>4, MergeFacts
  <2>4. QED
    BY <1>2, <1>4, <2>1, <2>2, <2>3
<1>5. CASE p \in DOMAIN windows /\ p \in complete /\ streams[p] = {}
  <2>1. to = IF req.dir = Back THEN windows[p].start ELSE windows[p].end
    BY <1>5 DEF AdvancedPosition
  <2>2. \A x \in log[p].recs : ~Ahead(p, x)
    BY <1>5, MergeFacts DEF StreamOK
  <2>3. log[p].lo <= windows[p].start /\ windows[p].end <= log[p].hi
    BY <1>1, <1>5 DEF WindowsOK
  <2>4. /\ Reach(p) \in Int
        /\ windows[p].start \in Int /\ windows[p].end \in Int
        /\ req.dir = Back =>
             windows[p].end = pos[p] /\ windows[p].start <= Reach(p) /\ Reach(p) <= pos[p]
        /\ req.dir = Forward =>
             windows[p].start = pos[p] /\ pos[p] <= Reach(p) /\ Reach(p) <= windows[p].end
    BY <1>5, MergeFacts
  <2>5. CASE req.dir = Back
    BY <1>2, <1>5, <2>1, <2>2, <2>3, <2>4, <2>5 DEF Ahead, Between
  <2>6. CASE req.dir = Forward
    BY <1>2, <1>5, <2>1, <2>2, <2>3, <2>4, <2>6 DEF Ahead, Between
  <2>7. QED
    BY <1>2, <2>5, <2>6
<1>6. QED
  BY <1>3, <1>4, <1>5

LEMMA CommitChunkInv == IInv /\ CommitChunk => IInv'
<1> SUFFICES ASSUME IInv, CommitChunk PROVE IInv'
  OBVIOUS
<1>1. /\ UNCHANGED <<log, req, start, windows, complete, streams, takenMin,
                     takenMax, popped, hits, gone>>
      /\ pc = "merge" /\ pc' \in {"gone", "loop", "finish"}
      /\ pos' = NewPositions
      /\ scanned' = scanned + Charge(pos, NewPositions)
      /\ matches' = matches + Cardinality(hits)
      /\ first' = FALSE
      /\ exhausted' \in BOOLEAN
      /\ pc' = "gone" \/ delivered' = delivered \cup hits
      /\ progress' = progress \/ progress' = scanned'
  BY DEF CommitChunk, request, chunk, channel, AllPartitionsAtEdge
<1>2. WindowsOK /\ PositionsOK /\ MergeOK /\ RequestOK /\ InChunk /\ ExactOK /\ TypeOK
      /\ IsFiniteSet(hits)
  BY <1>1 DEF IInv, InChunk
<1>3. DOMAIN pos' = DOMAIN pos
      /\ \A p \in DOMAIN pos : pos'[p] = AdvancedPosition(p, pos[p])
  BY <1>1 DEF NewPositions
<1>4. ASSUME NEW p \in DOMAIN pos
      PROVE  /\ pos'[p] \in log[p].lo .. log[p].hi
             /\ pos'[p] \in Int /\ pos[p] \in Int /\ start[p] \in Int
             /\ req.dir = Back => pos'[p] <= pos[p] /\ pos[p] <= start[p]
             /\ req.dir = Forward => pos[p] <= pos'[p] /\ start[p] <= pos[p]
             /\ req.dir \in {Back, Forward} /\ Back # Forward
             /\ \A x \in log[p].recs : x \in Int
             /\ \A x \in log[p].recs :
                  x \in Between(pos[p], pos'[p], req.dir) <=>
                    p \in DOMAIN windows /\ x \in Between(pos[p], Reach(p), req.dir)
  BY <1>1, <1>2, <1>3, AdvanceFacts, LogFacts DEF PositionsOK
<1>5. PositionsOK'
  BY <1>1, <1>2, <1>3, <1>4 DEF PositionsOK
<1>6. scanned' \in Nat
  <2>1. IsFiniteSet(DOMAIN pos)
    <3>1. DOMAIN pos \subseteq Partitions
      BY <1>1, <1>2, LogFacts DEF PositionsOK
    <3>2. QED
      BY <3>1, ConstantsAssumption, FS_Subset
  <2>2. Charge(pos, pos') \in Nat
    BY <1>3, <1>4, <2>1, ChargeType
  <2>3. QED
    BY <1>1, <1>2, <2>2 DEF TypeOK
<1>7. TypeOK' /\ IsFiniteSet(hits)'
  <2>1. matches' \in Nat
    BY <1>1, <1>2, FS_CardinalityType DEF TypeOK
  <2>2. \A p \in DOMAIN pos' : pos'[p] \in Int
    BY <1>3, <1>4
  <2>3. QED
    BY <1>1, <1>2, <1>3, <1>6, <2>1, <2>2 DEF TypeOK, States
<1>8. RequestOK' /\ WindowsOK' /\ MergeOK'
  BY <1>1, <1>2 DEF RequestOK, WindowsOK, MergeOK, InChunk, States
<1>9. ASSUME pc' # "gone"
      PROVE  Covered(start, pos)' = delivered \cup hits
  <2>1. Covered(start, pos)' = Covered(start, pos')
    BY <1>1 DEF Covered, IsMatch
  <2>2. delivered = Covered(start, pos) /\ hits = Covered(AtWindows, Reached)
    BY <1>1, <1>2 DEF ExactOK, Running, MergeOK, HitsOK
  <2>3. DOMAIN start = DOMAIN pos /\ DOMAIN windows \subseteq DOMAIN pos
    BY <1>1, <1>2 DEF PositionsOK, WindowsOK
  <2>4. ASSUME NEW p \in DOMAIN pos, NEW x \in log[p].recs
        PROVE  x \in Between(start[p], pos'[p], req.dir) <=>
                 \/ x \in Between(start[p], pos[p], req.dir)
                 \/ p \in DOMAIN windows /\ x \in Between(AtWindows[p], Reached[p], req.dir)
    <3>1. x \in Between(start[p], pos'[p], req.dir) <=>
            \/ x \in Between(start[p], pos[p], req.dir)
            \/ x \in Between(pos[p], pos'[p], req.dir)
      BY <1>4 DEF Between
    <3>2. p \in DOMAIN windows => AtWindows[p] = pos[p] /\ Reached[p] = Reach(p)
      BY DEF AtWindows, Reached
    <3>3. QED
      BY <1>4, <3>1, <3>2
  <2>5. DOMAIN AtWindows = DOMAIN windows
    BY DEF AtWindows
  <2> DEFINE A == Covered(start, pos)
             B == Covered(AtWindows, Reached)
             C == Covered(start, pos')
             match(p, x) == IsMatch(p, x)
             btw(a, b) == Between(a, b, req.dir)
  <2>6. /\ \A h : h \in A <=> \E p \in DOMAIN pos : \E x \in log[p].recs :
                     h = <<p, x>> /\ x \in btw(start[p], pos[p]) /\ match(p, x)
        /\ \A h : h \in B <=> \E p \in DOMAIN windows : \E x \in log[p].recs :
                     h = <<p, x>> /\ x \in btw(AtWindows[p], Reached[p]) /\ match(p, x)
        /\ \A h : h \in C <=> \E p \in DOMAIN pos : \E x \in log[p].recs :
                     h = <<p, x>> /\ x \in btw(start[p], pos'[p]) /\ match(p, x)
    BY <2>3, <2>5, InCovered
  <2>7. \A p \in DOMAIN pos : \A x \in log[p].recs :
          x \in btw(start[p], pos'[p]) <=>
            \/ x \in btw(start[p], pos[p])
            \/ p \in DOMAIN windows /\ x \in btw(AtWindows[p], Reached[p])
    BY <2>4
  <2> HIDE DEF A, B, C, match, btw
  <2>8. \A h : h \in C <=> h \in A \/ h \in B
    <3>1. \A h : h \in C => h \in A \/ h \in B
      BY <2>6, <2>7
    <3>2. \A h : h \in A => h \in C
      BY <2>6, <2>7
    <3>3. \A h : h \in B => h \in C
      BY <2>3, <2>6, <2>7
    <3>4. QED
      BY <3>1, <3>2, <3>3
  <2>9. C = A \cup B
    <3>1. \E S : C = UNION S
      BY DEF C, Covered
    <3>2. QED
      BY <2>8, Zenon
  <2>10. QED
    BY <2>1, <2>2, <2>9 DEF A, B, C
<1>10. ExactOK'
  BY <1>1, <1>2, <1>9 DEF ExactOK, Running
<1>11. QED
  BY <1>5, <1>7, <1>8, <1>10 DEF IInv

\* A page keeps its invariant from the request to the last event.
THEOREM PageInvariant == Spec => []IInv
<1>1. IInv /\ [Next]_vars => IInv'
  BY StartPageInv, ControlInv, PlanChunkInv, ScanChunkInv, MergeOneInv,
     CommitChunkInv DEF Next, TaskStep
<1>2. QED
  BY InitInv, <1>1, PTL DEF Spec

\* The page task keeps its types: no total ever goes negative.
THEOREM TypeCorrect == Spec => []TypeOK
<1>1. IInv => TypeOK
  BY DEF IInv
<1>2. QED
  BY PageInvariant, <1>1, PTL

\* Pages are loss-free and overlap-free: for every topic content, filter,
\* budget, and sequence of fetch outcomes, short and failed ones included, the
\* matches sent are exactly those between the first and the current positions.
THEOREM PageExactness == Spec => []PageExact
<1>1. IInv => PageExact
  <2>1. SUFFICES ASSUME IInv, pc # "gone" PROVE delivered = Covered(start, pos)
    BY DEF PageExact
  <2>2. CASE pc = "start"
    <3>1. delivered = {} /\ start = <<>> /\ pos = <<>>
      BY <2>1, <2>2 DEF IInv, ExactOK
    <3>2. DOMAIN start = {}
      BY <3>1
    <3>3. Covered(start, pos) = {}
      BY <3>2, InCovered
    <3>4. QED
      BY <3>1, <3>3
  <2>3. CASE pc # "start"
    BY <2>1, <2>3 DEF IInv, ExactOK, Running
  <2>4. QED
    BY <2>2, <2>3
<1>2. QED
  BY PageInvariant, <1>1, PTL

\* No chunk merges a record an earlier chunk of the page delivered.
THEOREM NoOverlapHolds == Spec => []NoOverlap
<1>1. IInv => NoOverlap
  <2>1. SUFFICES ASSUME IInv, pc = "merge" PROVE hits \cap delivered = {}
    BY DEF NoOverlap
  <2>2. /\ hits = Covered(AtWindows, Reached) /\ delivered = Covered(start, pos)
        /\ PositionsOK /\ RequestOK
        /\ DOMAIN start = DOMAIN pos
    BY <2>1 DEF IInv, MergeOK, HitsOK, ExactOK, Running, PositionsOK
  <2>3. SUFFICES ASSUME NEW h, h \in hits, h \in delivered PROVE FALSE
    OBVIOUS
  <2>4. PICK p \in DOMAIN windows : \E x \in log[p].recs :
            h = <<p, x>> /\ x \in Between(pos[p], Reach(p), req.dir)
    BY <2>2, <2>3, InCovered DEF AtWindows, Reached
  <2>5. PICK x \in log[p].recs :
            h = <<p, x>> /\ x \in Between(pos[p], Reach(p), req.dir)
    BY <2>4
  <2>6. x \in Between(start[p], pos[p], req.dir)
    BY <2>2, <2>3, <2>5, InCovered
  <2>7. /\ pos[p] \in Int /\ start[p] \in Int /\ Reach(p) \in Int /\ x \in Int
        /\ req.dir \in {Back, Forward} /\ Back # Forward
    BY <2>1, <2>2, MergeFacts, LogFacts
  <2>8. QED
    BY <2>5, <2>6, <2>7 DEF Between
<1>2. QED
  BY PageInvariant, <1>1, PTL

-----------------------------------------------------------------------------
\* Where a page may end.  A later chunk is only begun short of the edge; a
\* chunk in progress has a window to read and room for a match; once a chunk is
\* committed the positions have moved.
AtEnd == AllPartitionsAtEdge(pos, Wm, req.dir)

EndsOK ==
    /\ pc = "start" => first /\ ~exhausted /\ matches = 0 /\ scanned = 0
    /\ pc # "start" => pos \in [DOMAIN pos -> Int]
    /\ pc = "loop" =>
         /\ ~exhausted
         /\ first => matches = 0 /\ scanned = 0
         /\ ~first => ~AtEnd
    /\ InChunk => matches < req.limit /\ DOMAIN windows # {}
    /\ pc = "merge" =>
         \/ popped = 0 /\ hits = {}
         \/ \E p \in DOMAIN windows : takenMin[p] # NoOffset
    /\ pc = "finish" => (exhausted <=> AtEnd) /\ (first => exhausted)
    /\ pc = "ended" => (cursor = NoCursor <=> AtEnd) /\ (first => AtEnd)

MovedOK == pc \notin {"start", "gone", "error"} /\ ~first => pos # start

EInv == IInv /\ EndsOK /\ MovedOK

\* Some partition has the smallest id of a set of them.
LEMMA SmallestId ==
    ASSUME NEW T, T \subseteq Nat, T # {}
    PROVE  \E x \in T : \A y \in T : x <= y
<1>1. PICK x \in T : \A y \in T : ~ (<<y, x>> \in OpToRel(<, Nat))
  <2> DEFINE R == OpToRel(<, Nat)
  <2>1. IsWellFoundedOn(R, Nat)
    BY NatLessThanWellFounded
  <2> HIDE DEF R
  <2>2. \E x \in T : \A y \in T : ~ (<<y, x>> \in R)
    BY <2>1, WFMin
  <2>3. QED
    BY <2>2 DEF R
<1>2. \A y \in T : ~(y < x)
  BY <1>1 DEF OpToRel
<1>3. QED
  BY <1>2

\* While some of the budget is left, a chunk plans no window only when every
\* partition is at its edge: the first active partition always fits.
LEMMA NothingPlannedAtEnd ==
    ASSUME IInv, pc = "loop", ~PageIsFull, DOMAIN PlannedWindows = {}
    PROVE  AtEnd
<1> DEFINE remaining == Budget - scanned
           base == IF ~req.filtered /\ first THEN req.limit ELSE ChunkSpan
           active == ActivePartitions(pos, Wm, req.dir)
           span == ChunkWidth(base, remaining, Cardinality(active))
           wins == PageWindows(pos, Wm, req.dir, span)
<1>1. SUFFICES ASSUME ~AtEnd PROVE FALSE
  OBVIOUS
<1>2. active # {} /\ active \subseteq DOMAIN pos
  BY <1>1 DEF AtEnd, AllPartitionsAtEdge, ActivePartitions
<1>3. DOMAIN pos \subseteq Partitions /\ active \subseteq Nat
  BY <1>2, LogFacts, ConstantsAssumption DEF IInv, PositionsOK
<1>4. PICK q \in active : \A r \in active : q <= r
  BY <1>2, <1>3, SmallestId
<1>5. remaining \in Nat \ {0} /\ base \in Nat \ {0}
  <2>1. /\ scanned \in Nat /\ req.budget \in Budgets /\ req.limit \in Limits
        /\ ~(scanned >= Budget)
    BY DEF IInv, TypeOK, PageIsFull
  <2>2. req.budget \in Nat /\ req.limit \in Nat \ {0} /\ ChunkSpan \in Nat \ {0}
    BY <2>1, ConstantsAssumption
  <2>3. QED
    BY <2>1, <2>2 DEF Budget, LargerOf
<1>6. span \in Nat \ {0} /\ span <= remaining
  <2>1. Cardinality(active) \in Nat
    <3>1. IsFiniteSet(active)
      BY <1>2, <1>3, ConstantsAssumption, FS_Subset
    <3>2. QED
      BY <3>1, FS_CardinalityType
  <2>2. LargerOf(Cardinality(active), 1) \in Nat \ {0}
    BY <2>1 DEF LargerOf
  <2> HIDE DEF remaining, base, active
  <2> DEFINE n == LargerOf(Cardinality(active), 1)
             share == LargerOf(remaining \div n, 1)
  <2>3. remaining \div n \in Nat /\ remaining \div n <= remaining
    <3> HIDE DEF n
    <3>1. n \in Nat \ {0}
      BY <2>2 DEF n
    <3>2. QED
      BY <1>5, <3>1
  <2>4. share \in Nat \ {0} /\ share <= remaining
    <3> HIDE DEF n
    <3> QED BY <1>5, <2>3 DEF LargerOf
  <2>5. span = LargerOf(SmallerOf(base, share), 1)
    BY DEF span, ChunkWidth
  <2> HIDE DEF share, span
  <2>6. QED
    BY <1>5, <2>4, <2>5 DEF LargerOf, SmallerOf
<1> HIDE DEF remaining, base, span
<1>7. ASSUME NEW p \in DOMAIN pos
      PROVE  LET w == Window(pos[p], Wm[p], req.dir, span)
             IN  /\ w.start \in Int /\ w.end \in Int
                 /\ p \in active => w.start < w.end /\ w.end - w.start <= span
                 /\ p \notin active => ~(w.end > w.start)
  <2>1. /\ p \in DOMAIN log
        /\ Wm[p] = [lo |-> log[p].lo, hi |-> log[p].hi]
        /\ log[p].lo \in Int /\ log[p].hi \in Int
        /\ pos[p] \in log[p].lo .. log[p].hi
    BY LogFacts DEF IInv, PositionsOK, Wm
  <2>2. Clamp(pos[p], Wm[p].lo, Wm[p].hi) = pos[p]
    BY <2>1 DEF Clamp
  <2>3. p \in active <=> ~AtEdge(pos[p], Wm[p], req.dir)
    BY DEF ActivePartitions
  <2> HIDE DEF active
  <2>4. CASE req.dir = Back
    BY <1>6, <2>1, <2>2, <2>3, <2>4 DEF Window, AtEdge, LargerOf, Back, Forward
  <2>5. CASE req.dir = Forward
    BY <1>6, <2>1, <2>2, <2>3, <2>5 DEF Window, AtEdge, SmallerOf, Back, Forward
  <2>6. QED
    BY <2>4, <2>5, LogFacts DEF IInv
<1>8. /\ DOMAIN wins = active
      /\ wins[q] = Window(pos[q], Wm[q], req.dir, span)
  <2>1. \A p \in DOMAIN pos :
          Window(pos[p], Wm[p], req.dir, span).end
            > Window(pos[p], Wm[p], req.dir, span).start <=> p \in active
    BY <1>7
  <2> HIDE DEF active
  <2>2. DOMAIN wins = active
    BY <1>2, <2>1 DEF PageWindows
  <2>3. QED
    BY <1>2, <1>4, <2>1, <2>2 DEF PageWindows
<1>9. TotalWidth(wins, {r \in DOMAIN wins : r <= q}) <= remaining
  <2> HIDE DEF active, wins
  <2>1. {r \in DOMAIN wins : r <= q} = {q}
    BY <1>3, <1>4, <1>8
  <2>2. /\ wins[q].start \in Int /\ wins[q].end \in Int
        /\ wins[q].start < wins[q].end /\ wins[q].end - wins[q].start <= span
    BY <1>2, <1>4, <1>7, <1>8
  <2>3. WindowOffsets(wins, {q}) = {q} \X (wins[q].start .. wins[q].end - 1)
    BY DEF WindowOffsets
  <2>4. Cardinality({q} \X (wins[q].start .. wins[q].end - 1))
          = wins[q].end - wins[q].start
    <3> DEFINE a == wins[q].start
               b == wins[q].end - 1
    <3>1. a \in Int /\ b \in Int /\ a <= b
      BY <2>2
    <3> HIDE DEF a, b
    <3>2. IsFiniteSet({q}) /\ Cardinality({q}) = 1
      BY FS_Singleton
    <3>3. IsFiniteSet(a .. b) /\ Cardinality(a .. b) = b - a + 1
      BY <3>1, FS_Interval
    <3>4. Cardinality({q} \X (a .. b)) = Cardinality({q}) * Cardinality(a .. b)
      BY <3>2, <3>3, FS_Product
    <3>5. Cardinality({q} \X (a .. b)) = b - a + 1
      BY <3>1, <3>2, <3>3, <3>4
    <3>6. b - a + 1 = wins[q].end - wins[q].start
      BY <2>2 DEF a, b
    <3>7. QED
      BY <3>5, <3>6 DEF a, b
  <2>5. TotalWidth(wins, {q}) = wins[q].end - wins[q].start
    BY <2>3, <2>4 DEF TotalWidth
  <2>6. TotalWidth(wins, {r \in DOMAIN wins : r <= q}) = TotalWidth(wins, {q})
    BY <2>1
  <2>7. wins[q].end - wins[q].start <= remaining
    BY <1>5, <1>6, <2>2
  <2>8. QED
    BY <2>5, <2>6, <2>7
<1>10. PlannedWindows = CapWindowsToBudget(wins, remaining)
  BY DEF PlannedWindows, wins, remaining, span, base
<1>11. q \in DOMAIN PlannedWindows
  <2> HIDE DEF active, wins
  <2> QED BY <1>4, <1>8, <1>9, <1>10 DEF CapWindowsToBudget
<1>12. QED
  BY <1>11

LEMMA InitEnds == Init => EndsOK /\ MovedOK
  BY DEF Init, EndsOK, MovedOK, InChunk

LEMMA StartPageEnds == EInv /\ StartPage => (EndsOK /\ MovedOK)'
<1> SUFFICES ASSUME EInv, StartPage PROVE (EndsOK /\ MovedOK)'
  OBVIOUS
<1>1. /\ pc = "start" /\ pc' = "loop" /\ pos' = ClampPositions(req.positions, Wm)
      /\ UNCHANGED <<matches, scanned, first, exhausted>>
  BY DEF StartPage, totals
<1>2. pos' \in [DOMAIN pos' -> Int]
  <2>1. \A p \in DOMAIN pos' : pos'[p] \in Int
    BY StartPageInv DEF EInv, IInv, TypeOK
  <2>2. pos' = [p \in DOMAIN pos' |-> pos'[p]]
    BY <1>1 DEF ClampPositions
  <2>3. QED
    BY <2>1, <2>2
<1>3. QED
  BY <1>1, <1>2 DEF EInv, EndsOK, MovedOK, InChunk

\* The steps that leave the loop, send the last event or fail.
LEMMA ControlEnds ==
    EInv /\ (LeaveLoop \/ StopIfCancelled \/ ScanFails \/ StallChunk
              \/ SendPageEnd \/ Disconnect \/ UNCHANGED vars)
      => (EndsOK /\ MovedOK)'
<1> SUFFICES ASSUME EInv,
                    LeaveLoop \/ StopIfCancelled \/ ScanFails \/ StallChunk
                      \/ SendPageEnd \/ Disconnect \/ UNCHANGED vars
             PROVE  (EndsOK /\ MovedOK)'
  OBVIOUS
<1>1. /\ UNCHANGED <<log, req, start, pos, matches, scanned, first, windows,
                     takenMin, popped, hits, exhausted>>
      /\ AtEnd' = AtEnd
  BY DEF LeaveLoop, StopIfCancelled, ScanFails, StallChunk, SendPageEnd,
         Disconnect, vars, request, totals, chunk, channel, AtEnd, Wm
<1>2. CASE LeaveLoop
  <2>1. pc = "loop" /\ pc' = "finish" /\ (matches >= req.limit \/ scanned >= Budget)
    BY <1>2 DEF LeaveLoop, PageIsFull
  <2>2. req.limit \in Nat \ {0} /\ Budget \in Nat \ {0}
    <3>1. req.limit \in Limits /\ req.budget \in Budgets
      BY DEF EInv, IInv, TypeOK
    <3>2. req.limit \in Nat \ {0} /\ req.budget \in Nat
      BY <3>1, ConstantsAssumption
    <3>3. QED
      BY <3>2 DEF Budget, LargerOf
  <2>3. ~first
    BY <2>1, <2>2 DEF EInv, EndsOK
  <2>4. QED
    BY <1>1, <2>1, <2>3 DEF EInv, EndsOK, MovedOK, InChunk
<1>3. CASE StopIfCancelled \/ ScanFails \/ StallChunk
  <2>1. pc # "start" /\ pc' \in {"gone", "error"}
    BY <1>3 DEF StopIfCancelled, ScanFails, StallChunk
  <2>2. QED
    BY <1>1, <2>1 DEF EInv, EndsOK, MovedOK, InChunk
<1>4. CASE SendPageEnd
  <2>1. /\ pc = "finish" /\ pc' \in {"gone", "ended"}
        /\ pc' = "ended" => cursor' = IF exhausted THEN NoCursor ELSE pos
    BY <1>4 DEF SendPageEnd
  <2>2. pos # NoCursor
    <3>1. pos \in [DOMAIN pos -> Int]
      BY <2>1 DEF EInv, EndsOK
    <3>2. DOMAIN pos \subseteq Partitions
      BY <2>1, LogFacts DEF EInv, IInv, PositionsOK
    <3>3. QED
      BY <3>1, <3>2, NoCursorAssumption
  <2>3. QED
    BY <1>1, <2>1, <2>2 DEF EInv, EndsOK, MovedOK, InChunk
<1>5. CASE Disconnect \/ UNCHANGED vars
  <2>1. UNCHANGED <<pc, cursor>>
    BY <1>5 DEF Disconnect, channel, vars
  <2>2. QED
    BY <1>1, <2>1 DEF EInv, EndsOK, MovedOK, InChunk
<1>6. QED
  BY <1>2, <1>3, <1>4, <1>5

LEMMA PlanChunkEnds == EInv /\ PlanChunk => (EndsOK /\ MovedOK)'
<1> SUFFICES ASSUME EInv, PlanChunk PROVE (EndsOK /\ MovedOK)'
  OBVIOUS
<1>1. /\ UNCHANGED <<log, req, start, pos, matches, scanned, first>>
      /\ pc = "loop" /\ ~PageIsFull
      /\ windows' = PlannedWindows
      /\ IF DOMAIN windows' = {} THEN pc' = "finish" /\ exhausted'
                                 ELSE pc' = "scan" /\ exhausted' = exhausted
  BY DEF PlanChunk, request, totals
<1>2. AtEnd' = AtEnd
  BY <1>1 DEF AtEnd, Wm
<1>3. matches < req.limit
  <2>1. matches \in Nat /\ req.limit \in Limits
    BY DEF EInv, IInv, TypeOK
  <2>2. req.limit \in Nat
    BY <2>1, ConstantsAssumption
  <2>3. QED
    BY <1>1, <2>1, <2>2 DEF PageIsFull
<1>4. pc' = "finish" => AtEnd
  BY <1>1, NothingPlannedAtEnd DEF EInv
<1>5. QED
  BY <1>1, <1>2, <1>3, <1>4 DEF EInv, EndsOK, MovedOK, InChunk

LEMMA ScanChunkEnds == EInv /\ ScanChunk => (EndsOK /\ MovedOK)'
  BY DEF ScanChunk, EInv, EndsOK, MovedOK, InChunk, request, totals

LEMMA MergeOneEnds == EInv /\ MergeOne => (EndsOK /\ MovedOK)'
<1> SUFFICES ASSUME EInv, MergeOne PROVE (EndsOK /\ MovedOK)'
  OBVIOUS
<1>1. /\ UNCHANGED <<log, req, start, pos, matches, scanned, first, windows>>
      /\ pc = "merge" /\ pc' \in {"merge", "gone"}
  BY DEF MergeOne, request, totals
<1>2. PICK p \in DOMAIN streams : \E o \in streams[p] :
        takenMin' = [takenMin EXCEPT ![p] = IF @ = NoOffset THEN o ELSE SmallerOf(@, o)]
  BY DEF MergeOne
<1>3. PICK o \in streams[p] :
        takenMin' = [takenMin EXCEPT ![p] = IF @ = NoOffset THEN o ELSE SmallerOf(@, o)]
  BY <1>2
<1>4. /\ p \in DOMAIN windows /\ DOMAIN takenMin = DOMAIN windows
      /\ o \in Int
      /\ takenMin[p] # NoOffset => takenMin[p] \in Int
  BY <1>1, <1>2, <1>3, MergeFacts, LogFacts
     DEF EInv, IInv, MergeOK, StreamOK, TakenOK, WindowsOK, PositionsOK, InChunk
<1>5. takenMin'[p] # NoOffset
  BY <1>3, <1>4, ConstantsAssumption DEF SmallerOf
<1>6. QED
  BY <1>1, <1>4, <1>5 DEF EInv, EndsOK, MovedOK, InChunk

\* A committed chunk moves some position: one that popped a record moves past
\* it, and one that popped nothing scanned all its windows and crosses them.
LEMMA CommitMoves ==
    ASSUME EInv, CommitChunk, ~gone
    PROVE  NewPositions # start
<1>1. /\ pc = "merge" /\ MergeIsOver /\ ~MadeNoProgress
  BY DEF CommitChunk
<1>2. PICK p \in DOMAIN windows :
        takenMin[p] # NoOffset \/ (p \in complete /\ streams[p] = {})
  <2>1. CASE \E p \in DOMAIN windows : takenMin[p] # NoOffset
    BY <2>1
  <2>2. CASE popped = 0 /\ hits = {}
    <3>1. \A p \in DOMAIN windows : p \in complete
      BY <1>1, <2>2 DEF MadeNoProgress
    <3>2. DOMAIN windows # {} /\ matches < req.limit
      BY <1>1 DEF EInv, EndsOK, InChunk
    <3>3. Cardinality(hits) = 0
      BY <2>2, FS_EmptySet
    <3>4. matches + Cardinality(hits) < req.limit
      <4>1. matches \in Nat
        BY DEF EInv, IInv, TypeOK
      <4>2. QED
        BY <3>2, <3>3, <4>1
    <3>5. req.limit \in Nat /\ matches \in Nat
      <4>1. req.limit \in Limits /\ matches \in Nat
        BY DEF EInv, IInv, TypeOK
      <4>2. QED
        BY <4>1, ConstantsAssumption
    <3>6. \A p \in DOMAIN streams : streams[p] = {}
      BY <1>1, <3>3, <3>4, <3>5 DEF MergeIsOver
    <3>7. DOMAIN streams = DOMAIN windows
      BY <1>1 DEF EInv, IInv, MergeOK
    <3>8. QED
      BY <3>1, <3>2, <3>6, <3>7
  <2>3. QED
    BY <1>1, <2>1, <2>2 DEF EInv, EndsOK
<1>3. /\ p \in DOMAIN pos
      /\ pos[p] \in Int /\ start[p] \in Int
      /\ windows[p].start \in Int /\ windows[p].end \in Int
      /\ windows[p].start < windows[p].end
      /\ req.dir = Back => windows[p].end = pos[p] /\ pos[p] <= start[p]
      /\ req.dir = Forward => windows[p].start = pos[p] /\ start[p] <= pos[p]
      /\ TakenOK(p)
      /\ req.dir \in {Back, Forward} /\ Back # Forward
  BY <1>1, MergeFacts, LogFacts
     DEF EInv, IInv, WindowsOK, PositionsOK, InChunk
<1>4. AdvancedPosition(p, pos[p]) # start[p]
  <2>1. CASE p \in complete /\ streams[p] = {}
    BY <1>3, <2>1 DEF AdvancedPosition
  <2>2. CASE ~(p \in complete /\ streams[p] = {})
    <3>1. AdvancedPosition(p, pos[p])
            = IF req.dir = Back THEN takenMin[p] ELSE takenMax[p] + 1
      BY <1>2, <2>2 DEF AdvancedPosition
    <3>2. /\ takenMin[p] \in windows[p].start .. windows[p].end - 1
          /\ takenMax[p] \in windows[p].start .. windows[p].end - 1
      BY <1>2, <1>3, <2>2 DEF TakenOK
    <3>3. QED
      BY <1>3, <3>1, <3>2
  <2>3. QED
    BY <2>1, <2>2
<1>5. NewPositions[p] = AdvancedPosition(p, pos[p])
  BY <1>3 DEF NewPositions
<1>6. QED
  BY <1>4, <1>5

LEMMA CommitChunkEnds == EInv /\ CommitChunk => (EndsOK /\ MovedOK)'
<1> SUFFICES ASSUME EInv, CommitChunk PROVE (EndsOK /\ MovedOK)'
  OBVIOUS
<1>1. /\ UNCHANGED <<log, req, start>>
      /\ pc = "merge" /\ pos' = NewPositions /\ first' = FALSE
      /\ exhausted' = AllPartitionsAtEdge(NewPositions, Wm, req.dir)
      /\ IF gone THEN pc' = "gone"
                 ELSE pc' = IF exhausted' THEN "finish" ELSE "loop"
  BY DEF CommitChunk, request
<1>2. AtEnd' = exhausted' /\ exhausted' \in BOOLEAN
  BY <1>1 DEF AtEnd, Wm, AllPartitionsAtEdge
<1>3. pos' \in [DOMAIN pos' -> Int]
  <2>1. \A p \in DOMAIN pos' : pos'[p] \in Int
    BY CommitChunkInv DEF EInv, IInv, TypeOK
  <2>2. pos' = [p \in DOMAIN pos' |-> pos'[p]]
    BY <1>1 DEF NewPositions
  <2>3. QED
    BY <2>1, <2>2
<1>4. pc' # "gone" => pos' # start'
  BY <1>1, CommitMoves
<1>5. QED
  BY <1>1, <1>2, <1>3, <1>4 DEF EndsOK, MovedOK, InChunk

\* How a page may end is settled by the same steps that keep it exact.
THEOREM PageEnds == Spec => []EInv
<1>1. Init => EInv
  BY InitInv, InitEnds DEF EInv
<1>2. EInv /\ [Next]_vars => EInv'
  <2>1. IInv /\ [Next]_vars => IInv'
    BY StartPageInv, ControlInv, PlanChunkInv, ScanChunkInv, MergeOneInv,
       CommitChunkInv DEF Next, TaskStep
  <2>2. EInv /\ [Next]_vars => (EndsOK /\ MovedOK)'
    BY StartPageEnds, ControlEnds, PlanChunkEnds, ScanChunkEnds, MergeOneEnds,
       CommitChunkEnds DEF Next, TaskStep
  <2>3. QED
    BY <2>1, <2>2 DEF EInv
<1>3. QED
  BY <1>1, <1>2, PTL DEF Spec

\* "exhausted" is told exactly at the edges, for every budget, however many
\* partitions there are to share it, and whatever the fetches brought.
THEOREM EndIsTruthfulHolds == Spec => []EndIsTruthful
<1>1. EInv => EndIsTruthful
  BY DEF EInv, EndsOK, EndIsTruthful, AtEnd
<1>2. QED
  BY PageEnds, <1>1, PTL

\* A page that hands back a cursor has moved: a client that follows cursors
\* never asks the same question twice.
THEOREM CursorMovesHolds == Spec => []CursorMoves
<1>1. EInv => CursorMoves
  BY DEF EInv, EndsOK, MovedOK, CursorMoves
<1>2. QED
  BY PageEnds, <1>1, PTL

-----------------------------------------------------------------------------
\* The budget.  A chunk may cross the offsets of its windows, which fit what is
\* left of the budget; every record popped was one of the records left to
\* merge, and the reach of its partition has moved past it.
Width == WindowOffsets(windows, DOMAIN windows)
Left == UNION {{p} \X streams[p] : p \in DOMAIN windows}
Seen == UNION {{p} \X Between(pos[p], Reach(p), req.dir) : p \in DOMAIN windows}

BudgetOK ==
    /\ scanned <= Budget
    /\ progress <= Budget
    /\ pc \in {"start", "loop", "scan", "finish", "ended"} => progress <= scanned
    /\ InChunk => IsFiniteSet(Width) /\ Cardinality(Width) <= Budget - scanned
    /\ pc = "merge" =>
         /\ progress <= scanned + popped
         /\ popped + Cardinality(Left) <= Budget - scanned
         /\ popped <= Cardinality(Seen)

BInv == IInv /\ BudgetOK

LEMMA BudgetType ==
    ASSUME IInv
    PROVE  Budget \in Nat \ {0} /\ scanned \in Nat /\ popped \in Nat /\ progress \in Nat
<1>1. /\ req.budget \in Budgets
      /\ scanned \in Nat /\ popped \in Nat /\ progress \in Nat
  BY DEF IInv, TypeOK
<1>2. req.budget \in Nat
  BY <1>1, ConstantsAssumption
<1>3. QED
  BY <1>1, <1>2 DEF Budget, LargerOf

\* Of finitely many ids some is the largest: the fewest others are above it.
LEMMA LargestId ==
    ASSUME NEW T, T \subseteq Nat, IsFiniteSet(T), T # {}
    PROVE  \E x \in T : \A y \in T : y <= x
<1> DEFINE Above(q) == {r \in T : q < r}
           Counts == {Cardinality(Above(q)) : q \in T}
<1>1. \A q \in T : IsFiniteSet(Above(q)) /\ Cardinality(Above(q)) \in Nat
  BY FS_Subset, FS_CardinalityType
<1>2. PICK x \in T : \A y \in T : Cardinality(Above(x)) <= Cardinality(Above(y))
  <2>1. Counts \subseteq Nat /\ Counts # {}
    BY <1>1
  <2>2. PICK n \in Counts : \A m \in Counts : n <= m
    <3> HIDE DEF Counts
    <3> QED BY <2>1, SmallestId
  <2>3. QED
    BY <2>2
<1>3. ASSUME NEW y \in T, ~(y <= x)
      PROVE  FALSE
  <2>1. Above(y) \in SUBSET Above(x) /\ y \in Above(x) /\ y \notin Above(y)
    <3>1. x \in Int /\ y \in Int /\ x < y /\ \A r \in T : r \in Int
      BY <1>3
    <3>2. \A r \in T : y < r => x < r
      BY <3>1
    <3>3. Above(y) \subseteq Above(x)
      BY <3>2
    <3>4. y \in Above(x) /\ y \notin Above(y)
      BY <3>1
    <3>5. QED
      BY <3>3, <3>4
  <2>2. Cardinality(Above(x)) <= Cardinality(Above(y))
    BY <1>2
  <2>3. /\ Cardinality(Above(y)) <= Cardinality(Above(x))
        /\ Cardinality(Above(x)) = Cardinality(Above(y)) => Above(x) = Above(y)
    <3>1. IsFiniteSet(Above(x))
      BY <1>1
    <3> HIDE DEF Above
    <3> QED BY <2>1, <3>1, FS_Subset
  <2>4. Cardinality(Above(x)) = Cardinality(Above(y))
    BY <1>1, <2>2, <2>3
  <2>5. QED
    BY <2>1, <2>3, <2>4
<1>4. QED
  BY <1>3

\* The windows a chunk plans fit what is left of the budget.
LEMMA PlannedFits ==
    ASSUME IInv, pc = "loop", DOMAIN PlannedWindows # {}
    PROVE  LET offsets == WindowOffsets(PlannedWindows, DOMAIN PlannedWindows)
           IN  IsFiniteSet(offsets) /\ Cardinality(offsets) <= Budget - scanned
<1> DEFINE remaining == Budget - scanned
           span == ChunkWidth(IF ~req.filtered /\ first THEN req.limit ELSE ChunkSpan,
                              remaining,
                              Cardinality(ActivePartitions(pos, Wm, req.dir)))
           wins == PageWindows(pos, Wm, req.dir, span)
           cut == PlannedWindows
<1>1. cut = CapWindowsToBudget(wins, remaining)
  BY DEF PlannedWindows
<1> HIDE DEF cut, wins, remaining
<1>2. /\ DOMAIN cut \subseteq DOMAIN wins
      /\ \A p \in DOMAIN cut :
           /\ cut[p] = wins[p]
           /\ TotalWidth(wins, {r \in DOMAIN wins : r <= p}) <= remaining
  BY <1>1 DEF CapWindowsToBudget
<1>3. /\ DOMAIN cut \subseteq Nat /\ IsFiniteSet(DOMAIN cut) /\ DOMAIN cut # {}
      /\ \A p \in DOMAIN cut : cut[p].start \in Int /\ cut[p].end \in Int
  <2>1. DOMAIN pos \subseteq Partitions
    BY LogFacts DEF IInv, PositionsOK
  <2>2. DOMAIN cut \subseteq Partitions
    BY <2>1, PlannedWindowsOK DEF cut
  <2>3. QED
    BY <2>2, ConstantsAssumption, FS_Subset, PlannedWindowsOK DEF cut
<1>4. PICK m \in DOMAIN cut : \A p \in DOMAIN cut : p <= m
  BY <1>3, LargestId
<1> DEFINE prefix == {r \in DOMAIN wins : r <= m}
<1>5. DOMAIN wins \subseteq DOMAIN pos
  BY DEF wins, PageWindows
<1>6. DOMAIN pos \subseteq Partitions
  BY LogFacts DEF IInv, PositionsOK
<1>7. \A p \in DOMAIN wins : wins[p].start \in Int /\ wins[p].end \in Int
  <2>1. \A p \in DOMAIN wins : wins[p] = Window(pos[p], Wm[p], req.dir, span)
    BY DEF wins, PageWindows
  <2>2. span \in Int
    BY PlannedSpan DEF remaining
  <2> HIDE DEF span
  <2>3. ASSUME NEW p \in DOMAIN wins
        PROVE  wins[p].start \in Int /\ wins[p].end \in Int
    <3>1. pos[p] \in Int /\ Wm[p].lo \in Int /\ Wm[p].hi \in Int
      BY <1>5, LogFacts DEF IInv, TypeOK, PositionsOK, Wm
    <3>2. QED
      BY <2>1, <2>2, <2>3, <3>1 DEF Window, Clamp, LargerOf, SmallerOf
  <2>4. QED
    BY <2>3
<1>8. IsFiniteSet(WindowOffsets(wins, prefix))
  <2> DEFINE a == [p \in prefix |-> wins[p].start]
             b == [p \in prefix |-> wins[p].end - 1]
  <2>1. IsFiniteSet(prefix)
    BY <1>5, <1>6, ConstantsAssumption, FS_Subset
  <2>2. \A p \in prefix : a[p] \in Int /\ b[p] \in Int
    BY <1>7
  <2>3. IsFiniteSet(UNION {{p} \X (a[p] .. b[p]) : p \in prefix})
    <3> HIDE DEF a, b, prefix
    <3> QED BY <2>1, <2>2, FiniteStretches
  <2>4. QED
    BY <2>3 DEF WindowOffsets
<1>9. WindowOffsets(cut, DOMAIN cut) \in SUBSET WindowOffsets(wins, prefix)
  BY <1>2, <1>4 DEF WindowOffsets
<1>10. Cardinality(WindowOffsets(wins, prefix)) <= remaining
  BY <1>2, <1>4 DEF TotalWidth
<1>11. /\ IsFiniteSet(WindowOffsets(cut, DOMAIN cut))
       /\ Cardinality(WindowOffsets(cut, DOMAIN cut))
            <= Cardinality(WindowOffsets(wins, prefix))
  BY <1>8, <1>9, FS_Subset
<1>12. /\ Cardinality(WindowOffsets(cut, DOMAIN cut)) \in Nat
       /\ Cardinality(WindowOffsets(wins, prefix)) \in Nat /\ remaining \in Int
  BY <1>8, <1>11, FS_CardinalityType, BudgetType DEF remaining
<1>13. Cardinality(WindowOffsets(cut, DOMAIN cut)) <= remaining
  BY <1>10, <1>11, <1>12
<1>14. QED
  BY <1>11, <1>13 DEF cut, remaining

\* What a record popped does to the chunk: its stream loses it, and the reach
\* of its partition moves just past it.
LEMMA PopFacts ==
    ASSUME IInv, MergeOne
    PROVE  \E p \in DOMAIN windows : \E o \in streams[p] :
             /\ o \in Int
             /\ Ahead(p, o)
             /\ DOMAIN streams = DOMAIN windows
             /\ streams' = [streams EXCEPT ![p] = @ \ {o}]
             /\ Reach(p)' = IF req.dir = Back THEN o ELSE o + 1
             /\ \A q \in DOMAIN windows : q # p => Reach(q)' = Reach(q)
<1>1. /\ UNCHANGED <<log, req, pos, windows>> /\ pc = "merge"
  BY DEF MergeOne, request
<1>2. PICK p \in DOMAIN streams : \E o \in streams[p] :
        /\ streams' = [streams EXCEPT ![p] = @ \ {o}]
        /\ takenMin' = [takenMin EXCEPT ![p] = IF @ = NoOffset THEN o
                                               ELSE SmallerOf(@, o)]
        /\ takenMax' = [takenMax EXCEPT ![p] = IF @ = NoOffset THEN o
                                               ELSE LargerOf(@, o)]
  BY DEF MergeOne
<1>3. PICK o \in streams[p] :
        /\ streams' = [streams EXCEPT ![p] = @ \ {o}]
        /\ takenMin' = [takenMin EXCEPT ![p] = IF @ = NoOffset THEN o
                                               ELSE SmallerOf(@, o)]
        /\ takenMax' = [takenMax EXCEPT ![p] = IF @ = NoOffset THEN o
                                               ELSE LargerOf(@, o)]
  BY <1>2
<1>4. /\ DOMAIN streams = DOMAIN windows
      /\ takenMin = [q \in DOMAIN windows |-> takenMin[q]]
      /\ takenMax = [q \in DOMAIN windows |-> takenMax[q]]
      /\ \A q \in DOMAIN windows : StreamOK(q) /\ TakenOK(q)
  BY <1>1 DEF IInv, MergeOK
<1>5. /\ p \in DOMAIN windows /\ o \in log[p].recs /\ o \in Int /\ Ahead(p, o)
      /\ req.dir \in {Back, Forward} /\ Back # Forward
  BY <1>1, <1>4, MergeFacts, LogFacts DEF StreamOK, IInv
<1>6. /\ takenMin'[p] = IF takenMin[p] = NoOffset THEN o ELSE SmallerOf(takenMin[p], o)
      /\ takenMax'[p] = IF takenMax[p] = NoOffset THEN o ELSE LargerOf(takenMax[p], o)
      /\ \A q \in DOMAIN windows :
           q # p => takenMin'[q] = takenMin[q] /\ takenMax'[q] = takenMax[q]
  BY <1>3, <1>4, <1>5
<1>7. Reach(p)' = IF req.dir = Back THEN o ELSE o + 1
  BY <1>1, <1>4, <1>5, <1>6, MergeFacts, ConstantsAssumption
     DEF Reach, Ahead, TakenOK, SmallerOf, LargerOf
<1>8. \A q \in DOMAIN windows : q # p => Reach(q)' = Reach(q)
  BY <1>1, <1>6 DEF Reach
<1>9. QED
  BY <1>3, <1>4, <1>5, <1>7, <1>8

\* What is left to merge and what the merge has passed both lie in the windows;
\* a commit crosses all that was passed, and never leaves the windows.
LEMMA ChunkSets ==
    ASSUME IInv, pc = "merge"
    PROVE  /\ Left \subseteq Width
           /\ Seen \subseteq Crossed(pos, NewPositions)
           /\ Crossed(pos, NewPositions) \subseteq Width
<1>1. DOMAIN windows \subseteq DOMAIN pos /\ req.dir \in {Back, Forward} /\ Back # Forward
  BY LogFacts DEF IInv, WindowsOK, InChunk
<1>2. Left \subseteq Width
  <2>1. ASSUME NEW p \in DOMAIN windows, NEW o \in streams[p]
        PROVE  o \in windows[p].start .. windows[p].end - 1
    <3>1. Ahead(p, o) /\ o \in Int
      BY <2>1, MergeFacts DEF StreamOK
    <3>2. QED
      BY <1>1, <2>1, <3>1, MergeFacts DEF Ahead
  <2>2. QED
    BY <2>1 DEF Left, Width, WindowOffsets
<1>3. ASSUME NEW p \in DOMAIN windows
      PROVE  LET to == AdvancedPosition(p, pos[p])
             IN  /\ to \in Int /\ pos[p] \in Int
                 /\ req.dir = Back =>
                      /\ windows[p].start <= to /\ to <= Reach(p)
                      /\ windows[p].end = pos[p] /\ Reach(p) <= pos[p]
                 /\ req.dir = Forward =>
                      /\ Reach(p) <= to /\ to <= windows[p].end
                      /\ windows[p].start = pos[p] /\ pos[p] <= Reach(p)
                 /\ Reach(p) \in Int
                 /\ windows[p].start \in Int /\ windows[p].end \in Int
  <2>1. CASE p \in complete /\ streams[p] = {}
    BY <1>1, <2>1, MergeFacts DEF AdvancedPosition
  <2>2. CASE ~(p \in complete /\ streams[p] = {})
    <3>1. AdvancedPosition(p, pos[p]) = Reach(p)
      BY <2>2 DEF AdvancedPosition, Reach
    <3>2. QED
      BY <1>1, <3>1, MergeFacts
  <2>3. QED
    BY <2>1, <2>2
<1>4. ASSUME NEW p \in DOMAIN windows
      PROVE  /\ Between(pos[p], Reach(p), req.dir)
                  \subseteq SmallerOf(pos[p], NewPositions[p])
                              .. LargerOf(pos[p], NewPositions[p]) - 1
             /\ SmallerOf(pos[p], NewPositions[p]) .. LargerOf(pos[p], NewPositions[p]) - 1
                  \subseteq windows[p].start .. windows[p].end - 1
  <2>1. NewPositions[p] = AdvancedPosition(p, pos[p])
    BY <1>1 DEF NewPositions
  <2> DEFINE to == AdvancedPosition(p, pos[p])
  <2>2. CASE req.dir = Back
    <3>1. SmallerOf(pos[p], to) = to /\ LargerOf(pos[p], to) = pos[p]
      BY <1>3, <2>2 DEF SmallerOf, LargerOf
    <3>2. Between(pos[p], Reach(p), req.dir) = Reach(p) .. pos[p] - 1
      BY <2>2 DEF Between
    <3>3. QED
      BY <1>3, <2>1, <2>2, <3>1, <3>2
  <2>3. CASE req.dir = Forward
    <3>1. SmallerOf(pos[p], to) = pos[p] /\ LargerOf(pos[p], to) = to
      BY <1>3, <2>3 DEF SmallerOf, LargerOf
    <3>2. Between(pos[p], Reach(p), req.dir) = pos[p] .. Reach(p) - 1
      BY <1>1, <2>3 DEF Between
    <3>3. QED
      BY <1>3, <2>1, <2>3, <3>1, <3>2
  <2>4. QED
    BY <1>1, <2>2, <2>3
<1>5. ASSUME NEW p \in DOMAIN pos, p \notin DOMAIN windows
      PROVE  SmallerOf(pos[p], NewPositions[p]) .. LargerOf(pos[p], NewPositions[p]) - 1 = {}
  <2>1. NewPositions[p] = pos[p] /\ pos[p] \in Int
    BY <1>5 DEF NewPositions, AdvancedPosition, IInv, TypeOK
  <2>2. QED
    BY <2>1 DEF SmallerOf, LargerOf
<1>6. Seen \subseteq Crossed(pos, NewPositions)
  BY <1>1, <1>4 DEF Seen, Crossed
<1>7. Crossed(pos, NewPositions) \subseteq Width
  BY <1>4, <1>5 DEF Width, WindowOffsets, Crossed
<1>8. QED
  BY <1>2, <1>6, <1>7

LEMMA InitBudget == Init => BudgetOK
<1>1. Init => Budget \in Nat \ {0} /\ scanned = 0 /\ progress = 0 /\ pc = "start"
  BY InitInv, BudgetType DEF Init
<1>2. QED
  BY <1>1 DEF BudgetOK, InChunk

\* Steps that touch neither the totals nor what there is to merge.
LEMMA ControlBudget ==
    BInv /\ (StartPage \/ LeaveLoop \/ StopIfCancelled \/ ScanFails \/ StallChunk
              \/ SendPageEnd \/ Disconnect \/ UNCHANGED vars)
      => BudgetOK' /\ progress' = progress
<1> SUFFICES ASSUME BInv,
                    StartPage \/ LeaveLoop \/ StopIfCancelled \/ ScanFails
                      \/ StallChunk \/ SendPageEnd \/ Disconnect \/ UNCHANGED vars
             PROVE  BudgetOK' /\ progress' = progress
  OBVIOUS
<1>1. /\ UNCHANGED <<req, scanned, progress, popped, windows, streams, takenMin, takenMax>>
      /\ pc = "start" \/ pos' = pos
      /\ \/ pc' = pc /\ pos' = pos
         \/ pc' \in {"loop", "finish", "ended"} /\ pc \in {"start", "loop", "finish"}
         \/ pc' \in {"gone", "error"}
  BY DEF StartPage, LeaveLoop, StopIfCancelled, ScanFails, StallChunk, SendPageEnd,
         Disconnect, vars, request, totals, chunk, channel
<1>2. Budget' = Budget /\ Width' = Width /\ Left' = Left
  BY <1>1 DEF Budget, Width, Left
<1>3. pos' = pos => Seen' = Seen
  BY <1>1 DEF Seen, Reach
<1>4. QED
  BY <1>1, <1>2, <1>3 DEF BInv, BudgetOK, InChunk

LEMMA PlanChunkBudget == BInv /\ PlanChunk => BudgetOK' /\ progress' = progress
<1> SUFFICES ASSUME BInv, PlanChunk PROVE BudgetOK' /\ progress' = progress
  OBVIOUS
<1>1. /\ UNCHANGED <<req, scanned, progress>>
      /\ pc = "loop" /\ windows' = PlannedWindows
      /\ \/ pc' = "finish"
         \/ pc' = "scan" /\ DOMAIN PlannedWindows # {}
  BY DEF PlanChunk, request, totals, channel
<1>2. Budget' = Budget /\ Width' = WindowOffsets(PlannedWindows, DOMAIN PlannedWindows)
  BY <1>1 DEF Budget, Width
<1>3. pc' = "scan" => IsFiniteSet(Width') /\ Cardinality(Width') <= Budget - scanned
  BY <1>1, <1>2, PlannedFits DEF BInv
<1>4. QED
  BY <1>1, <1>2, <1>3 DEF BInv, BudgetOK, InChunk

LEMMA ScanChunkBudget == BInv /\ ScanChunk => BudgetOK' /\ progress' = progress
<1> SUFFICES ASSUME BInv, ScanChunk PROVE BudgetOK' /\ progress' = progress
  OBVIOUS
<1>1. /\ UNCHANGED <<log, req, pos, scanned, progress, windows>>
      /\ pc = "scan" /\ pc' = "merge" /\ popped' = 0
      /\ takenMin' = [p \in DOMAIN windows |-> NoOffset]
  BY DEF ScanChunk, request, totals, channel
<1>2. Budget' = Budget /\ Width' = Width
  BY <1>1 DEF Budget, Width
<1>3. IsFiniteSet(Width) /\ Cardinality(Width) <= Budget - scanned
  BY <1>1 DEF BInv, BudgetOK, InChunk
<1>4. Left' \in SUBSET Width
  <2>1. PICK done, upto :
          streams' = [p \in DOMAIN windows |->
                        TrustedStream(windows[p],
                                      {o \in InWindow(p) : o < upto[p]},
                                      p \in done, req.dir)]
    BY DEF ScanChunk
  <2>2. ASSUME NEW p \in DOMAIN windows, NEW o \in streams'[p]
        PROVE  o \in windows[p].start .. windows[p].end - 1
    <3>1. o \in InWindow(p)
      BY <2>1, <2>2 DEF TrustedStream
    <3>2. o \in Int /\ windows[p].start \in Int /\ windows[p].end \in Int
      BY <1>1, <2>2, <3>1, LogFacts
         DEF InWindow, BInv, IInv, WindowsOK, PositionsOK, InChunk
    <3>3. QED
      BY <3>1, <3>2 DEF InWindow
  <2>3. QED
    BY <1>1, <2>2 DEF Left, Width, WindowOffsets
<1>5. Cardinality(Left') <= Cardinality(Width)
      /\ Cardinality(Left') \in Nat /\ Cardinality(Width) \in Nat
  BY <1>3, <1>4, FS_Subset, FS_CardinalityType
<1>6. Cardinality(Seen') = 0
  <2>1. \A p \in DOMAIN windows : Reach(p)' = pos[p] /\ pos[p] \in Int
    BY <1>1 DEF Reach, BInv, IInv, TypeOK
  <2>2. \A p \in DOMAIN windows : Between(pos[p], Reach(p)', req.dir) = {}
    BY <2>1 DEF Between
  <2>3. Seen' = {}
    BY <1>1, <2>2 DEF Seen
  <2>4. QED
    BY <2>3, FS_EmptySet
<1>7. Budget \in Nat /\ scanned \in Nat /\ progress \in Nat
  BY BudgetType DEF BInv
<1>8. QED
  BY <1>1, <1>2, <1>3, <1>5, <1>6, <1>7 DEF BInv, BudgetOK, InChunk

\* Every record popped leaves the set of those to merge and joins those passed.
LEMMA MergeOneBudget == BInv /\ MergeOne => BudgetOK' /\ progress' >= progress
<1> SUFFICES ASSUME BInv, MergeOne PROVE BudgetOK' /\ progress' >= progress
  OBVIOUS
<1>1. /\ UNCHANGED <<log, req, pos, scanned, windows>>
      /\ pc = "merge" /\ pc' \in {"merge", "gone"} /\ popped' = popped + 1
      /\ progress' = progress \/ progress' = scanned + popped'
  BY DEF MergeOne, request, totals
<1>2. Budget' = Budget /\ Width' = Width
  BY <1>1 DEF Budget, Width
<1>3. PICK p \in DOMAIN windows : \E o \in streams[p] :
        /\ o \in Int
        /\ Ahead(p, o)
        /\ DOMAIN streams = DOMAIN windows
        /\ streams' = [streams EXCEPT ![p] = @ \ {o}]
        /\ Reach(p)' = IF req.dir = Back THEN o ELSE o + 1
        /\ \A q \in DOMAIN windows : q # p => Reach(q)' = Reach(q)
  BY PopFacts DEF BInv
<1>4. PICK o \in streams[p] :
        /\ o \in Int
        /\ Ahead(p, o)
        /\ DOMAIN streams = DOMAIN windows
        /\ streams' = [streams EXCEPT ![p] = @ \ {o}]
        /\ Reach(p)' = IF req.dir = Back THEN o ELSE o + 1
        /\ \A q \in DOMAIN windows : q # p => Reach(q)' = Reach(q)
  BY <1>3
<1>5. /\ IsFiniteSet(Width) /\ Cardinality(Width) \in Nat
      /\ IsFiniteSet(Left) /\ Cardinality(Left) \in Nat
      /\ IsFiniteSet(Seen) /\ Cardinality(Seen) \in Nat
  <2>1. Left \in SUBSET Width /\ Seen \in SUBSET Width
    BY <1>1, ChunkSets DEF BInv
  <2>2. IsFiniteSet(Width)
    BY <1>1 DEF BInv, BudgetOK, InChunk
  <2>3. QED
    BY <2>1, <2>2, FS_Subset, FS_CardinalityType
<1>6. Cardinality(Left') = Cardinality(Left) - 1 /\ Cardinality(Left') \in Nat
  <2>1. Left' = Left \ {<<p, o>>} /\ <<p, o>> \in Left
    <3>1. streams'[p] = streams[p] \ {o}
          /\ \A q \in DOMAIN windows : q # p => streams'[q] = streams[q]
      BY <1>4
    <3>2. QED
      BY <1>1, <1>4, <3>1 DEF Left
  <2>2. QED
    BY <1>5, <2>1, FS_RemoveElement, FS_CardinalityType
<1>7. Cardinality(Seen) + 1 <= Cardinality(Seen') /\ Cardinality(Seen') \in Nat
  <2>1. \A q \in DOMAIN windows :
          Between(pos[q], Reach(q), req.dir) \subseteq Between(pos[q], Reach(q)', req.dir)
    BY <1>1, <1>4, MergeFacts, LogFacts DEF BInv, IInv, Ahead, Between
  <2>2. o \in Between(pos[p], Reach(p)', req.dir)
    BY <1>1, <1>4, MergeFacts, LogFacts DEF BInv, IInv, Ahead, Between
  <2>3. o \notin Between(pos[p], Reach(p), req.dir)
    BY <1>1, <1>4, MergeFacts, LogFacts DEF BInv, IInv, Ahead, Between
  <2>4. Seen' = UNION {{q} \X Between(pos[q], Reach(q)', req.dir) : q \in DOMAIN windows}
    BY <1>1 DEF Seen
  <2>5. Seen \cup {<<p, o>>} \in SUBSET Seen' /\ <<p, o>> \notin Seen
    BY <2>1, <2>2, <2>3, <2>4 DEF Seen
  <2>6. IsFiniteSet(Seen')
    <3>1. \A q \in DOMAIN windows :
            Between(pos[q], Reach(q)', req.dir)
              \subseteq windows[q].start .. windows[q].end - 1
      BY <1>1, <1>4, MergeFacts, LogFacts DEF BInv, IInv, Ahead, Between
    <3>2. Seen' \in SUBSET Width
      BY <2>4, <3>1 DEF Width, WindowOffsets
    <3>3. QED
      BY <1>5, <3>2, FS_Subset
  <2>7. Cardinality(Seen \cup {<<p, o>>}) = Cardinality(Seen) + 1
    BY <1>5, <2>5, FS_AddElement
  <2>8. Cardinality(Seen \cup {<<p, o>>}) <= Cardinality(Seen')
    BY <2>5, <2>6, FS_Subset
  <2>9. QED
    BY <2>6, <2>7, <2>8, FS_CardinalityType
<1>8. Budget \in Nat /\ scanned \in Nat /\ popped \in Nat /\ progress \in Nat
  BY BudgetType DEF BInv
<1>9. /\ progress <= scanned + popped /\ scanned <= Budget
      /\ popped + Cardinality(Left) <= Budget - scanned
      /\ popped <= Cardinality(Seen)
      /\ Cardinality(Width) <= Budget - scanned
  BY <1>1 DEF BInv, BudgetOK, InChunk
<1>10. /\ popped' + Cardinality(Left') <= Budget - scanned
       /\ popped' <= Cardinality(Seen')
       /\ progress' <= scanned + popped' /\ progress' <= Budget /\ progress' >= progress
  BY <1>1, <1>5, <1>6, <1>7, <1>8, <1>9
<1>11. progress <= Budget
  BY DEF BInv, BudgetOK
<1>12. QED
  BY <1>1, <1>2, <1>5, <1>9, <1>10, <1>11 DEF BudgetOK, InChunk

\* A commit charges at least the records the merge popped and at most the width
\* of the windows.
LEMMA CommitChunkBudget == BInv /\ CommitChunk => BudgetOK' /\ progress' >= progress
<1> SUFFICES ASSUME BInv, CommitChunk PROVE BudgetOK' /\ progress' >= progress
  OBVIOUS
<1>1. /\ UNCHANGED req
      /\ pc = "merge" /\ pc' \in {"gone", "loop", "finish"}
      /\ scanned' = scanned + Charge(pos, NewPositions)
      /\ progress' = scanned' \/ (progress' = progress /\ pc' = "gone")
  BY DEF CommitChunk, request, channel
<1>2. Budget' = Budget
  BY <1>1 DEF Budget
<1>3. /\ Seen \in SUBSET Crossed(pos, NewPositions)
      /\ Crossed(pos, NewPositions) \in SUBSET Width
  BY <1>1, ChunkSets DEF BInv
<1>4. IsFiniteSet(Width) /\ Cardinality(Width) <= Budget - scanned
      /\ progress <= scanned + popped /\ popped <= Cardinality(Seen)
      /\ progress <= Budget
  BY <1>1 DEF BInv, BudgetOK, InChunk
<1>5. IsFiniteSet(Crossed(pos, NewPositions))
      /\ Charge(pos, NewPositions) <= Cardinality(Width)
  BY <1>3, <1>4, FS_Subset DEF Charge
<1>6. IsFiniteSet(Seen) /\ Cardinality(Seen) <= Charge(pos, NewPositions)
  BY <1>3, <1>5, FS_Subset DEF Charge
<1>7. /\ Charge(pos, NewPositions) \in Nat
      /\ Cardinality(Width) \in Nat /\ Cardinality(Seen) \in Nat
  BY <1>4, <1>5, <1>6, FS_CardinalityType DEF Charge
<1>8. Budget \in Nat /\ scanned \in Nat /\ popped \in Nat /\ progress \in Nat
  BY BudgetType DEF BInv
<1>9. scanned' <= Budget /\ progress <= scanned'
  BY <1>1, <1>4, <1>5, <1>6, <1>7, <1>8
<1>10. progress' <= Budget /\ progress' >= progress
       /\ (pc' # "gone" => progress' <= scanned')
  BY <1>1, <1>4, <1>7, <1>8, <1>9
<1>11. QED
  BY <1>1, <1>2, <1>9, <1>10 DEF BudgetOK, InChunk

LEMMA BudgetStep == BInv /\ [Next]_vars => BInv' /\ progress' >= progress
<1>1. IInv /\ [Next]_vars => IInv'
  BY StartPageInv, ControlInv, PlanChunkInv, ScanChunkInv, MergeOneInv,
     CommitChunkInv DEF Next, TaskStep
<1>2. BInv /\ [Next]_vars => BudgetOK' /\ progress' >= progress
  <2>1. BInv => progress >= progress
    BY BudgetType DEF BInv
  <2>2. QED
    BY <2>1, ControlBudget, PlanChunkBudget, ScanChunkBudget, MergeOneBudget,
       CommitChunkBudget DEF Next, TaskStep
<1>3. QED
  BY <1>1, <1>2 DEF BInv

\* What a page may scan, and what its progress may say.
THEOREM PageBudget == Spec => []BInv
<1>1. Init => BInv
  BY InitInv, InitBudget DEF BInv
<1>2. BInv /\ [Next]_vars => BInv'
  BY BudgetStep
<1>3. QED
  BY <1>1, <1>2, PTL DEF Spec

\* The scan budget is a hard cap for every request, however it divides among
\* the partitions and whatever the fetches bring.
THEOREM BudgetIsHardHolds == Spec => []BudgetIsHard
<1>1. BInv => BudgetIsHard
  BY DEF BInv, BudgetOK, BudgetIsHard
<1>2. QED
  BY PageBudget, <1>1, PTL

\* The scanned figure never goes backwards, whether it counts the records of a
\* chunk under way or the offsets of a committed one.
THEOREM ProgressNeverDropsHolds == Spec => ProgressNeverDrops
<1>1. BInv /\ [Next]_vars => [progress' >= progress]_progress
  BY BudgetStep
<1>2. QED
  BY PageBudget, <1>1, PTL DEF Spec, ProgressNeverDrops

-----------------------------------------------------------------------------
(* The order in which a chunk's matches are sent (DisplayKeepsOrder).        *)

\* Rows that have a partition, an offset and a timestamp, and nothing else.
RowsOK(rows) ==
    /\ req.dir \in {Back, Forward}
    /\ IsFiniteSet(rows)
    /\ \A r \in rows : r[1] \in Int /\ r[2] \in Int /\ log[r[1]].ts[r[2]] \in Int
    /\ \A r, s \in rows : r[1] = s[1] /\ r[2] = s[2] => r = s

\* A finite set has a first element in a strict order: one that the fewest
\* precede.
LEMMA FirstExists ==
    ASSUME NEW S, IsFiniteSet(S), S # {}, NEW R,
           \A x \in S : <<x, x>> \notin R,
           \A x, y, z \in S : <<x, y>> \in R /\ <<y, z>> \in R => <<x, z>> \in R
    PROVE  \E x \in S : \A y \in S : <<y, x>> \notin R
<1> DEFINE Before(x) == {y \in S : <<y, x>> \in R}
           Counts == {Cardinality(Before(x)) : x \in S}
<1>1. \A x \in S : IsFiniteSet(Before(x)) /\ Cardinality(Before(x)) \in Nat
  BY FS_Subset, FS_CardinalityType
<1>2. Counts \subseteq Nat /\ Counts # {}
  <2>1. \A x \in S : Cardinality(Before(x)) \in Nat
    BY <1>1
  <2> HIDE DEF Before
  <2>2. QED
    BY <2>1
<1> HIDE DEF Counts
<1>3. PICK least \in Counts : \A n \in Counts : least <= n
  BY <1>2, SmallestId
<1>4. PICK x \in S : least = Cardinality(Before(x))
  BY <1>3 DEF Counts
<1>5. ASSUME NEW y \in S, <<y, x>> \in R PROVE FALSE
  <2>1. Before(y) \subseteq Before(x) /\ y \in Before(x) /\ y \notin Before(y)
    BY <1>4, <1>5
  <2>2. IsFiniteSet(Before(x)) /\ Before(y) # Before(x)
    BY <1>1, <1>4, <2>1
  <2>3. Cardinality(Before(y)) < Cardinality(Before(x))
    <3>1. Before(y) \in SUBSET Before(x)
      BY <2>1
    <3>2. Cardinality(Before(x)) \in Nat /\ Cardinality(Before(y)) \in Nat
      BY <1>1, <1>4, <1>5
    <3> HIDE DEF Before
    <3>3. Cardinality(Before(y)) <= Cardinality(Before(x))
      BY <2>2, <3>1, FS_Subset
    <3>4. Cardinality(Before(y)) # Cardinality(Before(x))
      BY <2>2, <3>1, FS_Subset
    <3>5. QED
      BY <3>2, <3>3, <3>4
  <2>4. Cardinality(Before(y)) \in Counts
    BY <1>5 DEF Counts
  <2>5. Cardinality(Before(x)) \in Nat /\ Cardinality(Before(y)) \in Nat
    BY <1>1, <1>4, <1>5
  <2>6. least <= Cardinality(Before(y))
    BY <1>3, <2>4
  <2> HIDE DEF Before
  <2>7. QED
    BY <1>4, <2>3, <2>5, <2>6
<1>6. QED
  BY <1>4, <1>5

\* Every partition that has a row left has one that leads.
LEMMA LeaderExists ==
    ASSUME NEW rows, RowsOK(rows), NEW rest \in SUBSET rows, NEW s \in rest
    PROVE  \E l \in rest : l[1] = s[1] /\ Leads(l, rest)
<1> DEFINE S == {r \in rest : r[1] = s[1]}
           R == {u \in rows \X rows : ComesAfter(u[2][2], u[1][2])}
<1>1. IsFiniteSet(S) /\ S # {} /\ S \subseteq rows
  BY FS_Subset DEF RowsOK
<1>2. \A x, y \in S : <<x, y>> \in R <=> ComesAfter(y[2], x[2])
  <2>1. \A x, y \in S : <<x, y>> \in rows \X rows /\ <<x, y>>[1] = x /\ <<x, y>>[2] = y
    BY <1>1
  <2> HIDE DEF S
  <2>2. QED
    BY <2>1
<1>3. \A x \in S : x[2] \in Int
  BY <1>1 DEF RowsOK
<1> HIDE DEF S, R
<1>4. \A x \in S : <<x, x>> \notin R
  BY <1>2, <1>3 DEF ComesAfter
<1>5. \A x, y, z \in S : <<x, y>> \in R /\ <<y, z>> \in R => <<x, z>> \in R
  BY <1>2, <1>3 DEF ComesAfter
<1>6. PICK l \in S : \A y \in S : <<y, l>> \notin R
  BY <1>1, <1>4, <1>5, FirstExists
<1>7. ASSUME NEW r \in rest \ {l}, r[1] = l[1] PROVE ComesAfter(r[2], l[2])
  <2>1. r \in S
    BY <1>6, <1>7 DEF S
  <2>2. r[2] # l[2]
    BY <1>1, <1>6, <1>7, <2>1 DEF RowsOK
  <2>3. ~ComesAfter(l[2], r[2])
    BY <1>2, <1>6, <2>1
  <2>4. QED
    BY <1>3, <1>6, <2>1, <2>2, <2>3 DEF ComesAfter
<1>8. l \in rest /\ l[1] = s[1]
  BY <1>6 DEF S
<1>9. QED
  BY <1>7, <1>8 DEF Leads

\* Of the rows that lead their partitions one is preferred to all others.
LEMMA NextRowExists ==
    ASSUME NEW rows, RowsOK(rows), NEW rest \in SUBSET rows, rest # {}
    PROVE  \E r \in rest : IsNextRow(r, rest)
<1> DEFINE S == {r \in rest : Leads(r, rest)}
           R == {u \in rows \X rows : MergePrefers(u[1][1], u[1][2], u[2][1], u[2][2])}
<1>1. IsFiniteSet(S) /\ S # {} /\ S \subseteq rows
  <2>1. S \subseteq rows
    OBVIOUS
  <2>2. S # {}
    BY LeaderExists
  <2>3. QED
    BY <2>1, <2>2, FS_Subset DEF RowsOK
<1>2. \A x, y \in S : <<x, y>> \in R <=> MergePrefers(x[1], x[2], y[1], y[2])
  <2>1. \A x, y \in S : <<x, y>> \in rows \X rows /\ <<x, y>>[1] = x /\ <<x, y>>[2] = y
    BY <1>1
  <2> HIDE DEF S
  <2>2. QED
    BY <2>1
<1>3. \A x \in S : x[1] \in Int /\ log[x[1]].ts[x[2]] \in Int
  BY <1>1 DEF RowsOK
<1> HIDE DEF S, R
<1>4. \A x \in S : <<x, x>> \notin R
  BY <1>2, <1>3 DEF MergePrefers
<1>5. \A x, y, z \in S : <<x, y>> \in R /\ <<y, z>> \in R => <<x, z>> \in R
  BY <1>2, <1>3 DEF MergePrefers
<1>6. PICK r \in S : \A y \in S : <<y, r>> \notin R
  BY <1>1, <1>4, <1>5, FirstExists
<1>7. ASSUME NEW s \in rest, s[1] # r[1], Leads(s, rest) PROVE MergePrefers(r[1], r[2], s[1], s[2])
  <2>1. s \in S
    BY <1>7 DEF S
  <2>2. ~MergePrefers(s[1], s[2], r[1], r[2])
    BY <1>2, <1>6, <2>1
  <2>3. QED
    BY <1>3, <1>6, <1>7, <2>1, <2>2 DEF MergePrefers
<1>8. r \in rest /\ Leads(r, rest)
  BY <1>6 DEF S
<1>9. QED
  BY <1>7, <1>8 DEF IsNextRow

\* Row s may be sent after row r.
MayFollow(r, s, rows) ==
    /\ r[1] = s[1] => ComesAfter(s[2], r[2])
    /\ Monotone(rows) => ~MergePrefers(s[1], s[2], r[1], r[2])

LEMMA OthersFollow ==
    ASSUME NEW rows, RowsOK(rows), NEW rest \in SUBSET rows,
           NEW r \in rest, IsNextRow(r, rest), NEW s \in rest \ {r}
    PROVE  MayFollow(r, s, rows)
<1>1. Leads(r, rest) /\ r[1] = s[1] => ComesAfter(s[2], r[2])
  BY DEF Leads
<1>2. /\ r \in rows /\ s \in rows /\ r[1] \in Int /\ s[1] \in Int /\ r[2] \in Int /\ s[2] \in Int
      /\ log[r[1]].ts[r[2]] \in Int /\ log[s[1]].ts[s[2]] \in Int
      /\ req.dir \in {Back, Forward} /\ Back # Forward
  BY DEF RowsOK, Back, Forward
<1>3. ASSUME Monotone(rows) PROVE ~MergePrefers(s[1], s[2], r[1], r[2])
  <2>1. CASE r[1] = s[1]
    <3>1. ComesAfter(s[2], r[2])
      BY <1>1, <2>1 DEF IsNextRow
    <3>2. CASE req.dir = Back
      <4>1. log[s[1]].ts[s[2]] <= log[r[1]].ts[r[2]]
        BY <1>2, <1>3, <2>1, <3>1, <3>2 DEF Monotone, ComesAfter
      <4>2. QED
        BY <1>2, <2>1, <3>2, <4>1 DEF MergePrefers
    <3>3. CASE req.dir = Forward
      <4>1. log[r[1]].ts[r[2]] <= log[s[1]].ts[s[2]]
        BY <1>2, <1>3, <2>1, <3>1, <3>3 DEF Monotone, ComesAfter
      <4>2. QED
        BY <1>2, <2>1, <3>3, <4>1 DEF MergePrefers
    <3>4. QED
      BY <1>2, <3>2, <3>3
  <2>2. CASE r[1] # s[1]
    <3>1. PICK l \in rest : l[1] = s[1] /\ Leads(l, rest)
      BY LeaderExists
    <3>2. MergePrefers(r[1], r[2], l[1], l[2])
      BY <2>2, <3>1 DEF IsNextRow
    <3>3. s = l \/ ComesAfter(s[2], l[2])
      BY <3>1 DEF Leads
    <3>4. l \in rows /\ l[2] \in Int /\ log[l[1]].ts[l[2]] \in Int
      BY DEF RowsOK
    <3>5. CASE req.dir = Back
      <4>1. log[s[1]].ts[s[2]] <= log[l[1]].ts[l[2]]
        BY <1>2, <1>3, <3>1, <3>3, <3>4, <3>5 DEF Monotone, ComesAfter
      <4>2. QED
        BY <1>2, <3>1, <3>2, <3>4, <3>5, <4>1 DEF MergePrefers
    <3>6. CASE req.dir = Forward
      <4>1. log[l[1]].ts[l[2]] <= log[s[1]].ts[s[2]]
        BY <1>2, <1>3, <3>1, <3>3, <3>4, <3>6 DEF Monotone, ComesAfter
      <4>2. QED
        BY <1>2, <3>1, <3>2, <3>4, <3>6, <4>1 DEF MergePrefers
    <3>7. QED
      BY <1>2, <3>5, <3>6
  <2>3. QED
    BY <2>1, <2>2
<1>4. QED
  BY <1>1, <1>3 DEF MayFollow, IsNextRow

\* What the merge sends of what is left, given what it would send of less.
SentOf(order, rest) ==
    IF rest = {} THEN <<>>
    ELSE LET row == CHOOSE r \in rest : IsNextRow(r, rest)
         IN  <<row>> \o order[rest \ {row}]

LEMMA OneIsSent ==
    ASSUME NEW rows, RowsOK(rows), NEW rest \in SUBSET rows, rest # {}
    PROVE  \E row \in rest :
             /\ IsNextRow(row, rest)
             /\ \A order : SentOf(order, rest) = <<row>> \o order[rest \ {row}]
             /\ Cardinality(rest) \in Nat
             /\ Cardinality(rest \ {row}) = Cardinality(rest) - 1
<1> DEFINE row == CHOOSE r \in rest : IsNextRow(r, rest)
<1>1. row \in rest /\ IsNextRow(row, rest)
  BY NextRowExists
<1>2. IsFiniteSet(rest)
  BY FS_Subset DEF RowsOK
<1>3. Cardinality(rest) \in Nat
  BY <1>2, FS_CardinalityType
<1>4. Cardinality(rest \ {row}) = Cardinality(rest) - 1
  <2> HIDE DEF row
  <2>1. QED
    BY <1>1, <1>2, FS_RemoveElement
<1>5. \A order : SentOf(order, rest) = <<row>> \o order[rest \ {row}]
  BY DEF SentOf
<1>6. QED
  BY <1>1, <1>3, <1>4, <1>5

\* The function by which the merge is defined exists: of the smallest sizes of
\* a remainder for which it did not, it would.
LEMMA OrderExists ==
    ASSUME NEW rows, RowsOK(rows)
    PROVE  \E order : /\ order = [rest \in SUBSET rows |-> SentOf(order, rest)]
                      /\ ChunkDisplayOrder(rows) = order[rows]
<1> DEFINE Small(n) == {rest \in SUBSET rows : Cardinality(rest) <= n}
           Is(order, n) == order = [rest \in Small(n) |-> SentOf(order, rest)]
           Missing == {n \in Nat : ~ \E order : Is(order, n)}
<1>1. Missing = {}
  <2> SUFFICES ASSUME Missing # {} PROVE FALSE
    OBVIOUS
  <2>1. PICK n \in Missing : \A k \in Missing : n <= k
    <3>1. Missing \subseteq Nat
      OBVIOUS
    <3> HIDE DEF Missing
    <3>2. QED
      BY <3>1, SmallestId
  <2>2. n \in Nat /\ (n # 0 => n - 1 \in Nat \ Missing)
    <3>1. n \in Nat
      OBVIOUS
    <3>2. n # 0 => n - 1 \in Nat /\ ~ n <= n - 1
      BY <3>1
    <3> HIDE DEF Missing
    <3>3. QED
      BY <2>1, <3>1, <3>2
  <2>3. \E order : \A rest \in Small(n - 1) : n # 0 => order[rest] = SentOf(order, rest)
    <3>1. n # 0 => \E order : Is(order, n - 1)
      BY <2>2
    <3>2. CASE n # 0
      <4>1. PICK order : Is(order, n - 1)
        BY <3>1, <3>2
      <4>2. \A rest \in Small(n - 1) : order[rest] = SentOf(order, rest)
        BY <4>1
      <4>3. QED
        BY <4>2
    <3>3. QED
      BY <3>2
  <2>4. PICK order : \A rest \in Small(n - 1) : n # 0 => order[rest] = SentOf(order, rest)
    BY <2>3
  <2> DEFINE grown == [rest \in Small(n) |-> IF rest \in Small(n - 1) THEN order[rest]
                                             ELSE SentOf(order, rest)]
  <2>5. ASSUME NEW rest \in Small(n) PROVE grown[rest] = SentOf(grown, rest)
    <3>1. rest \in SUBSET rows /\ Cardinality(rest) <= n
      OBVIOUS
    <3>2. CASE rest = {}
      <4>1. \A f : SentOf(f, rest) = <<>>
        BY <3>2 DEF SentOf
      <4>2. rest \in Small(n - 1) => n # 0
        BY <3>2, FS_EmptySet
      <4>3. QED
        BY <2>4, <4>1, <4>2
    <3>3. CASE rest # {}
      <4>1. PICK row \in rest :
               /\ \A f : SentOf(f, rest) = <<row>> \o f[rest \ {row}]
               /\ Cardinality(rest) \in Nat
               /\ Cardinality(rest \ {row}) = Cardinality(rest) - 1
        BY <3>1, <3>3, OneIsSent
      <4>2. rest \ {row} \in Small(n - 1) /\ rest \ {row} \in Small(n) /\ n # 0
        <5>1. Cardinality(rest) # 0
          <6>1. IsFiniteSet(rest)
            BY <3>1, FS_Subset DEF RowsOK
          <6>2. QED
            BY <3>3, <6>1, FS_EmptySet
        <5>2. QED
          BY <2>2, <3>1, <4>1, <5>1
      <4>3. grown[rest \ {row}] = order[rest \ {row}]
        BY <4>2
      <4>4. SentOf(grown, rest) = SentOf(order, rest)
        <5> HIDE DEF grown
        <5>1. QED
          BY <4>1, <4>3
      <4>5. rest \in Small(n - 1) => order[rest] = SentOf(order, rest)
        BY <2>4, <4>2
      <4>6. grown[rest] = SentOf(order, rest)
        <5> HIDE DEF Small
        <5>1. QED
          BY <4>5
      <4>7. QED
        BY <4>4, <4>6
    <3>4. QED
      BY <3>2, <3>3
  <2>6. grown = [rest \in Small(n) |-> grown[rest]]
    OBVIOUS
  <2> HIDE DEF grown, Small
  <2>7. Is(grown, n)
    BY <2>5, <2>6
  <2>8. QED
    BY <2>1, <2>7
<1>2. Cardinality(rows) \in Nat
  BY FS_CardinalityType DEF RowsOK
<1>3. PICK order : Is(order, Cardinality(rows))
  BY <1>1, <1>2
<1>4. Small(Cardinality(rows)) = SUBSET rows
  BY FS_Subset DEF RowsOK
<1>5. order = [rest \in SUBSET rows |-> SentOf(order, rest)]
  BY <1>3, <1>4
<1> DEFINE Order == CHOOSE f : f = [rest \in SUBSET rows |-> SentOf(f, rest)]
<1>6. Order = [rest \in SUBSET rows |-> SentOf(Order, rest)]
  <2> HIDE DEF Small, Is
  <2>1. QED
    BY <1>5
<1>7. ChunkDisplayOrder(rows) = Order[rows]
  BY DEF ChunkDisplayOrder, SentOf
<1>8. QED
  BY <1>6, <1>7

\* Every row once, and none before one that it may not precede.
Merged(sent, rest, rows) ==
    /\ sent \in Seq(rest) /\ Len(sent) = Cardinality(rest)
    /\ rest = {sent[i] : i \in 1 .. Len(sent)}
    /\ \A i, j \in 1 .. Len(sent) : i < j => MayFollow(sent[i], sent[j], rows)

LEMMA MergeOneMore ==
    ASSUME NEW rows, RowsOK(rows), NEW rest \in SUBSET rows,
           NEW row \in rest, IsNextRow(row, rest), NEW sent, Merged(sent, rest \ {row}, rows),
           Cardinality(rest) \in Nat, Cardinality(rest \ {row}) = Cardinality(rest) - 1
    PROVE  Merged(<<row>> \o sent, rest, rows)
<1> DEFINE one == <<row>>
           all == one \o sent
<1>1. one \in Seq(rest) /\ Len(one) = 1 /\ one[1] = row
  OBVIOUS
<1>2. sent \in Seq(rest) /\ Len(sent) = Cardinality(rest) - 1 /\ Len(sent) \in Nat
  BY DEF Merged
<1> HIDE DEF one
<1>3. /\ all \in Seq(rest) /\ Len(all) = 1 + Len(sent)
      /\ \A i \in 1 .. 1 + Len(sent) : all[i] = IF i <= 1 THEN one[i] ELSE sent[i - 1]
  <2>1. /\ one \o sent \in Seq(rest) /\ Len(one \o sent) = Len(one) + Len(sent)
        /\ \A i \in 1 .. Len(one) + Len(sent) :
             (one \o sent)[i] = IF i <= Len(one) THEN one[i] ELSE sent[i - Len(one)]
    BY <1>1, <1>2, ConcatProperties
  <2> HIDE DEF all
  <2>2. all = one \o sent
    BY DEF all
  <2>3. QED
    BY <1>1, <2>1, <2>2
<1> HIDE DEF all
<1>4. all[1] = row /\ \A i \in 1 .. Len(sent) : all[i + 1] = sent[i]
  BY <1>1, <1>2, <1>3
<1>5. rest \ {row} = {sent[i] : i \in 1 .. Len(sent)}
  BY DEF Merged
<1>6. rest = {all[i] : i \in 1 .. Len(all)}
  <2>1. ASSUME NEW r \in rest PROVE \E i \in 1 .. Len(all) : r = all[i]
    <3>1. CASE r = row
      BY <1>2, <1>3, <1>4, <3>1
    <3>2. CASE r # row
      <4>1. PICK i \in 1 .. Len(sent) : r = sent[i]
        BY <1>5, <3>2
      <4>2. i + 1 \in 1 .. Len(all) /\ r = all[i + 1]
        BY <1>2, <1>3, <1>4, <4>1
      <4>3. QED
        BY <4>2
    <3>3. QED
      BY <3>1, <3>2
  <2>2. \A i \in 1 .. Len(all) : all[i] \in rest
    BY <1>2, <1>3
  <2>3. QED
    BY <2>1, <2>2
<1>7. ASSUME NEW i \in 1 .. Len(all), NEW j \in 1 .. Len(all), i < j
      PROVE  MayFollow(all[i], all[j], rows)
  <2>1. j - 1 \in 1 .. Len(sent) /\ all[j] = sent[j - 1]
    BY <1>2, <1>3, <1>7
  <2>2. CASE i = 1
    <3>1. all[j] \in rest \ {row}
      BY <1>5, <2>1
    <3>2. all[i] = row
      BY <1>4, <2>2
    <3>3. QED
      BY <3>1, <3>2, OthersFollow
  <2>3. CASE i # 1
    <3>1. i - 1 \in 1 .. Len(sent) /\ all[i] = sent[i - 1] /\ i - 1 < j - 1
      BY <1>2, <1>3, <1>7, <2>3
    <3>2. QED
      BY <2>1, <3>1 DEF Merged
  <2>4. QED
    BY <2>2, <2>3
<1>8. Merged(all, rest, rows)
  <2>1. Len(all) = Cardinality(rest)
    BY <1>2, <1>3
  <2>2. all \in Seq(rest)
    BY <1>3
  <2>3. QED
    BY <1>6, <1>7, <2>1, <2>2, Zenon DEF Merged
<1>9. QED
  BY <1>8 DEF all, one

\* By induction on how much is left.
LEMMA DisplayIsMerged ==
    ASSUME NEW rows, RowsOK(rows)
    PROVE  Merged(ChunkDisplayOrder(rows), rows, rows)
<1>1. PICK order : /\ order = [rest \in SUBSET rows |-> SentOf(order, rest)]
                   /\ ChunkDisplayOrder(rows) = order[rows]
  BY OrderExists
<1>2. \A rest \in SUBSET rows : order[rest] = SentOf(order, rest)
  BY <1>1
<1> DEFINE Wrong == {rest \in SUBSET rows : ~Merged(order[rest], rest, rows)}
           Sizes == {Cardinality(rest) : rest \in Wrong}
<1>3. Wrong = {}
  <2> SUFFICES ASSUME Wrong # {} PROVE FALSE
    OBVIOUS
  <2>1. ASSUME NEW rest \in SUBSET rows
        PROVE  IsFiniteSet(rest) /\ Cardinality(rest) \in Nat
    BY FS_Subset, FS_CardinalityType DEF RowsOK
  <2>2. Sizes \subseteq Nat /\ Sizes # {}
    BY <2>1
  <2>3. PICK n \in Sizes : \A k \in Sizes : n <= k
    <3> HIDE DEF Sizes
    <3>1. QED
      BY <2>2, SmallestId
  <2>4. PICK rest \in Wrong : n = Cardinality(rest)
    BY <2>3
  <2>5. rest \in SUBSET rows /\ ~Merged(order[rest], rest, rows)
    BY <2>4
  <2>6. CASE rest = {}
    <3>1. order[rest] = <<>>
      BY <1>2, <2>5, <2>6 DEF SentOf
    <3>2. <<>> \in Seq(rest) /\ Len(<<>>) = 0
      BY EmptySeq
    <3>3. Cardinality(rest) = 0
      BY <2>6, FS_EmptySet
    <3>4. QED
      BY <2>5, <2>6, <3>1, <3>2, <3>3 DEF Merged
  <2>7. CASE rest # {}
    <3>1. PICK row \in rest :
             /\ IsNextRow(row, rest)
             /\ \A f : SentOf(f, rest) = <<row>> \o f[rest \ {row}]
             /\ Cardinality(rest) \in Nat
             /\ Cardinality(rest \ {row}) = Cardinality(rest) - 1
      BY <2>5, <2>7, OneIsSent
    <3>2. rest \ {row} \notin Wrong
      <4>1. Cardinality(rest \ {row}) \notin Sizes
        <5>1. ~ n <= n - 1 /\ Cardinality(rest \ {row}) = n - 1
          <6> HIDE DEF Wrong, Sizes
          <6>1. n = Cardinality(rest) /\ n \in Nat
            BY <2>4, <3>1
          <6>2. QED
            BY <3>1, <6>1
        <5> HIDE DEF Sizes
        <5>2. QED
          BY <2>3, <5>1
      <4>2. QED
        BY <4>1
    <3>3. Merged(order[rest \ {row}], rest \ {row}, rows)
      BY <2>5, <3>2
    <3>4. order[rest] = <<row>> \o order[rest \ {row}]
      BY <1>2, <2>5, <3>1
    <3>5. QED
      BY <2>5, <3>1, <3>3, <3>4, MergeOneMore
  <2>8. QED
    BY <2>6, <2>7
<1>4. rows \in SUBSET rows
  OBVIOUS
<1>5. QED
  BY <1>1, <1>3, <1>4

\* What a chunk may send are rows of the log.
LEMMA HitsAreRows ==
    ASSUME IInv, pc = "merge"
    PROVE  RowsOK(hits)
<1>1. /\ hits = Covered(AtWindows, Reached) /\ PositionsOK /\ WindowsOK /\ RequestOK
      /\ IsFiniteSet(hits)
  BY DEF IInv, MergeOK, HitsOK
<1>2. DOMAIN windows \subseteq DOMAIN log
  BY <1>1 DEF PositionsOK, WindowsOK, InChunk
<1>3. DOMAIN log \subseteq Int
  <2>1. DOMAIN log \subseteq Partitions
    BY <1>1, LogFacts
  <2>2. \A p \in Partitions : p \in Nat
    BY ConstantsAssumption
  <2>3. \A p \in DOMAIN log : p \in Nat
    BY <2>1, <2>2
  <2>4. QED
    BY <2>3
<1>4. ASSUME NEW r \in hits
      PROVE  \E p \in DOMAIN log : \E o \in log[p].recs : r = <<p, o>>
  <2>1. PICK p \in DOMAIN windows : \E o \in log[p].recs : r = <<p, o>>
    BY <1>1, InCovered DEF AtWindows
  <2>2. QED
    BY <1>2, <2>1
<1>5. ASSUME NEW r \in hits
      PROVE  r[1] \in Int /\ r[2] \in Int /\ log[r[1]].ts[r[2]] \in Int /\ r = <<r[1], r[2]>>
  <2>0. PICK p \in DOMAIN log : \E o \in log[p].recs : r = <<p, o>>
    BY <1>4
  <2>1. PICK o \in log[p].recs : r = <<p, o>>
    BY <2>0
  <2>2. p \in Int /\ o \in Int
    BY <1>1, <1>3, <2>1, LogFacts
  <2>3. log[p].ts[o] \in Int
    BY <1>1, <2>1, LogsAssumption DEF RequestOK
  <2>4. QED
    BY <2>1, <2>2, <2>3
<1>6. \A r, s \in hits : r[1] = s[1] /\ r[2] = s[2] => r = s
  BY <1>5
<1>7. req.dir \in {Back, Forward}
  BY <1>1, LogFacts
<1>8. QED
  BY <1>1, <1>5, <1>6, <1>7 DEF RowsOK

\* A chunk goes on where the chunks before it ended.
LEMMA HitsFollowDelivered ==
    ASSUME IInv, pc = "merge", NEW sent \in delivered, NEW row \in hits, sent[1] = row[1]
    PROVE  ComesAfter(row[2], sent[2])
<1>1. /\ hits = Covered(AtWindows, Reached) /\ delivered = Covered(start, pos)
      /\ PositionsOK /\ RequestOK /\ DOMAIN start = DOMAIN pos
  BY DEF IInv, MergeOK, HitsOK, ExactOK, Running, PositionsOK
<1>2. PICK p \in DOMAIN windows : \E x \in log[p].recs :
          row = <<p, x>> /\ x \in Between(pos[p], Reach(p), req.dir)
  BY <1>1, InCovered DEF AtWindows, Reached
<1>3. PICK x \in log[p].recs : row = <<p, x>> /\ x \in Between(pos[p], Reach(p), req.dir)
  BY <1>2
<1>4. PICK q \in DOMAIN start : \E y \in log[q].recs :
          sent = <<q, y>> /\ y \in Between(start[q], pos[q], req.dir)
  BY <1>1, InCovered
<1>5. PICK y \in log[q].recs : sent = <<q, y>> /\ y \in Between(start[q], pos[q], req.dir)
  BY <1>4
<1>6. p = q /\ row[2] = x /\ sent[2] = y
  BY <1>3, <1>5
<1>7. /\ pos[p] \in Int /\ start[p] \in Int /\ Reach(p) \in Int /\ x \in Int /\ y \in Int
      /\ req.dir \in {Back, Forward} /\ Back # Forward
  BY <1>1, <1>6, MergeFacts, LogFacts
<1>8. QED
  BY <1>3, <1>5, <1>6, <1>7 DEF Between, ComesAfter

\* chunk_display_order (merge.rs): for every topic content and filter, a chunk
\* sends each of its matches once, and no row of a partition before one that
\* precedes it, in this chunk or an earlier one; where the clocks of all
\* partitions run forward, it is in order of time.
THEOREM DisplayKeepsOrderHolds == Spec => []DisplayKeepsOrder
<1>1. IInv => DisplayKeepsOrder
  <2> SUFFICES ASSUME IInv, pc = "merge", MergeIsOver PROVE DisplayKeepsOrder
    BY DEF DisplayKeepsOrder
  <2> DEFINE all == ChunkDisplayOrder(hits)
  <2>1. RowsOK(hits) /\ EmitChunk = all
    BY HitsAreRows DEF EmitChunk
  <2>2. Merged(all, hits, hits)
    BY <2>1, DisplayIsMerged
  <2>3. \A sent \in delivered, row \in hits : sent[1] = row[1] => ComesAfter(row[2], sent[2])
    BY HitsFollowDelivered
  <2> HIDE DEF all
  <2>4. QED
    BY <2>1, <2>2, <2>3 DEF Merged, MayFollow, DisplayKeepsOrder
<1>2. QED
  BY PageInvariant, <1>1, PTL

=============================================================================
