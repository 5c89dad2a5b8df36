-------------------------- MODULE TimelineViewProofs --------------------------
(***************************************************************************)
(* Proofs about TimelineView: the virtual timeline holds a window of the   *)
(* topic's rows that pages extend at both edges, a live stream at the top, *)
(* and the cap trims at either.                                            *)
(*                                                                         *)
(* None of the properties is inductive.  They follow from two invariants.  *)
(*                                                                         *)
(*   TidyInv   whatever the backend answers: types, caps, all positions    *)
(*             within the heads, a view attached only if its window is,    *)
(*             and a detached window that always has a top to go on from.  *)
(*   SoundInv  while no partition can be left out of an answer: no row     *)
(*             between the edges of the window is missing, in terms of     *)
(*             edges that survive trims, late rows and pages in flight.    *)
(*                                                                         *)
(* The steps that move rows are proved one layer at a time: merging a page *)
(* or live rows into a window, enforcing the cap, what a handler makes of  *)
(* a view (Settles, Remains, Keeps), and then each action.                 *)
(***************************************************************************)
EXTENDS TimelineView, FiniteSetTheorems, WellFoundedInduction, TLAPS

-----------------------------------------------------------------------------
(* Rows, and the lowest and the highest of a partition's.                    *)

\* A row is a partition and an offset below the last high watermark.
LEMMA RowFacts ==
    \A r \in Rows : /\ r = <<r[1], r[2]>> /\ r[1] \in Partitions
                    /\ r[2] \in Nat /\ r[2] < LastHead[r[1]]
BY ViewAssumption DEF Rows

\* A topic has finitely many rows.
LEMMA RowsFinite == IsFiniteSet(Rows)
<1> DEFINE T == {{p} \X Records[p] : p \in Partitions}
           f == [p \in Partitions |-> {p} \X Records[p]]
<1>1. f \in Surjection(Partitions, T)
  BY DEF Surjection
<1>2. IsFiniteSet(T)
  BY <1>1, ViewAssumption, FS_Surjection
<1>3. \A t \in T : IsFiniteSet(t)
  <2>1. SUFFICES ASSUME NEW p \in Partitions PROVE IsFiniteSet({p} \X Records[p])
    OBVIOUS
  <2>2. LastHead[p] \in Nat /\ Records[p] \subseteq 0 .. LastHead[p] - 1
    BY ViewAssumption
  <2>3. Records[p] \in SUBSET Nat /\ \A o \in Records[p] : o <= LastHead[p]
    BY <2>2
  <2>4. IsFiniteSet(Records[p])
    BY <2>2, <2>3, FS_BoundedSetOfNaturals
  <2>5. QED
    BY <2>4, FS_Singleton, FS_Product
<1>4. QED
  BY <1>2, <1>3, FS_UNION DEF Rows

\* A set of natural numbers that is not empty has a least one.
LEMMA SmallestOffset ==
    ASSUME NEW T, T \subseteq Nat, T # {}
    PROVE  \E x \in T : \A y \in T : x <= y
<1> DEFINE R == OpToRel(<, Nat)
<1>1. IsWellFoundedOn(R, Nat)
  BY NatLessThanWellFounded
<1> HIDE DEF R
<1>2. PICK x \in T : \A y \in T : ~ (<<y, x>> \in R)
  BY <1>1, WFMin
<1>3. \A y \in T : ~(y < x)
  BY <1>2 DEF R, OpToRel
<1>4. QED
  BY <1>3

\* A set of natural numbers that is not empty and has a bound has a
\* greatest one.
LEMMA LargestOffset ==
    ASSUME NEW T, T \subseteq Nat, T # {}, NEW n \in Nat, \A y \in T : y <= n
    PROVE  \E x \in T : \A y \in T : y <= x
<1> DEFINE Bounds == {m \in Nat : \A y \in T : y <= m}
<1>1. PICK m \in Bounds : \A k \in Bounds : m <= k
  <2>1. Bounds \subseteq Nat /\ Bounds # {}
    OBVIOUS
  <2> HIDE DEF Bounds
  <2>2. QED
    BY <2>1, SmallestOffset
<1>2. CASE m \in T
  BY <1>2
<1>3. CASE m \notin T
  <2>1. \A y \in T : y < m
    BY <1>3
  <2>2. m \in Nat /\ \A y \in T : y \in Nat
    OBVIOUS
  <2>5. m # 0 /\ \A y \in T : y <= m - 1
    <3>1. PICK y \in T : TRUE
      OBVIOUS
    <3>2. QED
      BY <2>1, <2>2, <3>1
  <2>4. m - 1 \in Bounds
    BY <2>2, <2>5
  <2>3. QED
    BY <1>1, <2>4
<1>4. QED
  BY <1>2, <1>3

\* Lowest gives, for each partition of the rows, the offset of its lowest
\* row.
LEMMA LowestFacts ==
    ASSUME NEW rows, rows \subseteq Rows
    PROVE  /\ DOMAIN Lowest(rows) = PartitionsOf(rows)
           /\ PartitionsOf(rows) \subseteq Partitions
           /\ \A p \in PartitionsOf(rows) :
                /\ Lowest(rows)[p] \in Nat
                /\ \E r \in rows : r[1] = p /\ r[2] = Lowest(rows)[p]
           /\ \A r \in rows : r[1] \in PartitionsOf(rows) /\ Lowest(rows)[r[1]] <= r[2]
<1>1. DOMAIN Lowest(rows) = PartitionsOf(rows) /\ PartitionsOf(rows) \subseteq Partitions
  BY RowFacts DEF Lowest, PartitionsOf
<1>2. ASSUME NEW p \in PartitionsOf(rows)
      PROVE  /\ Lowest(rows)[p] \in OffsetsOf(rows, p)
             /\ \A o \in OffsetsOf(rows, p) : Lowest(rows)[p] <= o
  <2>1. OffsetsOf(rows, p) \subseteq Nat /\ OffsetsOf(rows, p) # {}
    BY RowFacts DEF OffsetsOf, PartitionsOf
  <2>2. PICK x \in OffsetsOf(rows, p) : \A y \in OffsetsOf(rows, p) : x <= y
    BY <2>1, SmallestOffset
  <2>3. QED
    BY <2>2 DEF Lowest, Min
<1>3. \A r \in rows : r[1] \in PartitionsOf(rows) /\ r[2] \in OffsetsOf(rows, r[1])
  BY DEF PartitionsOf, OffsetsOf
<1>4. \A p : \A o \in OffsetsOf(rows, p) : \E r \in rows : r[1] = p /\ r[2] = o
  BY DEF OffsetsOf
<1>5. QED
  BY <1>1, <1>2, <1>3, <1>4, RowFacts

\* PastHighest gives, for each partition of the rows, one past the offset
\* of its highest row.
LEMMA PastHighestFacts ==
    ASSUME NEW rows, rows \subseteq Rows
    PROVE  /\ DOMAIN PastHighest(rows) = PartitionsOf(rows)
           /\ PartitionsOf(rows) \subseteq Partitions
           /\ \A p \in PartitionsOf(rows) :
                /\ PastHighest(rows)[p] \in Nat
                /\ \E r \in rows : r[1] = p /\ PastHighest(rows)[p] = r[2] + 1
           /\ \A r \in rows : r[1] \in PartitionsOf(rows) /\ r[2] < PastHighest(rows)[r[1]]
<1>1. DOMAIN PastHighest(rows) = PartitionsOf(rows) /\ PartitionsOf(rows) \subseteq Partitions
  BY RowFacts DEF PastHighest, PartitionsOf
<1>3. \A r \in rows : r[1] \in PartitionsOf(rows) /\ r[2] \in OffsetsOf(rows, r[1])
  BY DEF PartitionsOf, OffsetsOf
<1>4. \A p : \A o \in OffsetsOf(rows, p) : \E r \in rows : r[1] = p /\ r[2] = o
  BY DEF OffsetsOf
<1>2. ASSUME NEW p \in PartitionsOf(rows)
      PROVE  \E x \in OffsetsOf(rows, p) :
                PastHighest(rows)[p] = x + 1 /\ \A o \in OffsetsOf(rows, p) : o <= x
  <2>1. OffsetsOf(rows, p) \subseteq Nat /\ OffsetsOf(rows, p) # {}
    BY RowFacts DEF OffsetsOf, PartitionsOf
  <2>2. LastHead[p] \in Nat /\ \A o \in OffsetsOf(rows, p) : o <= LastHead[p]
    BY <1>1, <1>4, RowFacts, ViewAssumption
  <2>3. PICK x \in OffsetsOf(rows, p) : \A y \in OffsetsOf(rows, p) : y <= x
    BY <2>1, <2>2, LargestOffset
  <2>4. Max(OffsetsOf(rows, p)) \in OffsetsOf(rows, p)
        /\ \A y \in OffsetsOf(rows, p) : Max(OffsetsOf(rows, p)) >= y
    BY <2>3, <2>1 DEF Max
  <2>5. QED
    BY <2>1, <2>4 DEF PastHighest
<1>5. QED
  BY <1>1, <1>2, <1>3, <1>4, RowFacts

-----------------------------------------------------------------------------
(* Maps of positions.                                                        *)

\* A map of positions: an offset for some of the partitions.
Positions == UNION {[ps -> Nat] : ps \in SUBSET Partitions}

\* A map of positions gives natural numbers for some of the partitions.
LEMMA PositionsFacts ==
    ASSUME NEW m \in Positions
    PROVE  /\ DOMAIN m \subseteq Partitions
           /\ \A p \in DOMAIN m : m[p] \in Nat
           /\ m \in [DOMAIN m -> Nat]
BY DEF Positions

\* A function from some of the partitions to natural numbers is a map of
\* positions.
LEMMA PositionsIntro ==
    ASSUME NEW D, D \subseteq Partitions, NEW m \in [D -> Nat]
    PROVE  m \in Positions
BY DEF Positions

\* Setting one map of positions over another: it holds wherever it has an
\* entry.
LEMMA SetOverFacts ==
    ASSUME NEW m \in Positions, NEW n \in Positions
    PROVE  /\ SetOver(m, n) \in Positions
           /\ DOMAIN SetOver(m, n) = DOMAIN m \cup DOMAIN n
           /\ \A p \in DOMAIN m \cup DOMAIN n :
                SetOver(m, n)[p] = IF p \in DOMAIN n THEN n[p] ELSE m[p]
<1>1. DOMAIN m \cup DOMAIN n \subseteq Partitions
  BY PositionsFacts
<1>2. SetOver(m, n) \in [DOMAIN m \cup DOMAIN n -> Nat]
  BY PositionsFacts DEF SetOver
<1>3. QED
  BY <1>1, <1>2, PositionsIntro DEF SetOver

\* Lowering a map of positions by another: the lesser entry, for a
\* partition in either.
LEMMA LoweredFacts ==
    ASSUME NEW m \in Positions, NEW n \in Positions
    PROVE  /\ Lowered(m, n) \in Positions
           /\ DOMAIN Lowered(m, n) = DOMAIN m \cup DOMAIN n
           /\ \A p \in DOMAIN m \cup DOMAIN n :
                /\ p \in DOMAIN m => Lowered(m, n)[p] <= m[p]
                /\ p \in DOMAIN n => Lowered(m, n)[p] <= n[p]
                /\ \/ p \in DOMAIN m /\ Lowered(m, n)[p] = m[p]
                   \/ p \in DOMAIN n /\ Lowered(m, n)[p] = n[p]
<1> DEFINE e == [p \in DOMAIN n |-> IF p \in DOMAIN m /\ m[p] < n[p] THEN m[p] ELSE n[p]]
<1>1. e \in Positions
  BY PositionsFacts, PositionsIntro
<1>2. Lowered(m, n) = SetOver(m, e)
  BY DEF Lowered
<1>3. DOMAIN e = DOMAIN n
  OBVIOUS
<1>4. \A p \in DOMAIN m \cup DOMAIN n :
        SetOver(m, e)[p] = IF p \in DOMAIN n THEN e[p] ELSE m[p]
  BY <1>1, <1>3, SetOverFacts
<1>5. \A p \in DOMAIN n : e[p] = IF p \in DOMAIN m /\ m[p] < n[p] THEN m[p] ELSE n[p]
  OBVIOUS
<1>6. /\ SetOver(m, e) \in Positions
      /\ DOMAIN SetOver(m, e) = DOMAIN m \cup DOMAIN n
  BY <1>1, <1>3, SetOverFacts
<1>7. /\ \A p \in DOMAIN m : m[p] \in Nat
      /\ \A p \in DOMAIN n : n[p] \in Nat
  BY PositionsFacts
<1> HIDE DEF e
<1>8. QED
  BY <1>2, <1>4, <1>5, <1>6, <1>7

\* Raising a map of positions by another: the greater entry, for a
\* partition in either.
LEMMA RaisedFacts ==
    ASSUME NEW m \in Positions, NEW n \in Positions
    PROVE  /\ Raised(m, n) \in Positions
           /\ DOMAIN Raised(m, n) = DOMAIN m \cup DOMAIN n
           /\ \A p \in DOMAIN m \cup DOMAIN n :
                /\ p \in DOMAIN m => m[p] <= Raised(m, n)[p]
                /\ p \in DOMAIN n => n[p] <= Raised(m, n)[p]
                /\ \/ p \in DOMAIN m /\ Raised(m, n)[p] = m[p]
                   \/ p \in DOMAIN n /\ Raised(m, n)[p] = n[p]
<1> DEFINE e == [p \in DOMAIN n |-> IF p \in DOMAIN m /\ m[p] > n[p] THEN m[p] ELSE n[p]]
<1>1. e \in Positions
  BY PositionsFacts, PositionsIntro
<1>2. Raised(m, n) = SetOver(m, e)
  BY DEF Raised
<1>3. DOMAIN e = DOMAIN n
  OBVIOUS
<1>4. \A p \in DOMAIN m \cup DOMAIN n :
        SetOver(m, e)[p] = IF p \in DOMAIN n THEN e[p] ELSE m[p]
  BY <1>1, <1>3, SetOverFacts
<1>5. \A p \in DOMAIN n : e[p] = IF p \in DOMAIN m /\ m[p] > n[p] THEN m[p] ELSE n[p]
  OBVIOUS
<1>6. /\ SetOver(m, e) \in Positions
      /\ DOMAIN SetOver(m, e) = DOMAIN m \cup DOMAIN n
  BY <1>1, <1>3, SetOverFacts
<1>7. /\ \A p \in DOMAIN m : m[p] \in Nat
      /\ \A p \in DOMAIN n : n[p] \in Nat
  BY PositionsFacts
<1> HIDE DEF e
<1>8. QED
  BY <1>2, <1>4, <1>5, <1>6, <1>7

\* The lowest and the highest of a set of rows are maps of positions.
LEMMA EdgeMapsOfRows ==
    ASSUME NEW rows, rows \subseteq Rows
    PROVE  Lowest(rows) \in Positions /\ PastHighest(rows) \in Positions
<1>1. Lowest(rows) \in [PartitionsOf(rows) -> Nat]
  BY LowestFacts DEF Lowest
<1>2. PastHighest(rows) \in [PartitionsOf(rows) -> Nat]
  BY PastHighestFacts DEF PastHighest
<1>3. QED
  BY <1>1, <1>2, LowestFacts, PositionsIntro

\* The map without entries is a map of positions.
LEMMA NoEntriesFacts == NoEntries \in Positions /\ DOMAIN NoEntries = {}
<1>1. NoEntries \in [{} -> Nat] /\ DOMAIN NoEntries = {}
  BY DEF NoEntries
<1>2. QED
  BY <1>1, PositionsIntro

-----------------------------------------------------------------------------
(* Windows, and what a trim leaves.                                          *)

\* The values a window can have.
Windows ==
    [rows : SUBSET Rows, bottom : Positions, top : Positions,
     attached : BOOLEAN, topMatters : BOOLEAN]

\* The window without the rows t, taken from its top, or from its bottom.
TopTrimmed(w, t) ==
    [w EXCEPT !.rows = @ \ t, !.top = TopAfterTrim(@, t, w.rows \ t), !.attached = FALSE]

BottomTrimmed(w, t) == [w EXCEPT !.rows = @ \ t, !.bottom = BottomAfterTrim(@, t)]

\* Enforcing the cap leaves the window as it is or trims the side away from the
\* one that grew.
LEMMA CapOutcomes ==
    ASSUME NEW w \in Windows, NEW grew \in Direction, NEW o \in EnforceCap(w, grew)
    PROVE  /\ \/ o = Outcome(w, FALSE, FALSE)
              \/ /\ grew = Back
                 /\ \E t \in SUBSET w.rows :
                      /\ t # {}
                      /\ \A r \in t, x \in w.rows : x[1] = r[1] /\ x[2] > r[2] => x \in t
                      /\ o = Outcome(TopTrimmed(w, t), TRUE, FALSE)
              \/ /\ grew = Forward
                 /\ \E t \in SUBSET w.rows :
                      /\ t # {}
                      /\ \A r \in t, x \in w.rows : x[1] = r[1] /\ x[2] < r[2] => x \in t
                      /\ o = Outcome(BottomTrimmed(w, t), FALSE, TRUE)
           /\ Cardinality(o.window.rows) <= Cap
<1> DEFINE n == Excess(w.rows)
<1>1. w.rows \subseteq Rows /\ IsFiniteSet(w.rows)
  BY RowsFinite, FS_Subset DEF Windows
<1>2. Cardinality(w.rows) \in Nat /\ Cap \in Nat
  BY <1>1, FS_CardinalityType, CapAssumption
<1>3. n = Cardinality(w.rows) - Cap /\ n \in Int
  BY <1>2 DEF Excess
<1>4. CASE n <= 0
  <2>1. o = Outcome(w, FALSE, FALSE)
    <3>1. Excess(w.rows) <= 0 /\ ~(Excess(w.rows) > 0)
      BY <1>3, <1>4
    <3>2. QED
      BY <3>1 DEF EnforceCap
  <2>2. Cardinality(w.rows) <= Cap
    BY <1>2, <1>3, <1>4
  <2>3. QED
    BY <2>1, <2>2 DEF Outcome
<1>5. ASSUME n > 0, NEW t \in kSubset(n, w.rows)
      PROVE  t \in SUBSET w.rows /\ t # {} /\ Cardinality(w.rows \ t) <= Cap
  <2>1. t \subseteq w.rows /\ Cardinality(t) = n
    BY <1>5 DEF kSubset
  <2>2. Cardinality(w.rows \ t) = Cardinality(w.rows) - Cardinality(w.rows \cap t)
    BY <1>1, FS_Difference
  <2>3. w.rows \cap t = t
    BY <2>1
  <2>4. t # {}
    BY <1>5, <2>1, <1>3, FS_EmptySet
  <2>5. QED
    BY <2>1, <2>2, <2>3, <2>4, <1>2, <1>3
<1>6. CASE n > 0 /\ grew = Back
  <2>1. o \in TrimTop(w, n)
    BY <1>3, <1>6 DEF EnforceCap, Back, Forward
  <2>2. PICK t \in NewestRows(w.rows, n) : o = Outcome(TopTrimmed(w, t), TRUE, FALSE)
    BY <2>1 DEF TrimTop, TopTrimmed
  <2>3. /\ t \in kSubset(n, w.rows)
        /\ \A r \in t, x \in w.rows : x[1] = r[1] /\ x[2] > r[2] => x \in t
    BY DEF NewestRows
  <2>4. o.window.rows = w.rows \ t
    BY <2>2 DEF Outcome, TopTrimmed, Windows
  <2>5. QED
    BY <1>5, <1>6, <2>2, <2>3, <2>4
<1>7. CASE n > 0 /\ grew = Forward
  <2>1. o \in TrimBottom(w, n)
    BY <1>3, <1>7 DEF EnforceCap, Back, Forward
  <2>2. PICK t \in OldestRows(w.rows, n) : o = Outcome(BottomTrimmed(w, t), FALSE, TRUE)
    BY <2>1 DEF TrimBottom, BottomTrimmed
  <2>3. /\ t \in kSubset(n, w.rows)
        /\ \A r \in t, x \in w.rows : x[1] = r[1] /\ x[2] < r[2] => x \in t
    BY DEF OldestRows
  <2>4. o.window.rows = w.rows \ t
    BY <2>2 DEF Outcome, BottomTrimmed, Windows
  <2>5. QED
    BY <1>5, <1>7, <2>2, <2>3, <2>4
<1>8. n <= 0 \/ n > 0
  BY <1>3
<1>9. grew = Back \/ grew = Forward
  BY DEF Direction
<1>10. QED
  BY <1>4, <1>6, <1>7, <1>8, <1>9

\* A top trim moves the top of each partition that still has one to its lowest
\* trimmed row, else past its highest row.
LEMMA TopTrimmedFacts ==
    ASSUME NEW w \in Windows, NEW t \in SUBSET w.rows
    PROVE  LET x == TopTrimmed(w, t) IN
           /\ x \in Windows
           /\ x.rows = w.rows \ t /\ x.bottom = w.bottom /\ ~x.attached
           /\ x.topMatters = w.topMatters
           /\ DOMAIN w.top \subseteq DOMAIN x.top
           /\ \A r \in w.rows : r[1] \in DOMAIN x.top
           /\ \A p \in DOMAIN x.top :
                \/ /\ \E r \in t : r[1] = p /\ x.top[p] = r[2]
                   /\ \A r \in t : r[1] = p => x.top[p] <= r[2]
                \/ /\ \A r \in t : r[1] # p
                   /\ \E r \in w.rows : r[1] = p /\ x.top[p] = r[2] + 1
                   /\ \A r \in w.rows : r[1] = p => r[2] < x.top[p]
                \/ /\ \A r \in w.rows : r[1] # p
                   /\ p \in DOMAIN w.top /\ x.top[p] = w.top[p]
<1> DEFINE kept == {r \in w.rows \ t : r[1] \notin PartitionsOf(t)}
           a == SetOver(w.top, PastHighest(kept))
           b == SetOver(a, Lowest(t))
           x == TopTrimmed(w, t)
<1>1. w.rows \subseteq Rows /\ w.top \in Positions /\ t \subseteq Rows /\ kept \subseteq Rows
  BY DEF Windows
<1>2. /\ a \in Positions /\ DOMAIN a = DOMAIN w.top \cup PartitionsOf(kept)
      /\ \A p \in DOMAIN a : a[p] = IF p \in PartitionsOf(kept) THEN PastHighest(kept)[p] ELSE w.top[p]
  <2>1. PastHighest(kept) \in Positions /\ DOMAIN PastHighest(kept) = PartitionsOf(kept)
    <3> HIDE DEF kept
    <3> QED BY <1>1, EdgeMapsOfRows, PastHighestFacts
  <2>2. /\ a \in Positions /\ DOMAIN a = DOMAIN w.top \cup DOMAIN PastHighest(kept)
        /\ \A p \in DOMAIN w.top \cup DOMAIN PastHighest(kept) :
             a[p] = IF p \in DOMAIN PastHighest(kept) THEN PastHighest(kept)[p] ELSE w.top[p]
    <3> HIDE DEF kept
    <3> QED BY <1>1, <2>1, SetOverFacts
  <2> HIDE DEF a, kept
  <2>3. QED
    BY <2>1, <2>2
<1>3. /\ b \in Positions /\ DOMAIN b = DOMAIN a \cup PartitionsOf(t)
      /\ \A p \in DOMAIN b : b[p] = IF p \in PartitionsOf(t) THEN Lowest(t)[p] ELSE a[p]
  <2>1. Lowest(t) \in Positions /\ DOMAIN Lowest(t) = PartitionsOf(t)
    BY <1>1, EdgeMapsOfRows, LowestFacts
  <2> HIDE DEF a
  <2>2. /\ b \in Positions /\ DOMAIN b = DOMAIN a \cup DOMAIN Lowest(t)
        /\ \A p \in DOMAIN a \cup DOMAIN Lowest(t) :
             b[p] = IF p \in DOMAIN Lowest(t) THEN Lowest(t)[p] ELSE a[p]
    BY <1>2, <2>1, SetOverFacts
  <2> HIDE DEF b
  <2>3. QED
    BY <2>1, <2>2
<1>4. /\ x.rows = w.rows \ t /\ x.bottom = w.bottom /\ ~x.attached
      /\ x.topMatters = w.topMatters /\ x.top = b
  BY DEF Windows, TopTrimmed, TopAfterTrim
<1>5. x \in Windows
  <2>1. x = [w EXCEPT !.rows = @ \ t, !.top = b, !.attached = FALSE]
    BY DEF TopTrimmed, TopAfterTrim
  <2> HIDE DEF b, x
  <2>2. QED
    BY <1>3, <2>1 DEF Windows
<1> HIDE DEF a, b, x
<1>6. \A r \in w.rows : r[1] \in PartitionsOf(t) \/ r \in kept
  BY DEF PartitionsOf
<1>7. /\ \A r \in kept : r[1] \in PartitionsOf(kept) /\ r[2] < PastHighest(kept)[r[1]]
      /\ \A p \in PartitionsOf(kept) : \E r \in kept : r[1] = p /\ PastHighest(kept)[p] = r[2] + 1
  <2> HIDE DEF kept
  <2> QED BY <1>1, PastHighestFacts
<1>8. /\ \A r \in t : r[1] \in PartitionsOf(t) /\ Lowest(t)[r[1]] <= r[2]
      /\ \A p \in PartitionsOf(t) : \E r \in t : r[1] = p /\ r[2] = Lowest(t)[p]
  BY <1>1, LowestFacts
<1>9. kept \subseteq w.rows
  OBVIOUS
<1> HIDE DEF kept
<1>10. \A r \in w.rows : r[1] \in DOMAIN x.top
  BY <1>2, <1>3, <1>4, <1>6, <1>7
<1>11. ASSUME NEW p \in DOMAIN x.top
       PROVE  \/ /\ \E r \in t : r[1] = p /\ x.top[p] = r[2]
                 /\ \A r \in t : r[1] = p => x.top[p] <= r[2]
              \/ /\ \A r \in t : r[1] # p
                 /\ \E r \in w.rows : r[1] = p /\ x.top[p] = r[2] + 1
                 /\ \A r \in w.rows : r[1] = p => r[2] < x.top[p]
              \/ /\ \A r \in w.rows : r[1] # p
                 /\ p \in DOMAIN w.top /\ x.top[p] = w.top[p]
  <2>1. CASE p \in PartitionsOf(t)
    BY <1>3, <1>4, <1>8, <2>1
  <2>2. CASE p \notin PartitionsOf(t) /\ p \in PartitionsOf(kept)
    BY <1>2, <1>3, <1>4, <1>6, <1>7, <1>8, <1>9, <2>2
  <2>3. CASE p \notin PartitionsOf(t) /\ p \notin PartitionsOf(kept)
    BY <1>2, <1>3, <1>4, <1>6, <1>7, <1>11, <2>3
  <2>4. QED
    BY <2>1, <2>2, <2>3
<1>12. QED
  BY <1>2, <1>3, <1>4, <1>5, <1>10, <1>11 DEF x

\* What a trim of the bottom leaves: the rest of the rows, and a bottom
\* that has gone up to the lowest row left, or past the highest row
\* trimmed.
LEMMA BottomTrimmedFacts ==
    ASSUME NEW w \in Windows, NEW t \in SUBSET w.rows
    PROVE  LET x == BottomTrimmed(w, t) IN
           /\ x \in Windows
           /\ x.rows = w.rows \ t /\ x.top = w.top /\ x.attached = w.attached
           /\ x.topMatters = w.topMatters
           /\ DOMAIN w.bottom \subseteq DOMAIN x.bottom
           /\ \A r \in t : r[1] \in DOMAIN x.bottom
           /\ \A p \in DOMAIN x.bottom :
                \/ /\ \E r \in t : r[1] = p /\ x.bottom[p] = r[2] + 1
                   /\ \A r \in t : r[1] = p => r[2] < x.bottom[p]
                \/ /\ \A r \in t : r[1] # p
                   /\ p \in DOMAIN w.bottom /\ x.bottom[p] = w.bottom[p]
<1> DEFINE b == SetOver(w.bottom, PastHighest(t))
           x == BottomTrimmed(w, t)
<1>1. w.rows \subseteq Rows /\ w.bottom \in Positions /\ t \subseteq Rows
  BY DEF Windows
<1>2. /\ b \in Positions /\ DOMAIN b = DOMAIN w.bottom \cup PartitionsOf(t)
      /\ \A p \in DOMAIN b : b[p] = IF p \in PartitionsOf(t) THEN PastHighest(t)[p] ELSE w.bottom[p]
  <2>1. PastHighest(t) \in Positions /\ DOMAIN PastHighest(t) = PartitionsOf(t)
    BY <1>1, EdgeMapsOfRows, PastHighestFacts
  <2>2. /\ b \in Positions /\ DOMAIN b = DOMAIN w.bottom \cup DOMAIN PastHighest(t)
        /\ \A p \in DOMAIN w.bottom \cup DOMAIN PastHighest(t) :
             b[p] = IF p \in DOMAIN PastHighest(t) THEN PastHighest(t)[p] ELSE w.bottom[p]
    BY <1>1, <2>1, SetOverFacts
  <2> HIDE DEF b
  <2>3. QED
    BY <2>1, <2>2
<1>3. /\ x.rows = w.rows \ t /\ x.top = w.top /\ x.attached = w.attached
      /\ x.topMatters = w.topMatters /\ x.bottom = b
  BY DEF Windows, BottomTrimmed, BottomAfterTrim
<1>4. x \in Windows
  <2>1. x = [w EXCEPT !.rows = @ \ t, !.bottom = b]
    BY DEF BottomTrimmed, BottomAfterTrim
  <2> HIDE DEF b, x
  <2>2. QED
    BY <1>2, <2>1 DEF Windows
<1>5. /\ \A r \in t : r[1] \in PartitionsOf(t) /\ r[2] < PastHighest(t)[r[1]]
      /\ \A p \in PartitionsOf(t) : \E r \in t : r[1] = p /\ PastHighest(t)[p] = r[2] + 1
  BY <1>1, PastHighestFacts
<1> HIDE DEF b, x
<1>6. QED
  BY <1>2, <1>3, <1>4, <1>5 DEF x

-----------------------------------------------------------------------------
(* What makes a window sound.  Here w is a window, bf the set of the rows in *)
(* the buffer, h the window's history, tl and tf where each live stream is   *)
(* and where it began.                                                       *)

\* The values a history can have.
Histories ==
    [origin : [Partitions -> Nat] \cup {NoHeads}, known : [Partitions -> Nat] \cup {NoHeads},
     dropped : SUBSET Rows]

Tails == [Partitions -> Nat \cup {NoOffset}]

\* Where nothing is known, a partition's part of the window begins at the
\* window's origin, or at a live row that was late, and ends at the origin.
AtLeastBottom(w, h, r) ==
    IF r[1] \in DOMAIN w.bottom THEN w.bottom[r[1]] <= r[2]
    ELSE h.origin[r[1]] <= r[2] \/ \E s \in w.rows : s[1] = r[1] /\ s[2] <= r[2]

\* The row is below the top edge of its partition, which is the origin
\* where nothing is known.
UnderTop(w, h, r) ==
    IF r[1] \in DOMAIN w.top THEN r[2] < w.top[r[1]] ELSE r[2] < h.origin[r[1]]

\* The row is between the two edges.
Inside(w, h, r) == AtLeastBottom(w, h, r) /\ UnderTop(w, h, r)

\* The live stream has delivered the row; it never will deliver it, having
\* begun above it; it has yet to deliver it, though the row is below the
\* window's origin.
Streamed(tl, r) == tl[r[1]] # NoOffset /\ r[2] < tl[r[1]]

NeverStreamed(h, tf) ==
    {r \in Rows : /\ h.known # NoHeads
                  /\ h.known[r[1]] <= r[2]
                  /\ tf[r[1]] = NoOffset \/ r[2] < tf[r[1]]}

ToCome(h, tl) ==
    {r \in Rows : r[2] < h.origin[r[1]] /\ tl[r[1]] # NoOffset /\ tl[r[1]] <= r[2]}

\* Where a row can be without being missing.
Accounted(w, bf, h, tf) == w.rows \cup bf \cup h.dropped \cup NeverStreamed(h, tf)

\* No row between the edges is missing.
WholeInside(w, bf, h, tl, tf) ==
    \A r \in Rows : Inside(w, h, r) => r \in Accounted(w, bf, h, tf) \cup ToCome(h, tl)

\* What has no top came by pages alone.
PagedWithoutTop(w, h) ==
    \A r \in Rows : r[1] \notin DOMAIN w.top /\ Inside(w, h, r) => r \in w.rows

\* An attached window has, above its top, what the stream delivered; and so it
\* is for a partition without a top, attached or not.
AboveTop(w, bf, h, tl, tf) ==
    \A r \in Rows :
        /\ w.attached \/ r[1] \notin DOMAIN w.top
        /\ ~UnderTop(w, h, r)
        /\ Streamed(tl, r) \/ r[2] < h.known[r[1]]
        => r \in Accounted(w, bf, h, tf) \cup ToCome(h, tl)

\* The rows lie between the edges, the edges are in order, every partition
\* with rows has an edge, and the heads are known wherever the stream is
\* needed.
RowsInside(w, h) == \A r \in w.rows : Inside(w, h, r)

EdgesInOrder(w, h) ==
    \A p \in DOMAIN w.bottom :
        w.bottom[p] <= IF p \in DOMAIN w.top THEN w.top[p] ELSE h.origin[p]

RowsHaveAnEdge(w) == \A r \in w.rows : r[1] \in DOMAIN w.bottom \/ r[1] \in DOMAIN w.top

HeadsKnown(w, h) ==
    \A p \in Partitions : w.attached \/ p \notin DOMAIN w.top => h.known # NoHeads

\* What the stream delivered after a row that is still in the buffer is there
\* too, unless it lies outside of the window.
BufferGoesOn(w, bf, h, tl, tf) ==
    \A b \in bf, r \in Rows :
        /\ b[1] = r[1] /\ b[2] < r[2]
        /\ r[1] \notin DOMAIN w.bottom
        /\ Streamed(tl, r)
        /\ w.attached \/ r[1] \notin DOMAIN w.top \/ r[2] < w.top[r[1]]
        => r \in Accounted(w, bf, h, tf)

\* Only what the stream delivered is in the buffer.
BufferStreamed(bf, tl) == \A b \in bf : Streamed(tl, b)

SoundBuffer(w, bf, h, tl, tf) == BufferGoesOn(w, bf, h, tl, tf) /\ BufferStreamed(bf, tl)

\* The window is sound, and so is what the buffer holds beside it.
SoundWindow(w, bf, h, tl, tf) ==
    /\ WholeInside(w, bf, h, tl, tf) /\ PagedWithoutTop(w, h) /\ AboveTop(w, bf, h, tl, tf)
    /\ RowsInside(w, h) /\ EdgesInOrder(w, h) /\ RowsHaveAnEdge(w) /\ HeadsKnown(w, h)

Sound(w, bf, h, tl, tf) ==
    /\ SoundBuffer(w, bf, h, tl, tf)
    /\ h.origin # NoHeads => SoundWindow(w, bf, h, tl, tf)

\* A row is known by its partition and its offset.
LEMMA SameRow == \A r, s \in Rows : r[1] = s[1] /\ r[2] = s[2] => r = s
BY RowFacts

\* A trim at the top keeps a window sound.
LEMMA TopTrimSound ==
    ASSUME NEW w \in Windows, NEW bf \in SUBSET Rows, NEW h \in Histories,
           NEW tl \in Tails, NEW tf \in Tails, h.origin # NoHeads,
           Sound(w, bf, h, tl, tf), NEW t \in SUBSET w.rows,
           \A r \in t, x \in w.rows : x[1] = r[1] /\ x[2] > r[2] => x \in t
    PROVE  Sound(TopTrimmed(w, t), bf, h, tl, tf)
<1> DEFINE x == TopTrimmed(w, t)
<1>1. /\ x.rows = w.rows \ t /\ x.bottom = w.bottom /\ ~x.attached
      /\ DOMAIN w.top \subseteq DOMAIN x.top
      /\ \A r \in w.rows : r[1] \in DOMAIN x.top
      /\ \A p \in DOMAIN x.top :
           \/ /\ \E r \in t : r[1] = p /\ x.top[p] = r[2]
              /\ \A r \in t : r[1] = p => x.top[p] <= r[2]
           \/ /\ \A r \in t : r[1] # p
              /\ \E r \in w.rows : r[1] = p /\ x.top[p] = r[2] + 1
              /\ \A r \in w.rows : r[1] = p => r[2] < x.top[p]
           \/ /\ \A r \in w.rows : r[1] # p
              /\ p \in DOMAIN w.top /\ x.top[p] = w.top[p]
  BY TopTrimmedFacts
<1>2. /\ w.rows \subseteq Rows /\ t \subseteq Rows
      /\ \A p \in DOMAIN w.top : w.top[p] \in Nat
      /\ \A p \in DOMAIN w.bottom : w.bottom[p] \in Nat
      /\ h.origin \in [Partitions -> Nat]
  BY PositionsFacts DEF Windows, Histories
<1>3. SoundWindow(w, bf, h, tl, tf) /\ SoundBuffer(w, bf, h, tl, tf)
  BY DEF Sound
<1> HIDE DEF x
<1>4. \A r \in Rows : UnderTop(x, h, r) => UnderTop(w, h, r)
  <2> SUFFICES ASSUME NEW r \in Rows, UnderTop(x, h, r) PROVE UnderTop(w, h, r)
    OBVIOUS
  <2>1. CASE \A s \in w.rows : s[1] # r[1]
    BY <1>1, <2>1 DEF UnderTop
  <2>2. CASE \E s \in w.rows : s[1] = r[1]
    <3>1. PICK s \in w.rows : s[1] = r[1] /\ r[2] <= s[2]
      BY <1>1, <1>2, <2>2, RowFacts DEF UnderTop
    <3>2. UnderTop(w, h, s)
      BY <1>3 DEF SoundWindow, RowsInside, Inside
    <3>3. QED
      BY <1>2, <3>1, <3>2, RowFacts DEF UnderTop
  <2>3. QED
    BY <2>1, <2>2
<1>5. \A r \in Rows : AtLeastBottom(x, h, r) => AtLeastBottom(w, h, r)
  BY <1>1 DEF AtLeastBottom
<1>6. \A r \in Rows : UnderTop(x, h, r) => r \notin t
  BY <1>1, <1>2, RowFacts DEF UnderTop
<1>7. Accounted(w, bf, h, tf) \ t \subseteq Accounted(x, bf, h, tf)
  BY <1>1 DEF Accounted
<1>8. WholeInside(x, bf, h, tl, tf)
  BY <1>3, <1>4, <1>5, <1>6, <1>7 DEF SoundWindow, WholeInside, Inside
<1>9. PagedWithoutTop(x, h)
  BY <1>1, <1>3, <1>4, <1>5, <1>6 DEF SoundWindow, PagedWithoutTop, Inside
<1>10. AboveTop(x, bf, h, tl, tf)
  <2>1. \A r \in Rows : r[1] \notin DOMAIN x.top =>
          /\ r[1] \notin DOMAIN w.top /\ r \notin t
          /\ UnderTop(x, h, r) <=> UnderTop(w, h, r)
    BY <1>1 DEF UnderTop
  <2>2. QED
    BY <1>1, <1>3, <1>7, <2>1 DEF SoundWindow, AboveTop
<1>11. RowsInside(x, h)
  <2> SUFFICES ASSUME NEW r \in w.rows \ t PROVE Inside(x, h, r)
    BY <1>1 DEF RowsInside
  <2>1. Inside(w, h, r) /\ r \in Rows /\ r[1] \in Partitions /\ r[2] \in Nat
    BY <1>2, <1>3, RowFacts DEF SoundWindow, RowsInside
  <2>2. AtLeastBottom(x, h, r)
    BY <1>1, <2>1 DEF Inside, AtLeastBottom
  <2>3. \A s \in t : s[1] = r[1] => r[2] < s[2]
    <3> SUFFICES ASSUME NEW s \in t, s[1] = r[1] PROVE r[2] < s[2]
      OBVIOUS
    <3>1. s \in Rows /\ s[2] \in Nat
      BY <1>2, RowFacts
    <3>2. r[2] # s[2]
      BY <3>1, <2>1, SameRow
    <3>3. QED
      BY <2>1, <3>1, <3>2
  <2>4. UnderTop(x, h, r)
    BY <1>1, <2>1, <2>3 DEF UnderTop
  <2>5. QED
    BY <2>2, <2>4 DEF Inside
<1>12. EdgesInOrder(x, h)
  <2> SUFFICES ASSUME NEW p \in DOMAIN w.bottom
               PROVE  w.bottom[p] <= IF p \in DOMAIN x.top THEN x.top[p] ELSE h.origin[p]
    BY <1>1 DEF EdgesInOrder
  <2>1. w.bottom[p] <= IF p \in DOMAIN w.top THEN w.top[p] ELSE h.origin[p]
    BY <1>3 DEF SoundWindow, EdgesInOrder
  <2>2. \A s \in w.rows : s[1] = p => w.bottom[p] <= s[2] /\ s[2] \in Nat
    BY <1>2, <1>3, RowFacts DEF SoundWindow, RowsInside, Inside, AtLeastBottom
  <2>3. QED
    BY <1>1, <1>2, <2>1, <2>2
<1>13. RowsHaveAnEdge(x)
  BY <1>1, <1>3 DEF SoundWindow, RowsHaveAnEdge
<1>14. HeadsKnown(x, h)
  BY <1>1, <1>3 DEF SoundWindow, HeadsKnown
<1>15. BufferGoesOn(x, bf, h, tl, tf)
  <2> SUFFICES ASSUME NEW b \in bf, NEW r \in Rows,
                      b[1] = r[1] /\ b[2] < r[2], r[1] \notin DOMAIN x.bottom,
                      Streamed(tl, r),
                      x.attached \/ r[1] \notin DOMAIN x.top \/ r[2] < x.top[r[1]]
               PROVE  r \in Accounted(x, bf, h, tf)
    BY DEF BufferGoesOn
  <2>1. r[1] \notin DOMAIN x.top => r[1] \notin DOMAIN w.top /\ r \notin t
    BY <1>1
  <2>2. r[1] \in DOMAIN x.top =>
          r \notin t /\ (r[1] \notin DOMAIN w.top \/ r[2] < w.top[r[1]])
    BY <1>1, <1>4, <1>6 DEF UnderTop
  <2>3. r \in Accounted(w, bf, h, tf)
    BY <1>1, <1>3, <2>1, <2>2 DEF SoundBuffer, BufferGoesOn
  <2>4. QED
    BY <1>7, <2>1, <2>2, <2>3
<1>16. QED
  BY <1>3, <1>8, <1>9, <1>10, <1>11, <1>12, <1>13, <1>14, <1>15
     DEF Sound, SoundWindow, SoundBuffer, x

\* So does a trim at the bottom.
LEMMA BottomTrimSound ==
    ASSUME NEW w \in Windows, NEW bf \in SUBSET Rows, NEW h \in Histories,
           NEW tl \in Tails, NEW tf \in Tails, h.origin # NoHeads,
           Sound(w, bf, h, tl, tf), NEW t \in SUBSET w.rows,
           \A r \in t, x \in w.rows : x[1] = r[1] /\ x[2] < r[2] => x \in t
    PROVE  Sound(BottomTrimmed(w, t), bf, h, tl, tf)
<1> DEFINE x == BottomTrimmed(w, t)
<1>1. /\ x.rows = w.rows \ t /\ x.top = w.top /\ x.attached = w.attached
      /\ DOMAIN w.bottom \subseteq DOMAIN x.bottom
      /\ \A r \in t : r[1] \in DOMAIN x.bottom
      /\ \A p \in DOMAIN x.bottom :
           \/ /\ \E r \in t : r[1] = p /\ x.bottom[p] = r[2] + 1
              /\ \A r \in t : r[1] = p => r[2] < x.bottom[p]
           \/ /\ \A r \in t : r[1] # p
              /\ p \in DOMAIN w.bottom /\ x.bottom[p] = w.bottom[p]
  BY BottomTrimmedFacts
<1>2. /\ w.rows \subseteq Rows /\ t \subseteq Rows
      /\ \A p \in DOMAIN w.top : w.top[p] \in Nat
      /\ \A p \in DOMAIN w.bottom : w.bottom[p] \in Nat
      /\ h.origin \in [Partitions -> Nat]
  BY PositionsFacts DEF Windows, Histories
<1>3. SoundWindow(w, bf, h, tl, tf) /\ SoundBuffer(w, bf, h, tl, tf)
  BY DEF Sound
<1> HIDE DEF x
<1>4. \A r \in Rows : UnderTop(x, h, r) <=> UnderTop(w, h, r)
  BY <1>1 DEF UnderTop
<1>5. \A r \in Rows : AtLeastBottom(x, h, r) => AtLeastBottom(w, h, r)
  <2> SUFFICES ASSUME NEW r \in Rows, AtLeastBottom(x, h, r) PROVE AtLeastBottom(w, h, r)
    OBVIOUS
  <2>1. CASE \E s \in t : s[1] = r[1]
    <3>1. PICK s \in t : s[1] = r[1] /\ s[2] <= r[2]
      BY <1>1, <1>2, <2>1, RowFacts DEF AtLeastBottom
    <3>2. AtLeastBottom(w, h, s) /\ s \in Rows
      BY <1>2, <1>3 DEF SoundWindow, RowsInside, Inside
    <3>3. QED
      BY <1>2, <3>1, <3>2, RowFacts DEF AtLeastBottom
  <2>2. CASE \A s \in t : s[1] # r[1]
    BY <1>1, <2>2 DEF AtLeastBottom
  <2>3. QED
    BY <2>1, <2>2
<1>6. \A r \in Rows : AtLeastBottom(x, h, r) => r \notin t
  BY <1>1, <1>2, RowFacts DEF AtLeastBottom
<1>7. Accounted(w, bf, h, tf) \ t \subseteq Accounted(x, bf, h, tf)
  BY <1>1 DEF Accounted
<1>8. WholeInside(x, bf, h, tl, tf)
  BY <1>3, <1>4, <1>5, <1>6, <1>7 DEF SoundWindow, WholeInside, Inside
<1>9. PagedWithoutTop(x, h)
  BY <1>1, <1>3, <1>4, <1>5, <1>6 DEF SoundWindow, PagedWithoutTop, Inside
<1>10. AboveTop(x, bf, h, tl, tf)
  <2>1. \A r \in Rows : ~UnderTop(w, h, r) => r \notin t
    BY <1>3 DEF SoundWindow, RowsInside, Inside
  <2>2. QED
    BY <1>1, <1>3, <1>4, <1>7, <2>1 DEF SoundWindow, AboveTop
<1>11. RowsInside(x, h)
  <2> SUFFICES ASSUME NEW r \in w.rows \ t PROVE Inside(x, h, r)
    BY <1>1 DEF RowsInside
  <2>1. Inside(w, h, r) /\ r \in Rows /\ r[1] \in Partitions /\ r[2] \in Nat
    BY <1>2, <1>3, RowFacts DEF SoundWindow, RowsInside
  <2>2. UnderTop(x, h, r)
    BY <1>4, <2>1 DEF Inside
  <2>3. \A s \in t : s[1] = r[1] => s[2] < r[2]
    <3> SUFFICES ASSUME NEW s \in t, s[1] = r[1] PROVE s[2] < r[2]
      OBVIOUS
    <3>1. s \in Rows /\ s[2] \in Nat
      BY <1>2, RowFacts
    <3>2. r[2] # s[2]
      BY <3>1, <2>1, SameRow
    <3>3. QED
      BY <2>1, <3>1, <3>2
  <2>4. AtLeastBottom(x, h, r)
    <3>1. \A s \in t : s[1] = r[1] => s[2] + 1 <= r[2]
      BY <1>2, <2>1, <2>3, RowFacts
    <3>2. QED
      BY <1>1, <2>1, <3>1 DEF AtLeastBottom, Inside
  <2>5. QED
    BY <2>2, <2>4 DEF Inside
<1>12. EdgesInOrder(x, h)
  <2> SUFFICES ASSUME NEW p \in DOMAIN x.bottom
               PROVE  x.bottom[p] <= IF p \in DOMAIN w.top THEN w.top[p] ELSE h.origin[p]
    BY <1>1 DEF EdgesInOrder
  <2>1. p \in DOMAIN w.bottom =>
          w.bottom[p] <= IF p \in DOMAIN w.top THEN w.top[p] ELSE h.origin[p]
    BY <1>3 DEF SoundWindow, EdgesInOrder
  <2>2. \A s \in t : s[1] = p =>
          s[2] + 1 <= IF p \in DOMAIN w.top THEN w.top[p] ELSE h.origin[p]
    BY <1>2, <1>3, RowFacts DEF SoundWindow, RowsInside, Inside, UnderTop
  <2>3. QED
    BY <1>1, <1>2, <2>1, <2>2
<1>13. RowsHaveAnEdge(x)
  BY <1>1, <1>3 DEF SoundWindow, RowsHaveAnEdge
<1>14. HeadsKnown(x, h)
  BY <1>1, <1>3 DEF SoundWindow, HeadsKnown
<1>15. BufferGoesOn(x, bf, h, tl, tf)
  <2>1. \A r \in Rows : r[1] \notin DOMAIN x.bottom => r[1] \notin DOMAIN w.bottom /\ r \notin t
    BY <1>1
  <2>2. QED
    BY <1>1, <1>3, <1>7, <2>1 DEF SoundBuffer, BufferGoesOn
<1>16. QED
  BY <1>3, <1>8, <1>9, <1>10, <1>11, <1>12, <1>13, <1>14, <1>15
     DEF Sound, SoundWindow, SoundBuffer, x

\* Every position and every row of a window lies within the heads.
WithinHeads(w, hd) ==
    /\ \A r \in w.rows : r[2] < hd[r[1]]
    /\ \A p \in DOMAIN w.bottom : w.bottom[p] <= hd[p]
    /\ \A p \in DOMAIN w.top : w.top[p] <= hd[p]

\* Enforcing the cap never goes beyond the heads, never exceeds the cap,
\* and is never stale.
LEMMA CapKeepsHeads ==
    ASSUME NEW w \in Windows, NEW grew \in Direction, NEW o \in EnforceCap(w, grew),
           NEW hd \in [Partitions -> Nat], WithinHeads(w, hd)
    PROVE  /\ WithinHeads(o.window, hd) /\ o.window \in Windows
           /\ o.window.rows \subseteq w.rows
           /\ Cardinality(o.window.rows) <= Cap
           /\ ~o.stale /\ o.trimmedTop \in BOOLEAN /\ o.trimmedBottom \in BOOLEAN
           /\ o.window.topMatters = w.topMatters
           /\ DOMAIN w.top \subseteq DOMAIN o.window.top
           /\ o.trimmedTop => grew = Back /\ ~o.window.attached /\ DOMAIN o.window.top # {}
           /\ ~o.trimmedTop => o.window.attached = w.attached /\ o.window.top = w.top
           /\ grew = Back => o.window.bottom = w.bottom
           /\ DOMAIN w.bottom \subseteq DOMAIN o.window.bottom
<1>1. /\ w.rows \subseteq Rows
      /\ \A p \in DOMAIN w.top : w.top[p] \in Nat
      /\ \A p \in DOMAIN w.bottom : w.bottom[p] \in Nat
      /\ Back # Forward
  BY PositionsFacts DEF Windows, Back, Forward
<1>2. CASE o = Outcome(w, FALSE, FALSE)
  BY <1>2, CapOutcomes DEF Outcome
<1>3. ASSUME grew = Back, NEW t \in SUBSET w.rows, t # {},
             o = Outcome(TopTrimmed(w, t), TRUE, FALSE)
      PROVE  /\ WithinHeads(o.window, hd) /\ o.window \in Windows
             /\ o.window.rows \subseteq w.rows /\ o.trimmedTop = TRUE /\ o.trimmedBottom = FALSE /\ ~o.stale
             /\ ~o.window.attached /\ DOMAIN o.window.top # {}
             /\ DOMAIN w.top \subseteq DOMAIN o.window.top
             /\ o.window.bottom = w.bottom /\ o.window.topMatters = w.topMatters
  <2> DEFINE x == TopTrimmed(w, t)
  <2>1. o.window = x /\ o.trimmedTop = TRUE /\ o.trimmedBottom = FALSE /\ ~o.stale
    BY <1>3 DEF Outcome
  <2>2. /\ x \in Windows /\ x.rows = w.rows \ t /\ x.bottom = w.bottom /\ ~x.attached
        /\ x.topMatters = w.topMatters
        /\ DOMAIN w.top \subseteq DOMAIN x.top
        /\ \A r \in w.rows : r[1] \in DOMAIN x.top
        /\ \A p \in DOMAIN x.top :
             \/ \E r \in t : r[1] = p /\ x.top[p] = r[2]
             \/ \E r \in w.rows : r[1] = p /\ x.top[p] = r[2] + 1
             \/ p \in DOMAIN w.top /\ x.top[p] = w.top[p]
    BY TopTrimmedFacts
  <2> HIDE DEF x
  <2>3. \A r \in w.rows : r[1] \in Partitions /\ r[2] \in Nat
    BY <1>1, RowFacts
  <2>4. \A p \in DOMAIN x.top : x.top[p] <= hd[p]
    BY <2>2, <2>3 DEF WithinHeads
  <2>5. QED
    BY <1>3, <2>1, <2>2, <2>4 DEF WithinHeads
<1>4. ASSUME grew = Forward, NEW t \in SUBSET w.rows, t # {},
             o = Outcome(BottomTrimmed(w, t), FALSE, TRUE)
      PROVE  /\ WithinHeads(o.window, hd) /\ o.window \in Windows
             /\ o.window.rows \subseteq w.rows /\ o.trimmedTop = FALSE /\ o.trimmedBottom = TRUE /\ ~o.stale
             /\ o.window.attached = w.attached /\ o.window.top = w.top
             /\ DOMAIN w.bottom \subseteq DOMAIN o.window.bottom
             /\ o.window.topMatters = w.topMatters
  <2> DEFINE x == BottomTrimmed(w, t)
  <2>1. o.window = x /\ o.trimmedTop = FALSE /\ o.trimmedBottom = TRUE /\ ~o.stale
    BY <1>4 DEF Outcome
  <2>2. /\ x \in Windows /\ x.rows = w.rows \ t /\ x.top = w.top /\ x.attached = w.attached
        /\ x.topMatters = w.topMatters
        /\ DOMAIN w.bottom \subseteq DOMAIN x.bottom
        /\ \A p \in DOMAIN x.bottom :
             \/ \E r \in t : r[1] = p /\ x.bottom[p] = r[2] + 1
             \/ p \in DOMAIN w.bottom /\ x.bottom[p] = w.bottom[p]
    BY BottomTrimmedFacts
  <2> HIDE DEF x
  <2>3. \A r \in w.rows : r[1] \in Partitions /\ r[2] \in Nat
    BY <1>1, RowFacts
  <2>4. \A p \in DOMAIN x.bottom : x.bottom[p] <= hd[p]
    BY <2>2, <2>3 DEF WithinHeads
  <2>5. QED
    BY <1>4, <2>1, <2>2, <2>4 DEF WithinHeads
<1>5. Cardinality(o.window.rows) <= Cap
  BY CapOutcomes
<1>6. CASE /\ grew = Back
           /\ \E t \in SUBSET w.rows :
                /\ t # {}
                /\ o = Outcome(TopTrimmed(w, t), TRUE, FALSE)
  <2>1. /\ WithinHeads(o.window, hd) /\ o.window \in Windows
        /\ o.window.rows \subseteq w.rows /\ o.trimmedTop = TRUE /\ o.trimmedBottom = FALSE /\ ~o.stale
        /\ ~o.window.attached /\ DOMAIN o.window.top # {}
        /\ DOMAIN w.top \subseteq DOMAIN o.window.top
        /\ o.window.bottom = w.bottom /\ o.window.topMatters = w.topMatters
    BY <1>3, <1>6
  <2>2. QED
    BY <1>5, <1>6, <2>1
<1>7. CASE /\ grew = Forward
           /\ \E t \in SUBSET w.rows :
                /\ t # {}
                /\ o = Outcome(BottomTrimmed(w, t), FALSE, TRUE)
  <2>1. /\ WithinHeads(o.window, hd) /\ o.window \in Windows
        /\ o.window.rows \subseteq w.rows /\ o.trimmedTop = FALSE /\ o.trimmedBottom = TRUE /\ ~o.stale
        /\ o.window.attached = w.attached /\ o.window.top = w.top
        /\ DOMAIN w.bottom \subseteq DOMAIN o.window.bottom
        /\ o.window.topMatters = w.topMatters
    BY <1>4, <1>7
  <2>2. QED
    BY <1>1, <1>5, <1>7, <2>1
<1>8. QED
  <2>1. \/ o = Outcome(w, FALSE, FALSE)
        \/ /\ grew = Back
           /\ \E t \in SUBSET w.rows :
                /\ t # {}
                /\ o = Outcome(TopTrimmed(w, t), TRUE, FALSE)
        \/ /\ grew = Forward
           /\ \E t \in SUBSET w.rows :
                /\ t # {}
                /\ o = Outcome(BottomTrimmed(w, t), FALSE, TRUE)
    BY CapOutcomes
  <2>2. QED
    BY <1>2, <1>6, <1>7, <2>1

\* Enforcing the cap keeps a window sound, whichever side is trimmed, and
\* never lowers a bottom.
LEMMA CapKeepsSound ==
    ASSUME NEW w \in Windows, NEW grew \in Direction, NEW o \in EnforceCap(w, grew),
           NEW bf \in SUBSET Rows, NEW h \in Histories,
           NEW tl \in Tails, NEW tf \in Tails, h.origin # NoHeads,
           Sound(w, bf, h, tl, tf)
    PROVE  /\ Sound(o.window, bf, h, tl, tf)
           /\ \A p \in DOMAIN w.bottom :
                p \in DOMAIN o.window.bottom /\ w.bottom[p] <= o.window.bottom[p]
<1>1. /\ w.rows \subseteq Rows
      /\ \A p \in DOMAIN w.bottom : w.bottom[p] \in Nat
  BY PositionsFacts DEF Windows
<1>2. CASE o = Outcome(w, FALSE, FALSE)
  BY <1>1, <1>2 DEF Outcome
<1>3. ASSUME NEW t \in SUBSET w.rows,
             \A r \in t, x \in w.rows : x[1] = r[1] /\ x[2] > r[2] => x \in t,
             o = Outcome(TopTrimmed(w, t), TRUE, FALSE)
      PROVE  Sound(o.window, bf, h, tl, tf) /\ o.window.bottom = w.bottom
  <2>1. Sound(TopTrimmed(w, t), bf, h, tl, tf)
    BY <1>3, TopTrimSound
  <2>2. QED
    BY <1>3, <2>1, TopTrimmedFacts DEF Outcome
<1>4. ASSUME NEW t \in SUBSET w.rows,
             \A r \in t, x \in w.rows : x[1] = r[1] /\ x[2] < r[2] => x \in t,
             o = Outcome(BottomTrimmed(w, t), FALSE, TRUE)
      PROVE  /\ Sound(o.window, bf, h, tl, tf)
             /\ \A p \in DOMAIN w.bottom :
                  p \in DOMAIN o.window.bottom /\ w.bottom[p] <= o.window.bottom[p]
  <2> DEFINE x == BottomTrimmed(w, t)
  <2>1. Sound(x, bf, h, tl, tf) /\ o.window = x
    BY <1>4, BottomTrimSound DEF Outcome
  <2>2. /\ DOMAIN w.bottom \subseteq DOMAIN x.bottom
        /\ \A p \in DOMAIN x.bottom :
             \/ \E r \in t : r[1] = p /\ x.bottom[p] = r[2] + 1
             \/ p \in DOMAIN w.bottom /\ x.bottom[p] = w.bottom[p]
    BY BottomTrimmedFacts
  <2> HIDE DEF x
  <2>3. \A s \in t : s[1] \in DOMAIN w.bottom => w.bottom[s[1]] <= s[2] /\ s[2] \in Nat
    BY <1>1, RowFacts DEF Sound, SoundWindow, RowsInside, Inside, AtLeastBottom
  <2>4. \A p \in DOMAIN w.bottom : w.bottom[p] <= x.bottom[p]
    BY <1>1, <2>2, <2>3
  <2>5. QED
    BY <2>1, <2>2, <2>4
<1>5. CASE \E t \in SUBSET w.rows :
             /\ \A r \in t, x \in w.rows : x[1] = r[1] /\ x[2] > r[2] => x \in t
             /\ o = Outcome(TopTrimmed(w, t), TRUE, FALSE)
  <2>1. Sound(o.window, bf, h, tl, tf) /\ o.window.bottom = w.bottom
    BY <1>3, <1>5
  <2>2. QED
    BY <1>1, <2>1
<1>6. CASE \E t \in SUBSET w.rows :
             /\ \A r \in t, x \in w.rows : x[1] = r[1] /\ x[2] < r[2] => x \in t
             /\ o = Outcome(BottomTrimmed(w, t), FALSE, TRUE)
  BY <1>4, <1>6
<1>7. QED
  <2>1. \/ o = Outcome(w, FALSE, FALSE)
        \/ \E t \in SUBSET w.rows :
             /\ \A r \in t, x \in w.rows : x[1] = r[1] /\ x[2] > r[2] => x \in t
             /\ o = Outcome(TopTrimmed(w, t), TRUE, FALSE)
        \/ \E t \in SUBSET w.rows :
             /\ \A r \in t, x \in w.rows : x[1] = r[1] /\ x[2] < r[2] => x \in t
             /\ o = Outcome(BottomTrimmed(w, t), FALSE, TRUE)
    BY CapOutcomes
  <2>2. QED
    BY <1>2, <1>5, <1>6, <2>1

-----------------------------------------------------------------------------
(* Live rows.                                                                *)

\* The live rows the window takes.
LiveNew(w, S) ==
    {r \in S : r[1] \in DOMAIN w.bottom => r[2] >= w.bottom[r[1]]} \ w.rows

\* The window with the live rows, before the cap is enforced.
Extended(w, S) ==
    [w EXCEPT !.rows = @ \cup LiveNew(w, S), !.top = Raised(@, PastHighest(LiveNew(w, S)))]

\* Inserting live rows is merging them and then enforcing the cap.
LEMMA InsertLiveIs ==
    ASSUME NEW w, NEW S
    PROVE  InsertLive(w, S) = EnforceCap(Extended(w, S), Forward)
BY DEF InsertLive, Extended, LiveNew

\* What merging live rows changes: it adds the rows at or above their
\* partition's bottom, and raises the top past them.
LEMMA ExtendedFacts ==
    ASSUME NEW w \in Windows, NEW S \in SUBSET Rows
    PROVE  LET x == Extended(w, S)
               new == LiveNew(w, S)
           IN  /\ x \in Windows /\ new \subseteq Rows
               /\ x.rows = w.rows \cup new /\ x.bottom = w.bottom /\ x.attached = w.attached
               /\ x.topMatters = w.topMatters
               /\ DOMAIN w.top \subseteq DOMAIN x.top
               /\ \A r \in new : r[1] \in DOMAIN x.top /\ r[2] < x.top[r[1]]
               /\ \A p \in DOMAIN w.top : w.top[p] <= x.top[p]
               /\ \A p \in DOMAIN x.top :
                    \/ p \in DOMAIN w.top /\ x.top[p] = w.top[p]
                    \/ \E r \in new : r[1] = p /\ x.top[p] = r[2] + 1
<1> DEFINE x == Extended(w, S)
           new == LiveNew(w, S)
           n == PastHighest(new)
           u == Raised(w.top, n)
<1>1. w.rows \subseteq Rows /\ w.top \in Positions /\ new \subseteq Rows
  BY DEF Windows, LiveNew
<1> HIDE DEF new
<1>2. /\ n \in Positions /\ DOMAIN n = PartitionsOf(new)
      /\ \A p \in PartitionsOf(new) : \E r \in new : r[1] = p /\ n[p] = r[2] + 1
      /\ \A r \in new : r[1] \in PartitionsOf(new) /\ r[2] < n[r[1]]
      /\ \A p \in DOMAIN n : n[p] \in Nat
  BY <1>1, EdgeMapsOfRows, PastHighestFacts, PositionsFacts
<1>3. x = [w EXCEPT !.rows = @ \cup new, !.top = u]
  BY DEF Extended, new
<1> HIDE DEF n
<1>4. /\ u \in Positions /\ DOMAIN u = DOMAIN w.top \cup DOMAIN n
      /\ \A p \in DOMAIN w.top \cup DOMAIN n :
           /\ p \in DOMAIN w.top => w.top[p] <= u[p]
           /\ p \in DOMAIN n => n[p] <= u[p]
           /\ \/ p \in DOMAIN w.top /\ u[p] = w.top[p]
              \/ p \in DOMAIN n /\ u[p] = n[p]
      /\ \A p \in DOMAIN u : u[p] \in Nat
  BY <1>1, <1>2, RaisedFacts, PositionsFacts
<1> HIDE DEF u
<1>5. /\ x \in Windows /\ x.rows = w.rows \cup new /\ x.bottom = w.bottom
      /\ x.attached = w.attached /\ x.topMatters = w.topMatters /\ x.top = u
  <2> HIDE DEF x
  <2> QED BY <1>1, <1>3, <1>4 DEF Windows
<1>6. \A r \in new : r[1] \in DOMAIN u /\ r[2] < u[r[1]]
  <2> SUFFICES ASSUME NEW r \in new PROVE r[1] \in DOMAIN u /\ r[2] < u[r[1]]
    OBVIOUS
  <2>1. r[1] \in DOMAIN n /\ r[2] < n[r[1]] /\ n[r[1]] <= u[r[1]] /\ r[1] \in DOMAIN u
    BY <1>2, <1>4
  <2>2. r[2] \in Nat /\ n[r[1]] \in Nat /\ u[r[1]] \in Nat
    BY <1>1, <1>2, <1>4, <2>1, RowFacts
  <2>3. QED
    BY <2>1, <2>2
<1>7. \A p \in DOMAIN u : \/ p \in DOMAIN w.top /\ u[p] = w.top[p]
                          \/ \E r \in new : r[1] = p /\ u[p] = r[2] + 1
  BY <1>2, <1>4
<1>8. QED
  <2> HIDE DEF x
  <2> QED BY <1>1, <1>4, <1>5, <1>6, <1>7 DEF x, new

\* Rows of the buffer that enter an attached window leave it sound.
LEMMA LiveSound ==
    ASSUME NEW w \in Windows, w.attached, NEW bf \in SUBSET Rows, NEW S \in SUBSET bf,
           NEW rest \in SUBSET bf, bf \ S \subseteq rest,
           NEW h \in Histories, NEW tl \in Tails, NEW tf \in Tails, h.origin # NoHeads,
           Sound(w, bf, h, tl, tf)
    PROVE  Sound(Extended(w, S), rest, h, tl, tf)
<1> DEFINE x == Extended(w, S)
           new == LiveNew(w, S)
<1>1. /\ new \subseteq Rows
      /\ x.rows = w.rows \cup new /\ x.bottom = w.bottom /\ x.attached
      /\ DOMAIN w.top \subseteq DOMAIN x.top
      /\ \A r \in new : r[1] \in DOMAIN x.top /\ r[2] < x.top[r[1]]
      /\ \A p \in DOMAIN w.top : w.top[p] <= x.top[p]
      /\ \A p \in DOMAIN x.top :
           \/ p \in DOMAIN w.top /\ x.top[p] = w.top[p]
           \/ \E r \in new : r[1] = p /\ x.top[p] = r[2] + 1
  BY ExtendedFacts
<1>2. /\ w.rows \subseteq Rows
      /\ \A p \in DOMAIN w.top : w.top[p] \in Nat
      /\ \A p \in DOMAIN w.bottom : w.bottom[p] \in Nat
      /\ h.origin \in [Partitions -> Nat]
      /\ \A p \in Partitions : tl[p] # NoOffset => tl[p] \in Nat
  BY PositionsFacts DEF Windows, Histories, Tails
<1>3. /\ new \subseteq S
      /\ \A r \in new : /\ r \notin w.rows
                        /\ r[1] \in DOMAIN w.bottom => w.bottom[r[1]] <= r[2]
      /\ \A r \in S : r \in w.rows \cup new
                        \/ (r[1] \in DOMAIN w.bottom /\ ~(w.bottom[r[1]] <= r[2]))
  BY RowFacts, <1>2 DEF LiveNew
<1>4. SoundWindow(w, bf, h, tl, tf) /\ SoundBuffer(w, bf, h, tl, tf)
  BY DEF Sound
<1> HIDE DEF x, new
<1>5. \A r \in Accounted(w, bf, h, tf) :
        \/ r \in Accounted(x, rest, h, tf)
        \/ r[1] \in DOMAIN w.bottom /\ ~(w.bottom[r[1]] <= r[2])
  BY <1>1, <1>3 DEF Accounted
<1>6. \A r \in new : Streamed(tl, r) /\ r[2] \in Nat /\ tl[r[1]] \in Nat
  BY <1>1, <1>2, <1>3, <1>4, RowFacts DEF SoundBuffer, BufferStreamed, Streamed
\* A new row of a partition without a top lies above the origin, unless the
\* partition has no bottom either.
<1>7. \A r \in new : r[1] \notin DOMAIN w.top /\ r[1] \in DOMAIN w.bottom
                        => h.origin[r[1]] <= r[2]
  <2> SUFFICES ASSUME NEW r \in new, r[1] \notin DOMAIN w.top, r[1] \in DOMAIN w.bottom
               PROVE  h.origin[r[1]] <= r[2]
    OBVIOUS
  <2>1. AtLeastBottom(w, h, r) /\ r \in Rows /\ r \notin w.rows
    BY <1>1, <1>3 DEF AtLeastBottom
  <2>2. ~UnderTop(w, h, r)
    BY <1>4, <2>1 DEF SoundWindow, PagedWithoutTop, Inside
  <2>3. QED
    BY <1>2, <2>1, <2>2, RowFacts DEF UnderTop
<1>8. \A r \in Rows : AtLeastBottom(w, h, r) => AtLeastBottom(x, h, r)
  BY <1>1 DEF AtLeastBottom
\* What the buffer's rows are followed by is accounted for.
<1>9. \A s \in new, r \in Rows :
        s[1] = r[1] /\ s[2] < r[2] /\ Streamed(tl, r) /\ r[1] \notin DOMAIN w.bottom
          => r \in Accounted(x, rest, h, tf)
  BY <1>3, <1>4, <1>5 DEF SoundBuffer, BufferGoesOn
<1>10. WholeInside(x, rest, h, tl, tf)
  <2> SUFFICES ASSUME NEW r \in Rows, Inside(x, h, r), r \notin ToCome(h, tl)
               PROVE  r \in Accounted(x, rest, h, tf)
    BY DEF WholeInside
  <2>0. r[1] \in Partitions /\ r[2] \in Nat
    BY RowFacts
  <2>1. CASE AtLeastBottom(w, h, r)
    <3>1. r \in Accounted(w, bf, h, tf) => r \in Accounted(x, rest, h, tf)
      BY <1>5, <2>1 DEF AtLeastBottom
    <3>2. CASE UnderTop(w, h, r)
      BY <1>4, <2>1, <3>1, <3>2 DEF SoundWindow, WholeInside, Inside
    <3>3. CASE ~UnderTop(w, h, r)
      <4>1. PICK s \in new : s[1] = r[1] /\ r[2] <= s[2]
        BY <1>1, <1>2, <1>6, <2>0, <3>3 DEF Inside, UnderTop
      <4>2. Streamed(tl, r)
        BY <1>6, <2>0, <4>1 DEF Streamed
      <4>3. r \in Accounted(w, bf, h, tf)
        BY <1>4, <3>3, <4>2 DEF SoundWindow, AboveTop
      <4>4. QED
        BY <3>1, <4>3
    <3>4. QED
      BY <3>2, <3>3
  <2>2. CASE ~AtLeastBottom(w, h, r)
    <3>1. r[1] \notin DOMAIN w.bottom /\ ~(h.origin[r[1]] <= r[2])
      BY <1>1, <2>2 DEF Inside, AtLeastBottom
    <3>2. PICK s \in new : s[1] = r[1] /\ s[2] <= r[2]
      BY <1>1, <2>2, <3>1 DEF Inside, AtLeastBottom
    <3>3. CASE s[2] = r[2]
      <4>1. s = r
        BY <1>1, <3>2, <3>3, SameRow
      <4>2. QED
        BY <1>1, <4>1 DEF Accounted
    <3>4. CASE s[2] < r[2]
      <4>1. Streamed(tl, r)
        BY <1>2, <1>6, <2>0, <3>1, <3>2 DEF ToCome, Streamed
      <4>2. QED
        BY <1>9, <3>1, <3>2, <3>4, <4>1
    <3>5. QED
      BY <1>6, <2>0, <3>2, <3>3, <3>4
  <2>3. QED
    BY <2>1, <2>2
<1>11. PagedWithoutTop(x, h)
  <2> SUFFICES ASSUME NEW r \in Rows, r[1] \notin DOMAIN x.top, Inside(x, h, r)
               PROVE  r \in w.rows
    BY <1>1 DEF PagedWithoutTop
  <2>1. r[1] \notin DOMAIN w.top /\ \A s \in new : s[1] # r[1]
    BY <1>1
  <2>2. Inside(w, h, r)
    BY <1>1, <2>1 DEF Inside, AtLeastBottom, UnderTop
  <2>3. QED
    BY <1>4, <2>1, <2>2 DEF SoundWindow, PagedWithoutTop
<1>12. AboveTop(x, rest, h, tl, tf)
  <2> SUFFICES ASSUME NEW r \in Rows, ~UnderTop(x, h, r),
                      Streamed(tl, r) \/ r[2] < h.known[r[1]], r \notin ToCome(h, tl)
               PROVE  r \in Accounted(x, rest, h, tf)
    BY DEF AboveTop
  <2>0. r[1] \in Partitions /\ r[2] \in Nat
    BY RowFacts
  <2>1. CASE UnderTop(w, h, r)
    <3>1. r[1] \notin DOMAIN w.top /\ r[2] < h.origin[r[1]]
      <4>1. r[1] \in DOMAIN w.top => w.top[r[1]] \in Nat /\ x.top[r[1]] \in Nat
        BY <1>1, <1>2, <1>6
      <4>2. QED
        BY <1>1, <2>0, <2>1, <4>1 DEF UnderTop
    <3>2. PICK s \in new : s[1] = r[1] /\ s[2] < r[2]
      BY <1>1, <1>6, <2>0, <3>1 DEF UnderTop
    <3>3. r[1] \notin DOMAIN w.bottom
      BY <1>2, <1>6, <1>7, <2>0, <3>1, <3>2
    <3>4. Streamed(tl, r)
      BY <1>2, <1>6, <2>0, <3>1, <3>2 DEF ToCome, Streamed
    <3>5. QED
      BY <1>9, <3>2, <3>3, <3>4
  <2>2. CASE ~UnderTop(w, h, r)
    <3>1. r \in Accounted(w, bf, h, tf)
      BY <1>4, <2>2 DEF SoundWindow, AboveTop
    <3>2. r[1] \in DOMAIN w.bottom => w.bottom[r[1]] <= r[2]
      BY <1>2, <1>4, <2>0, <2>2 DEF SoundWindow, EdgesInOrder, UnderTop
    <3>3. QED
      BY <1>5, <3>1, <3>2
  <2>3. QED
    BY <2>1, <2>2
<1>13. RowsInside(x, h)
  <2> SUFFICES ASSUME NEW r \in w.rows \cup new PROVE Inside(x, h, r)
    BY <1>1 DEF RowsInside
  <2>0. r \in Rows /\ r[1] \in Partitions /\ r[2] \in Nat
    BY <1>1, <1>2, RowFacts
  <2>1. CASE r \in new
    <3>1. UnderTop(x, h, r)
      BY <1>1, <2>1 DEF UnderTop
    <3>2. AtLeastBottom(x, h, r)
      BY <1>1, <1>3, <2>0, <2>1 DEF AtLeastBottom
    <3>3. QED
      BY <3>1, <3>2 DEF Inside
  <2>2. CASE r \in w.rows
    <3>1. Inside(w, h, r)
      BY <1>4, <2>2 DEF SoundWindow, RowsInside
    <3>2. AtLeastBottom(x, h, r)
      BY <1>8, <2>0, <3>1 DEF Inside
    <3>3. UnderTop(x, h, r)
      <4>1. CASE r[1] \in DOMAIN w.top
        BY <1>1, <1>2, <1>6, <2>0, <3>1, <4>1 DEF Inside, UnderTop
      <4>2. CASE r[1] \notin DOMAIN w.top
        <5>1. r[1] \in DOMAIN w.bottom
          BY <1>4, <2>2, <4>2 DEF SoundWindow, RowsHaveAnEdge
        <5>2. r[2] < h.origin[r[1]]
          BY <3>1, <4>2 DEF Inside, UnderTop
        <5>3. \A s \in new : s[1] = r[1] => r[2] < s[2] + 1
          BY <1>2, <1>6, <1>7, <2>0, <4>2, <5>1, <5>2
        <5>4. QED
          BY <1>1, <4>2, <5>2, <5>3 DEF UnderTop
      <4>3. QED
        BY <4>1, <4>2
    <3>4. QED
      BY <3>2, <3>3 DEF Inside
  <2>3. QED
    BY <2>1, <2>2
<1>14. EdgesInOrder(x, h)
  <2> SUFFICES ASSUME NEW p \in DOMAIN w.bottom
               PROVE  w.bottom[p] <= IF p \in DOMAIN x.top THEN x.top[p] ELSE h.origin[p]
    BY <1>1 DEF EdgesInOrder
  <2>1. w.bottom[p] <= IF p \in DOMAIN w.top THEN w.top[p] ELSE h.origin[p]
    BY <1>4 DEF SoundWindow, EdgesInOrder
  <2>2. \A s \in new : s[1] = p => w.bottom[p] <= s[2] + 1
    BY <1>2, <1>3, <1>6
  <2>3. p \in DOMAIN x.top => x.top[p] \in Nat
    BY <1>1, <1>2, <1>6
  <2>4. QED
    BY <1>1, <1>2, <2>1, <2>2, <2>3
<1>15. RowsHaveAnEdge(x)
  BY <1>1, <1>4 DEF SoundWindow, RowsHaveAnEdge
<1>16. HeadsKnown(x, h)
  BY <1>1, <1>4 DEF SoundWindow, HeadsKnown
<1>17. BufferGoesOn(x, rest, h, tl, tf)
  <2> SUFFICES ASSUME NEW b \in rest, NEW r \in Rows,
                      b[1] = r[1] /\ b[2] < r[2], r[1] \notin DOMAIN w.bottom,
                      Streamed(tl, r)
               PROVE  r \in Accounted(x, rest, h, tf)
    BY <1>1 DEF BufferGoesOn
  <2>1. r \in Accounted(w, bf, h, tf)
    BY <1>4 DEF SoundBuffer, BufferGoesOn
  <2>2. QED
    BY <1>5, <2>1
<1>18. BufferStreamed(rest, tl)
  BY <1>4 DEF SoundBuffer, BufferStreamed
<1>19. QED
  BY <1>10, <1>11, <1>12, <1>13, <1>14, <1>15, <1>16, <1>17, <1>18
     DEF Sound, SoundWindow, SoundBuffer, x

\* Live rows within the heads leave a window within them.
LEMMA LiveWithinHeads ==
    ASSUME NEW w \in Windows, NEW S \in SUBSET Rows, NEW hd \in [Partitions -> Nat],
           WithinHeads(w, hd), \A r \in S : r[2] < hd[r[1]]
    PROVE  WithinHeads(Extended(w, S), hd)
<1> DEFINE x == Extended(w, S)
           new == LiveNew(w, S)
<1>1. /\ new \subseteq Rows
      /\ x.rows = w.rows \cup new /\ x.bottom = w.bottom
      /\ \A p \in DOMAIN x.top :
           \/ p \in DOMAIN w.top /\ x.top[p] = w.top[p]
           \/ \E r \in new : r[1] = p /\ x.top[p] = r[2] + 1
  BY ExtendedFacts
<1>2. new \subseteq S
  BY DEF LiveNew
<1> HIDE DEF x, new
<1>3. \A r \in new : r[2] + 1 <= hd[r[1]]
  BY <1>1, <1>2, RowFacts
<1>4. QED
  BY <1>1, <1>2, <1>3 DEF WithinHeads, x

-----------------------------------------------------------------------------
(* The live stream and the buffer.                                           *)

\* A record that is delivered joins the buffer, if it is a row at all.
LEMMA DeliverySound ==
    ASSUME NEW w \in Windows, NEW bf \in SUBSET Rows, NEW h \in Histories,
           NEW tl \in Tails, NEW tf \in Tails, Sound(w, bf, h, tl, tf),
           NEW p \in Partitions, tl[p] # NoOffset
    PROVE  Sound(w, bf \cup ({<<p, tl[p]>>} \cap Rows), h, [tl EXCEPT ![p] = @ + 1], tf)
<1> DEFINE row == <<p, tl[p]>>
           next == [tl EXCEPT ![p] = @ + 1]
           more == bf \cup ({row} \cap Rows)
<1>1. tl[p] \in Nat /\ next[p] = tl[p] + 1 /\ \A q \in Partitions : q # p => next[q] = tl[q]
  BY DEF Tails
<1>2. \A q \in Partitions : tl[q] # NoOffset => tl[q] \in Nat
  BY DEF Tails
<1>3. \A r \in Rows : Streamed(next, r) <=> Streamed(tl, r) \/ r = row
  <2> SUFFICES ASSUME NEW r \in Rows PROVE Streamed(next, r) <=> Streamed(tl, r) \/ r = row
    OBVIOUS
  <2>1. r = <<r[1], r[2]>> /\ r[1] \in Partitions /\ r[2] \in Nat
    BY RowFacts
  <2>2. CASE r[1] # p
    BY <1>1, <2>1, <2>2 DEF Streamed
  <2>3. CASE r[1] = p
    <3>1. r = row <=> r[2] = tl[p]
      BY <2>1, <2>3
    <3>2. next[p] # NoOffset
      BY <1>1, AbsenceAssumption
    <3>3. QED
      BY <1>1, <2>1, <2>3, <3>1, <3>2 DEF Streamed
  <2>4. QED
    BY <2>2, <2>3
<1>4. \A r \in Rows : r \in ToCome(h, tl) => r \in ToCome(h, next) \/ r = row
  <2> SUFFICES ASSUME NEW r \in Rows, r \in ToCome(h, tl), r # row
               PROVE  r \in ToCome(h, next)
    OBVIOUS
  <2>1. r = <<r[1], r[2]>> /\ r[1] \in Partitions /\ r[2] \in Nat
    BY RowFacts
  <2>2. r[1] = p => r[2] # tl[p] /\ next[p] # NoOffset
    BY <1>1, <2>1, AbsenceAssumption
  <2>3. QED
    BY <1>1, <1>2, <2>1, <2>2 DEF ToCome
<1>5. \A r \in Rows : r = row => r \in more
  OBVIOUS
<1>6. Accounted(w, bf, h, tf) \subseteq Accounted(w, more, h, tf)
  BY DEF Accounted
<1>7. more \subseteq Accounted(w, more, h, tf)
  BY DEF Accounted
<1>8. SoundBuffer(w, bf, h, tl, tf)
  BY DEF Sound
<1>9. BufferStreamed(more, next)
  BY <1>3, <1>8 DEF SoundBuffer, BufferStreamed
<1> HIDE DEF next
<1>10. BufferGoesOn(w, more, h, next, tf)
  <2> SUFFICES ASSUME NEW b \in more, NEW r \in Rows,
                      b[1] = r[1] /\ b[2] < r[2], r[1] \notin DOMAIN w.bottom,
                      Streamed(next, r),
                      w.attached \/ r[1] \notin DOMAIN w.top \/ r[2] < w.top[r[1]]
               PROVE  r \in Accounted(w, more, h, tf)
    BY DEF BufferGoesOn
  <2>1. CASE r = row
    BY <1>5, <1>7, <2>1
  <2>2. CASE r # row
    <3>1. Streamed(tl, r)
      BY <1>3, <2>2
    <3>2. b # row
      <4>1. r[2] \in Nat
        BY RowFacts
      <4>2. QED
        BY <1>1, <3>1, <4>1 DEF Streamed
    <3>3. r \in Accounted(w, bf, h, tf)
      BY <1>8, <3>1, <3>2 DEF SoundBuffer, BufferGoesOn
    <3>4. QED
      BY <1>6, <3>3
  <2>3. QED
    BY <2>1, <2>2
<1> HIDE DEF more
<1>11. ASSUME h.origin # NoHeads PROVE SoundWindow(w, more, h, next, tf)
  <2>1. SoundWindow(w, bf, h, tl, tf)
    BY <1>11 DEF Sound
  <2>2. WholeInside(w, more, h, next, tf)
    BY <1>4, <1>5, <1>6, <1>7, <2>1 DEF SoundWindow, WholeInside
  <2>3. AboveTop(w, more, h, next, tf)
    BY <1>3, <1>4, <1>5, <1>6, <1>7, <2>1 DEF SoundWindow, AboveTop
  <2>4. QED
    BY <2>1, <2>2, <2>3 DEF SoundWindow
<1>12. QED
  BY <1>9, <1>10, <1>11 DEF Sound, SoundBuffer, next, more

\* Rows may leave the buffer for the history of the dropped ones.
LEMMA DropSound ==
    ASSUME NEW w \in Windows, NEW bf \in SUBSET Rows, NEW h \in Histories,
           NEW tl \in Tails, NEW tf \in Tails, Sound(w, bf, h, tl, tf),
           NEW rest \in SUBSET bf, NEW k \in Histories,
           k.origin = h.origin, k.known = h.known,
           bf \cup h.dropped \subseteq rest \cup k.dropped
    PROVE  Sound(w, rest, k, tl, tf)
<1>1. Accounted(w, bf, h, tf) \subseteq Accounted(w, rest, k, tf)
  BY DEF Accounted, NeverStreamed
<1>2. /\ \A r : AtLeastBottom(w, h, r) <=> AtLeastBottom(w, k, r)
      /\ \A r : UnderTop(w, h, r) <=> UnderTop(w, k, r)
      /\ ToCome(h, tl) = ToCome(k, tl)
  BY DEF AtLeastBottom, UnderTop, ToCome
<1>3. SoundBuffer(w, rest, k, tl, tf)
  BY <1>1 DEF Sound, SoundBuffer, BufferGoesOn, BufferStreamed
<1>4. ASSUME h.origin # NoHeads PROVE SoundWindow(w, rest, k, tl, tf)
  <2>1. SoundWindow(w, bf, h, tl, tf)
    BY <1>4 DEF Sound
  <2>2. WholeInside(w, rest, k, tl, tf) /\ AboveTop(w, rest, k, tl, tf)
    BY <1>1, <1>2, <2>1 DEF SoundWindow, WholeInside, AboveTop, Inside
  <2>3. PagedWithoutTop(w, k) /\ RowsInside(w, k)
    BY <1>2, <2>1 DEF SoundWindow, PagedWithoutTop, RowsInside, Inside
  <2>4. EdgesInOrder(w, k) /\ HeadsKnown(w, k)
    BY <2>1 DEF SoundWindow, EdgesInOrder, HeadsKnown
  <2>5. QED
    BY <2>1, <2>2, <2>3, <2>4 DEF SoundWindow
<1>5. QED
  BY <1>3, <1>4 DEF Sound

\* A live stream that begins at the head leaves nothing below it to come.
LEMMA StartSound ==
    ASSUME NEW w \in Windows, NEW bf \in SUBSET Rows, NEW h \in Histories,
           NEW tl \in Tails, NEW tf \in Tails, Sound(w, bf, h, tl, tf),
           NEW hd \in [Partitions -> Nat], WithinHeads(w, hd),
           h.origin # NoHeads => \A q \in Partitions : h.origin[q] <= hd[q],
           h.known # NoHeads => \A q \in Partitions : h.known[q] <= hd[q],
           NEW p \in Partitions, tl[p] = NoOffset
    PROVE  Sound(w, bf, h, [tl EXCEPT ![p] = hd[p]], [tf EXCEPT ![p] = hd[p]])
<1> DEFINE next == [tl EXCEPT ![p] = hd[p]]
           began == [tf EXCEPT ![p] = hd[p]]
<1>1. /\ next[p] = hd[p] /\ began[p] = hd[p] /\ hd[p] \in Nat /\ hd[p] # NoOffset
      /\ \A q \in Partitions : q # p => next[q] = tl[q] /\ began[q] = tf[q]
  BY AbsenceAssumption DEF Tails
<1> HIDE DEF next, began
<1>2. /\ \A r \in Rows : r[1] # p => (Streamed(next, r) <=> Streamed(tl, r))
      /\ \A r \in Rows : r[1] = p => (Streamed(next, r) <=> r[2] < hd[p]) /\ ~Streamed(tl, r)
  BY <1>1, RowFacts DEF Streamed
<1>3. ToCome(h, tl) \subseteq ToCome(h, next) /\ \A r \in ToCome(h, tl) : r[1] # p
  BY <1>1, RowFacts DEF ToCome
<1>4. \A r \in Rows : r[1] # p \/ r[2] < hd[p] =>
        (r \in Accounted(w, bf, h, tf) => r \in Accounted(w, bf, h, began))
  BY <1>1, RowFacts DEF Accounted, NeverStreamed
<1>5. SoundBuffer(w, bf, h, tl, tf)
  BY DEF Sound
<1>6. \A b \in bf : b[1] # p /\ b \in Rows
  BY <1>2, <1>5 DEF SoundBuffer, BufferStreamed
<1>7. BufferStreamed(bf, next)
  BY <1>2, <1>5, <1>6 DEF SoundBuffer, BufferStreamed
<1>8. BufferGoesOn(w, bf, h, next, began)
  BY <1>2, <1>4, <1>5, <1>6 DEF SoundBuffer, BufferGoesOn
<1>9. ASSUME h.origin # NoHeads PROVE SoundWindow(w, bf, h, next, began)
  <2>1. SoundWindow(w, bf, h, tl, tf)
    BY <1>9 DEF Sound
  <2>2. WholeInside(w, bf, h, next, began)
    <3>1. \A r \in Rows : UnderTop(w, h, r) => r[2] < hd[r[1]]
      <4> SUFFICES ASSUME NEW r \in Rows, UnderTop(w, h, r) PROVE r[2] < hd[r[1]]
        OBVIOUS
      <4>1. r[1] \in Partitions /\ r[2] \in Nat /\ hd[r[1]] \in Nat /\ h.origin \in [Partitions -> Nat]
        BY <1>9, RowFacts DEF Histories
      <4>2. r[1] \in DOMAIN w.top => w.top[r[1]] \in Nat /\ w.top[r[1]] <= hd[r[1]]
        BY PositionsFacts DEF WithinHeads, Windows
      <4>3. QED
        BY <1>9, <4>1, <4>2 DEF UnderTop
    <3>2. QED
      BY <1>3, <1>4, <2>1, <3>1 DEF SoundWindow, WholeInside, Inside
  <2>3. AboveTop(w, bf, h, next, began)
    <3> SUFFICES ASSUME NEW r \in Rows, w.attached \/ r[1] \notin DOMAIN w.top,
                        ~UnderTop(w, h, r), Streamed(next, r) \/ r[2] < h.known[r[1]]
                 PROVE  r \in Accounted(w, bf, h, began) \cup ToCome(h, next)
      BY DEF AboveTop
    <3>1. r[1] \in Partitions /\ r[2] \in Nat
      BY RowFacts
    <3>2. h.known # NoHeads /\ h.known \in [Partitions -> Nat]
      BY <2>1, <3>1 DEF SoundWindow, HeadsKnown, Histories
    <3>3. CASE r[1] # p
      BY <1>2, <1>3, <1>4, <2>1, <3>3 DEF SoundWindow, AboveTop
    <3>4. CASE r[1] = p /\ r[2] < h.known[p]
      <4>1. r \in Accounted(w, bf, h, tf)
        BY <1>3, <2>1, <3>4 DEF SoundWindow, AboveTop
      <4>2. r[2] < hd[p]
        BY <3>1, <3>2, <3>4
      <4>3. QED
        BY <1>4, <3>4, <4>1, <4>2
    <3>5. CASE r[1] = p /\ ~(r[2] < h.known[p])
      <4>1. h.known[p] <= r[2] /\ r[2] < hd[p]
        BY <1>2, <3>1, <3>2, <3>5
      <4>2. r \in NeverStreamed(h, began)
        BY <1>1, <3>2, <3>5, <4>1 DEF NeverStreamed
      <4>3. QED
        BY <4>2 DEF Accounted
    <3>6. QED
      BY <3>3, <3>4, <3>5
  <2>4. QED
    BY <2>1, <2>2, <2>3 DEF SoundWindow
<1>10. QED
  BY <1>5, <1>7, <1>8, <1>9 DEF Sound, SoundBuffer, next, began

-----------------------------------------------------------------------------
(* Pages.                                                                    *)

\* The map a continuation stands for.
Entries(cont) == IF cont = NoPositions THEN NoEntries ELSE cont

\* The window with the page, before the cap is enforced.
PageMerged(w, page) ==
    LET new == page.rows \ w.rows IN
    [rows |-> w.rows \cup new,
     bottom |-> BottomAfterPage(w, page, new),
     top |-> TopAfterPage(w, page, new),
     attached |-> w.attached \/ Attaches(page),
     topMatters |-> w.topMatters \/
         (page.dir = Back /\ page.start = NoPositions /\ ~page.attach)]

\* Inserting a page that is not stale is merging it and then enforcing the
\* cap.
LEMMA InsertPageIs ==
    ASSUME NEW w, NEW page, NEW o \in InsertPage(w, page), ~o.stale
    PROVE  ~IsStale(w, page.dir, page.start) /\ o \in EnforceCap(PageMerged(w, page), page.dir)
<1>1. ~IsStale(w, page.dir, page.start)
  BY DEF InsertPage, Rejected
<1>2. QED
  BY <1>1 DEF InsertPage, PageMerged

\* A page's continuation, or none, as a map of positions.
LEMMA EntriesFacts ==
    ASSUME NEW cont \in Positions \cup {NoPositions}
    PROVE  /\ NoPositions \notin Positions
           /\ Entries(cont) \in Positions
           /\ DOMAIN Entries(cont) = IF cont = NoPositions THEN {} ELSE DOMAIN cont
<1>1. NoPositions \notin Positions
  BY AbsenceAssumption DEF Positions
<1>2. QED
  BY <1>1, NoEntriesFacts DEF Entries

\* The edge on the page's own side: where it was or at a new row, unless the
\* page says where it goes on.
MovedDown(m, new, c) == SetOver(Lowered(m, Lowest(new)), c)

MovedUp(m, new, c) == SetOver(Raised(m, PastHighest(new)), c)

\* All the proofs need to know of an edge that has moved down, or up.
IsMovedDown(b, m, new, c) ==
    /\ b \in Positions
    /\ DOMAIN b = DOMAIN m \cup PartitionsOf(new) \cup DOMAIN c
    /\ \A p \in DOMAIN c : b[p] = c[p]
    /\ \A p \in DOMAIN b \ DOMAIN c :
         /\ p \in DOMAIN m => b[p] <= m[p]
         /\ \A r \in new : r[1] = p => b[p] <= r[2]
         /\ \/ p \in DOMAIN m /\ b[p] = m[p]
            \/ \E r \in new : r[1] = p /\ b[p] = r[2]

IsMovedUp(b, m, new, c) ==
    /\ b \in Positions
    /\ DOMAIN b = DOMAIN m \cup PartitionsOf(new) \cup DOMAIN c
    /\ \A p \in DOMAIN c : b[p] = c[p]
    /\ \A p \in DOMAIN b \ DOMAIN c :
         /\ p \in DOMAIN m => m[p] <= b[p]
         /\ \A r \in new : r[1] = p => r[2] < b[p]
         /\ \/ p \in DOMAIN m /\ b[p] = m[p]
            \/ \E r \in new : r[1] = p /\ b[p] = r[2] + 1

\* A bottom lowered to a page's rows and then set to its continuation has
\* moved down as IsMovedDown says.
LEMMA OwnBottom ==
    ASSUME NEW m \in Positions, NEW new \in SUBSET Rows, NEW c \in Positions
    PROVE  IsMovedDown(MovedDown(m, new, c), m, new, c)
<1> DEFINE n == Lowest(new)
           a == Lowered(m, n)
           b == SetOver(a, c)
<1>1. /\ n \in Positions /\ DOMAIN n = PartitionsOf(new)
      /\ \A p \in PartitionsOf(new) : \E r \in new : r[1] = p /\ r[2] = n[p]
      /\ \A r \in new : r[1] \in PartitionsOf(new) /\ n[r[1]] <= r[2]
      /\ \A p \in DOMAIN n : n[p] \in Nat
  BY EdgeMapsOfRows, LowestFacts, PositionsFacts
<1> HIDE DEF n
<1>2. /\ a \in Positions /\ DOMAIN a = DOMAIN m \cup DOMAIN n
      /\ \A p \in DOMAIN m \cup DOMAIN n :
           /\ p \in DOMAIN m => a[p] <= m[p]
           /\ p \in DOMAIN n => a[p] <= n[p]
           /\ \/ p \in DOMAIN m /\ a[p] = m[p]
              \/ p \in DOMAIN n /\ a[p] = n[p]
      /\ \A p \in DOMAIN a : a[p] \in Nat
  BY <1>1, LoweredFacts, PositionsFacts
<1> HIDE DEF a
<1>3. /\ b \in Positions /\ DOMAIN b = DOMAIN a \cup DOMAIN c
      /\ \A p \in DOMAIN a \cup DOMAIN c : b[p] = IF p \in DOMAIN c THEN c[p] ELSE a[p]
  BY <1>2, SetOverFacts
<1> HIDE DEF b
<1>4. \A r \in new : r[2] \in Nat
  BY RowFacts
<1>5. ASSUME NEW p \in DOMAIN b \ DOMAIN c
      PROVE  /\ p \in DOMAIN m => b[p] <= m[p]
             /\ \A r \in new : r[1] = p => b[p] <= r[2]
             /\ \/ p \in DOMAIN m /\ b[p] = m[p]
                \/ \E r \in new : r[1] = p /\ b[p] = r[2]
  <2>1. p \in DOMAIN a /\ b[p] = a[p] /\ b[p] \in Nat
    BY <1>2, <1>3
  <2>2. \A r \in new : r[1] = p => b[p] <= r[2]
    <3> SUFFICES ASSUME NEW r \in new, r[1] = p PROVE b[p] <= r[2]
      OBVIOUS
    <3>1. p \in DOMAIN n /\ b[p] <= n[p] /\ n[p] <= r[2] /\ n[p] \in Nat /\ r[2] \in Nat
      BY <1>1, <1>2, <1>4, <2>1
    <3>2. QED
      BY <2>1, <3>1
  <2>3. QED
    BY <1>1, <1>2, <2>1, <2>2
<1>6. QED
  BY <1>1, <1>2, <1>3, <1>5 DEF a, b, n, MovedDown, IsMovedDown

\* A top raised to a page's rows and then set to its continuation has moved
\* up as IsMovedUp says.
LEMMA OwnTop ==
    ASSUME NEW m \in Positions, NEW new \in SUBSET Rows, NEW c \in Positions
    PROVE  IsMovedUp(MovedUp(m, new, c), m, new, c)
<1> DEFINE n == PastHighest(new)
           a == Raised(m, n)
           b == SetOver(a, c)
<1>1. /\ n \in Positions /\ DOMAIN n = PartitionsOf(new)
      /\ \A p \in PartitionsOf(new) : \E r \in new : r[1] = p /\ n[p] = r[2] + 1
      /\ \A r \in new : r[1] \in PartitionsOf(new) /\ r[2] < n[r[1]]
      /\ \A p \in DOMAIN n : n[p] \in Nat
  BY EdgeMapsOfRows, PastHighestFacts, PositionsFacts
<1> HIDE DEF n
<1>2. /\ a \in Positions /\ DOMAIN a = DOMAIN m \cup DOMAIN n
      /\ \A p \in DOMAIN m \cup DOMAIN n :
           /\ p \in DOMAIN m => m[p] <= a[p]
           /\ p \in DOMAIN n => n[p] <= a[p]
           /\ \/ p \in DOMAIN m /\ a[p] = m[p]
              \/ p \in DOMAIN n /\ a[p] = n[p]
      /\ \A p \in DOMAIN a : a[p] \in Nat
  BY <1>1, RaisedFacts, PositionsFacts
<1> HIDE DEF a
<1>3. /\ b \in Positions /\ DOMAIN b = DOMAIN a \cup DOMAIN c
      /\ \A p \in DOMAIN a \cup DOMAIN c : b[p] = IF p \in DOMAIN c THEN c[p] ELSE a[p]
  BY <1>2, SetOverFacts
<1> HIDE DEF b
<1>4. \A r \in new : r[2] \in Nat
  BY RowFacts
<1>5. ASSUME NEW p \in DOMAIN b \ DOMAIN c
      PROVE  /\ p \in DOMAIN m => m[p] <= b[p]
             /\ \A r \in new : r[1] = p => r[2] < b[p]
             /\ \/ p \in DOMAIN m /\ b[p] = m[p]
                \/ \E r \in new : r[1] = p /\ b[p] = r[2] + 1
  <2>1. p \in DOMAIN a /\ b[p] = a[p] /\ b[p] \in Nat
    BY <1>2, <1>3
  <2>2. \A r \in new : r[1] = p => r[2] < b[p]
    <3> SUFFICES ASSUME NEW r \in new, r[1] = p PROVE r[2] < b[p]
      OBVIOUS
    <3>1. p \in DOMAIN n /\ n[p] <= b[p] /\ r[2] < n[p] /\ n[p] \in Nat /\ r[2] \in Nat
      BY <1>1, <1>2, <1>4, <2>1
    <3>2. QED
      BY <2>1, <3>1
  <2>3. QED
    BY <1>1, <1>2, <2>1, <2>2
<1>6. QED
  BY <1>1, <1>2, <1>3, <1>5 DEF a, b, n, MovedUp, IsMovedUp

\* Setting the map without entries over another changes nothing.
LEMMA OverNothing ==
    ASSUME NEW m \in Positions
    PROVE  SetOver(m, NoEntries) = m
<1>1. SetOver(m, NoEntries) = [p \in DOMAIN m |-> m[p]]
  BY NoEntriesFacts DEF SetOver
<1>2. QED
  BY <1>1, PositionsFacts

\* Up to where a page was read.
Reached(dir, from, cont, hd) ==
    IF cont # NoPositions THEN cont
    ELSE [p \in DOMAIN from |-> IF dir = Back THEN 0 ELSE hd[p]]

\* What the backend answers: the rows between where the page began and where it
\* ended, and where to go on unless that is the edge of the log.
ReadPage(dir, from, cont, rows, hd) ==
    LET to == Reached(dir, from, cont, hd) IN
    /\ from \in Positions /\ hd \in [Partitions -> Nat]
    /\ cont = NoPositions \/ (cont \in Positions /\ DOMAIN cont = DOMAIN from)
    /\ rows = Crossing(dir, from, to)
    /\ \A p \in DOMAIN from :
         /\ from[p] <= hd[p]
         /\ IF dir = Back THEN to[p] <= from[p] ELSE from[p] <= to[p] /\ to[p] <= hd[p]

\* A page spans, in each partition, the offsets between where it began and
\* where it ended, and has all the rows between them.
LEMMA ReadPageFacts ==
    ASSUME NEW dir \in Direction, NEW from, NEW cont, NEW rows, NEW hd,
           ReadPage(dir, from, cont, rows, hd)
    PROVE  LET to == Reached(dir, from, cont, hd) IN
           /\ DOMAIN from \subseteq Partitions
           /\ DOMAIN to = DOMAIN from
           /\ \A p \in DOMAIN from : from[p] \in Nat /\ to[p] \in Nat /\ hd[p] \in Nat
           /\ rows \subseteq Rows
           /\ \A r \in rows : r[1] \in DOMAIN from
           /\ dir = Back =>
                /\ \A r \in rows : to[r[1]] <= r[2] /\ r[2] < from[r[1]]
                /\ \A r \in Rows : /\ r[1] \in DOMAIN from
                                   /\ to[r[1]] <= r[2] /\ r[2] < from[r[1]]
                                   => r \in rows
                /\ \A p \in DOMAIN from : to[p] <= from[p] /\ from[p] <= hd[p]
                /\ cont = NoPositions => \A p \in DOMAIN from : to[p] = 0
           /\ dir = Forward =>
                /\ \A r \in rows : from[r[1]] <= r[2] /\ r[2] < to[r[1]]
                /\ \A r \in Rows : /\ r[1] \in DOMAIN from
                                   /\ from[r[1]] <= r[2] /\ r[2] < to[r[1]]
                                   => r \in rows
                /\ \A p \in DOMAIN from : from[p] <= to[p] /\ to[p] <= hd[p]
                /\ cont = NoPositions => \A p \in DOMAIN from : to[p] = hd[p]
           /\ cont # NoPositions => to = cont /\ cont \in Positions
           /\ cont \in Positions \cup {NoPositions}
<1> DEFINE to == Reached(dir, from, cont, hd)
<1>1. /\ from \in Positions /\ hd \in [Partitions -> Nat]
      /\ cont = NoPositions \/ (cont \in Positions /\ DOMAIN cont = DOMAIN from)
      /\ rows = Crossing(dir, from, to)
      /\ \A p \in DOMAIN from :
           /\ from[p] <= hd[p]
           /\ IF dir = Back THEN to[p] <= from[p] ELSE from[p] <= to[p] /\ to[p] <= hd[p]
  BY DEF ReadPage
<1>2. DOMAIN from \subseteq Partitions /\ \A p \in DOMAIN from : from[p] \in Nat /\ hd[p] \in Nat
  BY <1>1, PositionsFacts
<1>3. /\ DOMAIN to = DOMAIN from /\ \A p \in DOMAIN from : to[p] \in Nat
      /\ cont # NoPositions => to = cont /\ cont \in Positions
      /\ cont = NoPositions => \A p \in DOMAIN from : to[p] = IF dir = Back THEN 0 ELSE hd[p]
  <2>1. CASE cont # NoPositions
    BY <1>1, <2>1, PositionsFacts DEF Reached
  <2>2. CASE cont = NoPositions
    BY <1>2, <2>2 DEF Reached
  <2>3. QED
    BY <2>1, <2>2
<1> HIDE DEF to
<1>4. Back # Forward
  BY DEF Back, Forward
<1>5. QED
  BY <1>1, <1>2, <1>3, <1>4 DEF Crossing, to

\* A page that was asked from the bottom and is not stale moves it down.
LEMMA BackMerged ==
    ASSUME NEW w \in Windows, NEW page, NEW hd,
           page.dir = Back, page.start # NoPositions,
           ReadPage(Back, page.start, page.cont, page.rows, hd),
           DOMAIN page.start \subseteq DOMAIN w.bottom,
           \A p \in DOMAIN page.start : page.start[p] = w.bottom[p],
           \A r \in w.rows : r[1] \in DOMAIN w.bottom => w.bottom[r[1]] <= r[2]
    PROVE  LET x == PageMerged(w, page) IN
           /\ x \in Windows /\ page.rows \in SUBSET Rows
           /\ x.rows = w.rows \cup page.rows /\ x.top = w.top
           /\ x.attached = w.attached /\ x.topMatters = w.topMatters
           /\ DOMAIN x.bottom = DOMAIN w.bottom
           /\ \A p \in DOMAIN w.bottom : x.bottom[p] <= w.bottom[p]
           /\ \A r \in page.rows : /\ r[1] \in DOMAIN w.bottom
                                   /\ x.bottom[r[1]] <= r[2] /\ r[2] < w.bottom[r[1]]
           /\ \A r \in Rows : /\ r[1] \in DOMAIN w.bottom
                              /\ x.bottom[r[1]] <= r[2] /\ ~(w.bottom[r[1]] <= r[2])
                              => r \in page.rows
<1> DEFINE x == PageMerged(w, page)
           from == page.start
           to == Reached(Back, from, page.cont, hd)
           new == page.rows \ w.rows
           c == Entries(page.cont)
           m == w.bottom
           b == MovedDown(m, new, c)
<1>1. /\ DOMAIN from \subseteq Partitions
      /\ DOMAIN to = DOMAIN from
      /\ \A p \in DOMAIN from : from[p] \in Nat /\ to[p] \in Nat /\ hd[p] \in Nat
      /\ page.rows \subseteq Rows
      /\ \A r \in page.rows : r[1] \in DOMAIN from
      /\ \A r \in page.rows : to[r[1]] <= r[2] /\ r[2] < from[r[1]]
      /\ \A r \in Rows : /\ r[1] \in DOMAIN from
                         /\ to[r[1]] <= r[2] /\ r[2] < from[r[1]]
                         => r \in page.rows
      /\ \A p \in DOMAIN from : to[p] <= from[p] /\ from[p] <= hd[p]
      /\ page.cont = NoPositions => \A p \in DOMAIN from : to[p] = 0
      /\ page.cont # NoPositions => to = page.cont /\ page.cont \in Positions
      /\ page.cont \in Positions \cup {NoPositions}
  BY ReadPageFacts DEF Direction
<1>2. /\ w.rows \subseteq Rows /\ w.bottom \in Positions
      /\ \A p \in DOMAIN w.bottom : w.bottom[p] \in Nat
  BY PositionsFacts DEF Windows
<1> HIDE DEF to
<1>3. \A r \in page.rows : r \notin w.rows /\ r[2] \in Nat
  <2>1. \A r \in page.rows : r[1] \in DOMAIN w.bottom /\ r[2] < w.bottom[r[1]] /\ r[2] \in Nat
    BY <1>1, RowFacts
  <2>2. QED
    BY <1>2, <2>1
<1>4. new = page.rows
  BY <1>3
<1>5. c \in Positions /\ DOMAIN c = (IF page.cont = NoPositions THEN {} ELSE DOMAIN from)
      /\ \A p \in DOMAIN c : c[p] = to[p]
  BY <1>1, EntriesFacts DEF Entries
<1> HIDE DEF c, new
<1>6. /\ b \in Positions
      /\ DOMAIN b = DOMAIN w.bottom \cup PartitionsOf(new) \cup DOMAIN c
      /\ \A p \in DOMAIN c : b[p] = c[p]
      /\ \A p \in DOMAIN b \ DOMAIN c :
           /\ p \in DOMAIN w.bottom => b[p] <= w.bottom[p]
           /\ \A r \in new : r[1] = p => b[p] <= r[2]
           /\ \/ p \in DOMAIN w.bottom /\ b[p] = w.bottom[p]
              \/ \E r \in new : r[1] = p /\ b[p] = r[2]
  <2>1. m \in Positions /\ new \in SUBSET Rows /\ c \in Positions
    BY <1>1, <1>2, <1>4, <1>5
  <2> HIDE DEF m
  <2>2. IsMovedDown(b, m, new, c)
    BY <2>1, OwnBottom
  <2> HIDE DEF b
  <2>3. QED
    BY <2>2 DEF m, IsMovedDown
<1>7. x = [rows |-> w.rows \cup new, bottom |-> b, top |-> w.top,
           attached |-> w.attached \/ FALSE, topMatters |-> w.topMatters \/ FALSE]
  <2>1. Back # Forward
    BY DEF Back, Forward
  <2>2. BottomAfterPage(w, page, new) = b /\ TopAfterPage(w, page, new) = w.top /\ ~Attaches(page)
    BY <2>1 DEF BottomAfterPage, TopAfterPage, Attaches, c, Entries, MovedDown
  <2>3. QED
    BY <2>2 DEF PageMerged, new
<1> HIDE DEF b
<1>8. /\ x \in Windows
      /\ x.rows = w.rows \cup page.rows /\ x.top = w.top /\ x.bottom = b
      /\ x.attached = w.attached /\ x.topMatters = w.topMatters
  <2> HIDE DEF x
  <2> QED BY <1>1, <1>2, <1>4, <1>6, <1>7 DEF Windows
<1>9. DOMAIN b = DOMAIN w.bottom
  <2>1. PartitionsOf(new) \subseteq DOMAIN from
    BY <1>1, <1>4 DEF PartitionsOf
  <2>2. QED
    BY <1>5, <1>6, <2>1
<1>10. \A p \in DOMAIN w.bottom : b[p] <= w.bottom[p] /\ b[p] \in Nat
  <2>1. \A p \in DOMAIN w.bottom : b[p] \in Nat
    BY <1>6, <1>9, PositionsFacts
  <2>2. QED
    BY <1>1, <1>5, <1>6, <1>9, <2>1
<1>11. \A r \in page.rows : /\ r[1] \in DOMAIN w.bottom
                            /\ b[r[1]] <= r[2] /\ r[2] < w.bottom[r[1]]
  BY <1>1, <1>4, <1>5, <1>6, <1>9
<1>12. ASSUME NEW r \in Rows, r[1] \in DOMAIN w.bottom,
              b[r[1]] <= r[2], ~(w.bottom[r[1]] <= r[2])
       PROVE  r \in page.rows
  <2>1. r[2] \in Nat /\ r[1] \in Partitions /\ b[r[1]] \in Nat /\ w.bottom[r[1]] \in Nat
    BY <1>2, <1>10, <1>12, RowFacts
  <2>2. r[1] \in DOMAIN from
    <3>1. b[r[1]] # w.bottom[r[1]]
      BY <1>12
    <3>2. r[1] \in DOMAIN c \/ \E s \in new : s[1] = r[1]
      BY <1>6, <1>9, <1>12, <3>1
    <3>3. QED
      BY <1>1, <1>4, <1>5, <3>2
  <2>3. to[r[1]] <= r[2]
    BY <1>1, <1>5, <1>6, <1>12, <2>1, <2>2
  <2>4. r[2] < from[r[1]]
    BY <1>12, <2>1, <2>2
  <2>5. QED
    BY <1>1, <2>2, <2>3, <2>4
<1>13. QED
  <2> HIDE DEF x
  <2> QED BY <1>1, <1>8, <1>9, <1>10, <1>11, <1>12 DEF x

\* A page further back keeps the window sound when it began at the bottom
\* or below it and is not found stale.
LEMMA BackPageSound ==
    ASSUME NEW w \in Windows, NEW page, NEW hd,
           page.dir = Back, page.start # NoPositions,
           ReadPage(Back, page.start, page.cont, page.rows, hd),
           DOMAIN page.start \subseteq DOMAIN w.bottom,
           \A p \in DOMAIN page.start : page.start[p] <= w.bottom[p],
           ~IsStale(w, Back, page.start),
           NEW bf \in SUBSET Rows, NEW h \in Histories, NEW tl \in Tails, NEW tf \in Tails,
           h.origin # NoHeads, Sound(w, bf, h, tl, tf),
           NEW heads \in [Partitions -> Nat], WithinHeads(w, heads)
    PROVE  LET x == PageMerged(w, page) IN
           /\ x \in Windows /\ Sound(x, bf, h, tl, tf) /\ WithinHeads(x, heads)
           /\ x.attached = w.attached /\ x.top = w.top /\ x.topMatters = w.topMatters
<1> DEFINE x == PageMerged(w, page)
<1>1. /\ w.rows \subseteq Rows
      /\ \A p \in DOMAIN w.bottom : w.bottom[p] \in Nat /\ p \in Partitions
      /\ \A p \in DOMAIN w.top : w.top[p] \in Nat
      /\ h.origin \in [Partitions -> Nat]
  BY PositionsFacts DEF Windows, Histories
<1>2. SoundWindow(w, bf, h, tl, tf) /\ SoundBuffer(w, bf, h, tl, tf)
  BY DEF Sound
<1>3. \A r \in w.rows : r[1] \in DOMAIN w.bottom => w.bottom[r[1]] <= r[2]
  BY <1>2 DEF SoundWindow, RowsInside, Inside, AtLeastBottom
<1>4. \A p \in DOMAIN page.start : page.start[p] = w.bottom[p]
  <2>1. \A p \in DOMAIN page.start : page.start[p] \in Nat /\ ~(w.bottom[p] > page.start[p])
    BY ReadPageFacts DEF Direction, IsStale
  <2>2. QED
    BY <1>1, <2>1
<1>5. /\ x \in Windows /\ page.rows \in SUBSET Rows
      /\ x.rows = w.rows \cup page.rows /\ x.top = w.top
      /\ x.attached = w.attached /\ x.topMatters = w.topMatters
      /\ DOMAIN x.bottom = DOMAIN w.bottom
      /\ \A p \in DOMAIN w.bottom : x.bottom[p] <= w.bottom[p]
      /\ \A r \in page.rows : /\ r[1] \in DOMAIN w.bottom
                              /\ x.bottom[r[1]] <= r[2] /\ r[2] < w.bottom[r[1]]
      /\ \A r \in Rows : /\ r[1] \in DOMAIN w.bottom
                         /\ x.bottom[r[1]] <= r[2] /\ ~(w.bottom[r[1]] <= r[2])
                         => r \in page.rows
  BY <1>3, <1>4, BackMerged
<1> HIDE DEF x
<1>6. \A p \in DOMAIN w.bottom : x.bottom[p] \in Nat
  BY <1>5, PositionsFacts DEF Windows
<1>7. \A r \in Rows : AtLeastBottom(x, h, r) => AtLeastBottom(w, h, r) \/ r \in page.rows
  BY <1>5 DEF AtLeastBottom
<1>8. \A r \in Rows : UnderTop(x, h, r) <=> UnderTop(w, h, r)
  BY <1>5 DEF UnderTop
<1>9. /\ page.rows \subseteq Accounted(x, bf, h, tf)
      /\ Accounted(w, bf, h, tf) \subseteq Accounted(x, bf, h, tf)
  BY <1>5 DEF Accounted
<1>10. WholeInside(x, bf, h, tl, tf)
  BY <1>2, <1>7, <1>8, <1>9 DEF SoundWindow, WholeInside, Inside
<1>11. PagedWithoutTop(x, h)
  BY <1>2, <1>5, <1>7, <1>8 DEF SoundWindow, PagedWithoutTop, Inside
<1>12. AboveTop(x, bf, h, tl, tf)
  BY <1>2, <1>5, <1>8, <1>9 DEF SoundWindow, AboveTop
<1>13. RowsInside(x, h)
  <2> SUFFICES ASSUME NEW r \in w.rows \cup page.rows PROVE Inside(x, h, r)
    BY <1>5 DEF RowsInside
  <2>0. r \in Rows /\ r[1] \in Partitions /\ r[2] \in Nat
    BY <1>1, <1>5, RowFacts
  <2>1. CASE r \in page.rows
    <3>1. UnderTop(w, h, r)
      BY <1>1, <1>2, <1>5, <2>0, <2>1 DEF SoundWindow, EdgesInOrder, UnderTop
    <3>2. QED
      BY <1>5, <1>8, <2>0, <2>1, <3>1 DEF Inside, AtLeastBottom
  <2>2. CASE r \in w.rows
    <3>1. Inside(w, h, r)
      BY <1>2, <2>2 DEF SoundWindow, RowsInside
    <3>2. AtLeastBottom(x, h, r)
      BY <1>1, <1>5, <1>6, <2>0, <3>1 DEF Inside, AtLeastBottom
    <3>3. QED
      BY <1>8, <2>0, <3>1, <3>2 DEF Inside
  <2>3. QED
    BY <2>1, <2>2
<1>14. EdgesInOrder(x, h)
  <2> SUFFICES ASSUME NEW p \in DOMAIN w.bottom
               PROVE  x.bottom[p] <= IF p \in DOMAIN w.top THEN w.top[p] ELSE h.origin[p]
    BY <1>5 DEF EdgesInOrder
  <2>1. w.bottom[p] <= IF p \in DOMAIN w.top THEN w.top[p] ELSE h.origin[p]
    BY <1>2 DEF SoundWindow, EdgesInOrder
  <2>2. QED
    BY <1>1, <1>5, <1>6, <2>1
<1>15. RowsHaveAnEdge(x)
  BY <1>2, <1>5 DEF SoundWindow, RowsHaveAnEdge
<1>16. HeadsKnown(x, h)
  BY <1>2, <1>5 DEF SoundWindow, HeadsKnown
<1>17. SoundBuffer(x, bf, h, tl, tf)
  BY <1>2, <1>5, <1>9 DEF SoundBuffer, BufferGoesOn
<1>18. WithinHeads(x, heads)
  <2>1. \A p \in DOMAIN w.bottom : x.bottom[p] <= heads[p]
    BY <1>1, <1>5, <1>6 DEF WithinHeads
  <2>2. \A r \in page.rows : r[2] < heads[r[1]]
    <3> SUFFICES ASSUME NEW r \in page.rows PROVE r[2] < heads[r[1]]
      OBVIOUS
    <3>1. /\ r[1] \in DOMAIN w.bottom /\ r[2] < w.bottom[r[1]] /\ w.bottom[r[1]] <= heads[r[1]]
          /\ r[2] \in Nat /\ w.bottom[r[1]] \in Nat /\ heads[r[1]] \in Nat
      BY <1>1, <1>5, RowFacts DEF WithinHeads
    <3>2. QED
      BY <3>1
  <2>3. QED
    BY <1>5, <2>1, <2>2 DEF WithinHeads
<1>19. QED
  <2>1. Sound(x, bf, h, tl, tf)
    BY <1>10, <1>11, <1>12, <1>13, <1>14, <1>15, <1>16, <1>17 DEF Sound, SoundWindow
  <2>2. QED
    BY <1>5, <1>18, <2>1 DEF x

\* A page that was asked from the top moves it up, and attaches the window when
\* it ends at the heads.
LEMMA ForwardMerged ==
    ASSUME NEW w \in Windows, ~w.attached, NEW page, NEW hd,
           page.dir = Forward, page.start # NoPositions, page.start = w.top,
           ReadPage(Forward, page.start, page.cont, page.rows, hd),
           \A r \in w.rows : r[1] \in DOMAIN w.top => r[2] < w.top[r[1]]
    PROVE  LET x == PageMerged(w, page) IN
           /\ x \in Windows /\ page.rows \in SUBSET Rows
           /\ x.rows = w.rows \cup page.rows /\ x.bottom = w.bottom
           /\ x.attached <=> page.cont = NoPositions
           /\ x.topMatters = w.topMatters
           /\ DOMAIN x.top = DOMAIN w.top
           /\ \A p \in DOMAIN w.top : w.top[p] <= x.top[p] /\ x.top[p] <= hd[p]
           /\ \A r \in page.rows : /\ r[1] \in DOMAIN w.top
                                   /\ w.top[r[1]] <= r[2] /\ r[2] < x.top[r[1]]
           /\ \A r \in Rows : /\ r[1] \in DOMAIN w.top
                              /\ ~(r[2] < w.top[r[1]])
                              /\ r[2] < x.top[r[1]] \/ (x.attached /\ r[2] < hd[r[1]])
                              => r \in page.rows
<1> DEFINE x == PageMerged(w, page)
           m == w.top
           to == Reached(Forward, m, page.cont, hd)
           new == page.rows \ w.rows
           c == Entries(page.cont)
           b == MovedUp(m, new, c)
<1>1. /\ DOMAIN m \subseteq Partitions
      /\ DOMAIN to = DOMAIN m
      /\ \A p \in DOMAIN m : m[p] \in Nat /\ to[p] \in Nat /\ hd[p] \in Nat
      /\ page.rows \subseteq Rows
      /\ \A r \in page.rows : r[1] \in DOMAIN m
      /\ \A r \in page.rows : m[r[1]] <= r[2] /\ r[2] < to[r[1]]
      /\ \A r \in Rows : /\ r[1] \in DOMAIN m
                         /\ m[r[1]] <= r[2] /\ r[2] < to[r[1]]
                         => r \in page.rows
      /\ \A p \in DOMAIN m : m[p] <= to[p] /\ to[p] <= hd[p]
      /\ page.cont = NoPositions => \A p \in DOMAIN m : to[p] = hd[p]
      /\ page.cont # NoPositions => to = page.cont /\ page.cont \in Positions
      /\ page.cont \in Positions \cup {NoPositions}
  <2>1. ReadPage(Forward, m, page.cont, page.rows, hd) /\ Forward \in Direction
    BY DEF Direction
  <2> HIDE DEF m
  <2>2. QED
    BY <2>1, ReadPageFacts
<1>2. w.rows \subseteq Rows /\ m \in Positions /\ m = w.top
  BY DEF Windows
<1> HIDE DEF to
<1>3. \A r \in page.rows : r \notin w.rows /\ r[2] \in Nat
  <2>1. \A r \in page.rows : r[1] \in DOMAIN m /\ m[r[1]] <= r[2] /\ r[2] \in Nat /\ m[r[1]] \in Nat
    BY <1>1, RowFacts
  <2>2. QED
    BY <1>2, <2>1
<1>4. new = page.rows
  BY <1>3
<1>5. /\ c \in Positions /\ DOMAIN c = (IF page.cont = NoPositions THEN {} ELSE DOMAIN m)
      /\ \A p \in DOMAIN c : c[p] = to[p]
  BY <1>1, EntriesFacts DEF Entries
<1> HIDE DEF c, new
<1>6. x = [rows |-> w.rows \cup new, bottom |-> w.bottom, top |-> b,
           attached |-> page.cont = NoPositions, topMatters |-> w.topMatters \/ FALSE]
  <2>1. Back # Forward
    BY DEF Back, Forward
  <2>2. BottomAfterPage(w, page, new) = w.bottom /\ TopAfterPage(w, page, new) = b
    BY <2>1 DEF BottomAfterPage, TopAfterPage, c, Entries, MovedDown, MovedUp
  <2>3. (w.attached \/ Attaches(page)) = (page.cont = NoPositions)
    BY <2>1 DEF Attaches
  <2>4. QED
    BY <2>1, <2>2, <2>3 DEF PageMerged, new
<1> HIDE DEF m
<1>7. /\ b \in Positions
      /\ DOMAIN b = DOMAIN m \cup PartitionsOf(new) \cup DOMAIN c
      /\ \A p \in DOMAIN c : b[p] = c[p]
      /\ \A p \in DOMAIN b \ DOMAIN c :
           /\ p \in DOMAIN m => m[p] <= b[p]
           /\ \A r \in new : r[1] = p => r[2] < b[p]
           /\ \/ p \in DOMAIN m /\ b[p] = m[p]
              \/ \E r \in new : r[1] = p /\ b[p] = r[2] + 1
  <2>1. m \in Positions /\ new \in SUBSET Rows /\ c \in Positions
    BY <1>1, <1>2, <1>4, <1>5
  <2>2. IsMovedUp(b, m, new, c)
    BY <2>1, OwnTop
  <2> HIDE DEF b
  <2>3. QED
    BY <2>2 DEF IsMovedUp
<1> HIDE DEF b
<1>8. /\ x \in Windows
      /\ x.rows = w.rows \cup page.rows /\ x.top = b /\ x.bottom = w.bottom
      /\ x.attached = (page.cont = NoPositions) /\ x.topMatters = w.topMatters
  <2> HIDE DEF x
  <2> QED BY <1>1, <1>2, <1>4, <1>6, <1>7 DEF Windows
<1>9. DOMAIN b = DOMAIN m
  <2>1. PartitionsOf(new) \subseteq DOMAIN m
    BY <1>1, <1>4 DEF PartitionsOf
  <2>2. QED
    BY <1>5, <1>7, <2>1
<1>10. \A p \in DOMAIN m : m[p] <= b[p] /\ b[p] <= to[p] /\ b[p] \in Nat
  <2>1. \A p \in DOMAIN m : b[p] \in Nat
    BY <1>7, <1>9, PositionsFacts
  <2>2. \A r \in new : r[2] + 1 <= to[r[1]]
    BY <1>1, <1>3, <1>4
  <2>3. QED
    BY <1>1, <1>5, <1>7, <1>9, <2>1, <2>2
<1>11. \A r \in page.rows : /\ r[1] \in DOMAIN m
                            /\ m[r[1]] <= r[2] /\ r[2] < b[r[1]]
  BY <1>1, <1>4, <1>5, <1>7, <1>9
<1>12. ASSUME NEW r \in Rows, r[1] \in DOMAIN m, ~(r[2] < m[r[1]]),
              r[2] < b[r[1]] \/ (page.cont = NoPositions /\ r[2] < hd[r[1]])
       PROVE  r \in page.rows
  <2>1. r[2] \in Nat /\ b[r[1]] \in Nat /\ m[r[1]] \in Nat /\ to[r[1]] \in Nat
    BY <1>1, <1>10, <1>12, RowFacts
  <2>2. r[2] < to[r[1]]
    BY <1>1, <1>10, <1>12, <2>1
  <2>3. m[r[1]] <= r[2]
    BY <1>12, <2>1
  <2>4. QED
    BY <1>1, <1>12, <2>2, <2>3
<1>13. \A p \in DOMAIN m : b[p] <= hd[p]
  BY <1>1, <1>10
<1>14. QED
  <2> HIDE DEF x
  <2>1. /\ x \in Windows /\ page.rows \in SUBSET Rows
        /\ x.rows = w.rows \cup page.rows /\ x.bottom = w.bottom
        /\ x.attached <=> page.cont = NoPositions
        /\ x.topMatters = w.topMatters
        /\ DOMAIN x.top = DOMAIN m
        /\ \A p \in DOMAIN m : m[p] <= x.top[p] /\ x.top[p] <= hd[p]
        /\ \A r \in page.rows : /\ r[1] \in DOMAIN m
                                /\ m[r[1]] <= r[2] /\ r[2] < x.top[r[1]]
        /\ \A r \in Rows : /\ r[1] \in DOMAIN m
                           /\ ~(r[2] < m[r[1]])
                           /\ r[2] < x.top[r[1]] \/ (x.attached /\ r[2] < hd[r[1]])
                           => r \in page.rows
    BY <1>1, <1>8, <1>9, <1>10, <1>11, <1>12, <1>13
  <2>2. QED
    BY <2>1 DEF x, m

\* The history once a page landed that leaves the window attached, or not.
Recording(h, from, hd, attached) ==
    [h EXCEPT !.origin = from, !.known = IF attached /\ @ = NoHeads THEN hd ELSE @]

\* What the stream delivered above the heads of a page in flight is in the
\* buffer, or was dropped from it.
LateKept(bf, h, tl, tf, hd) ==
    \A r \in Rows : hd[r[1]] <= r[2] /\ Streamed(tl, r) =>
        r \in bf \cup h.dropped \/ tf[r[1]] = NoOffset \/ r[2] < tf[r[1]]

\* What landing a page writes in the history: the origin, and the heads the
\* first time the window is attached.  No row that was never streamed is
\* forgotten by that.
LEMMA RecordingFacts ==
    ASSUME NEW h \in Histories, NEW from \in [Partitions -> Nat], NEW hd \in [Partitions -> Nat],
           NEW attached, h.known # NoHeads => \A p \in Partitions : h.known[p] <= hd[p]
    PROVE  LET k == Recording(h, from, hd, attached) IN
           /\ k \in Histories /\ k.origin = from /\ k.origin # NoHeads /\ k.dropped = h.dropped
           /\ h.known # NoHeads => k.known = h.known
           /\ attached => k.known # NoHeads
           /\ ~attached => k.known = h.known
           /\ k.known # NoHeads => \A p \in Partitions : k.known[p] <= hd[p]
           /\ \A tf : NeverStreamed(h, tf) \subseteq NeverStreamed(k, tf)
           /\ \A bf, tl, tf : LateKept(bf, h, tl, tf, hd) /\ attached =>
                \A r \in Rows : hd[r[1]] <= r[2] /\ Streamed(tl, r) =>
                    r \in bf \cup k.dropped \cup NeverStreamed(k, tf)
<1> DEFINE k == Recording(h, from, hd, attached)
<1>1. from # NoHeads /\ hd # NoHeads
  BY AbsenceAssumption
<1>2. /\ k.origin = from /\ k.dropped = h.dropped
      /\ k.known = IF attached /\ h.known = NoHeads THEN hd ELSE h.known
      /\ k \in Histories
  BY DEF Recording, Histories
<1> HIDE DEF k
<1>3. k.known # NoHeads => k.known \in [Partitions -> Nat] /\ \A p \in Partitions : k.known[p] <= hd[p]
  BY <1>2 DEF Histories
<1>4. \A tf : NeverStreamed(h, tf) \subseteq NeverStreamed(k, tf)
  BY <1>2 DEF NeverStreamed
<1>5. ASSUME NEW bf, NEW tl, NEW tf, LateKept(bf, h, tl, tf, hd), attached,
             NEW r \in Rows, hd[r[1]] <= r[2], Streamed(tl, r)
      PROVE  r \in bf \cup k.dropped \cup NeverStreamed(k, tf)
  <2>1. r \in bf \cup h.dropped \/ tf[r[1]] = NoOffset \/ r[2] < tf[r[1]]
    BY <1>5 DEF LateKept
  <2>2. r[1] \in Partitions /\ r[2] \in Nat /\ hd[r[1]] \in Nat
    BY RowFacts
  <2>3. k.known # NoHeads /\ k.known[r[1]] <= r[2]
    <3>1. k.known # NoHeads
      BY <1>1, <1>2, <1>5
    <3>2. k.known[r[1]] \in Nat /\ k.known[r[1]] <= hd[r[1]]
      BY <1>3, <2>2, <3>1
    <3>3. QED
      BY <1>5, <2>2, <3>1, <3>2
  <2>4. QED
    BY <1>2, <2>1, <2>3 DEF NeverStreamed
<1>6. QED
  BY <1>1, <1>2, <1>3, <1>4, <1>5 DEF k

\* A page towards the tail keeps a detached window sound, and leaves it
\* within the heads, when it began at the top: also the one that attaches
\* the window, at whose heads the stream takes over.
LEMMA ForwardPageSound ==
    ASSUME NEW w \in Windows, ~w.attached, NEW page, NEW hd \in [Partitions -> Nat],
           page.dir = Forward, page.start # NoPositions, page.start = w.top,
           ReadPage(Forward, page.start, page.cont, page.rows, hd),
           NEW bf \in SUBSET Rows, NEW h \in Histories, NEW tl \in Tails, NEW tf \in Tails,
           h.origin # NoHeads, Sound(w, bf, h, tl, tf),
           h.known # NoHeads => \A p \in Partitions : h.known[p] <= hd[p],
           LateKept(bf, h, tl, tf, hd),
           NEW heads \in [Partitions -> Nat], WithinHeads(w, heads),
           \A p \in Partitions : hd[p] <= heads[p]
    PROVE  LET x == PageMerged(w, page)
               k == Recording(h, h.origin, hd, x.attached)
           IN  /\ x \in Windows /\ Sound(x, bf, k, tl, tf) /\ WithinHeads(x, heads)
               /\ x.attached <=> page.cont = NoPositions
               /\ DOMAIN x.top = DOMAIN w.top /\ x.bottom = w.bottom
               /\ x.topMatters = w.topMatters
<1> DEFINE x == PageMerged(w, page)
           k == Recording(h, h.origin, hd, x.attached)
<1>1. /\ w.rows \subseteq Rows
      /\ \A p \in DOMAIN w.bottom : w.bottom[p] \in Nat
      /\ \A p \in DOMAIN w.top : w.top[p] \in Nat /\ p \in Partitions
      /\ h.origin \in [Partitions -> Nat]
  BY PositionsFacts DEF Windows, Histories
<1>2. SoundWindow(w, bf, h, tl, tf) /\ SoundBuffer(w, bf, h, tl, tf)
  BY DEF Sound
<1>3. \A r \in w.rows : r[1] \in DOMAIN w.top => r[2] < w.top[r[1]]
  BY <1>2 DEF SoundWindow, RowsInside, Inside, UnderTop
<1>4. /\ x \in Windows /\ page.rows \in SUBSET Rows
      /\ x.rows = w.rows \cup page.rows /\ x.bottom = w.bottom
      /\ x.attached <=> page.cont = NoPositions
      /\ x.topMatters = w.topMatters
      /\ DOMAIN x.top = DOMAIN w.top
      /\ \A p \in DOMAIN w.top : w.top[p] <= x.top[p] /\ x.top[p] <= hd[p]
      /\ \A r \in page.rows : /\ r[1] \in DOMAIN w.top
                              /\ w.top[r[1]] <= r[2] /\ r[2] < x.top[r[1]]
      /\ \A r \in Rows : /\ r[1] \in DOMAIN w.top
                         /\ ~(r[2] < w.top[r[1]])
                         /\ r[2] < x.top[r[1]] \/ (x.attached /\ r[2] < hd[r[1]])
                         => r \in page.rows
  BY <1>3, ForwardMerged
<1> HIDE DEF x
<1>5. /\ k \in Histories /\ k.origin = h.origin /\ k.dropped = h.dropped
      /\ h.known # NoHeads => k.known = h.known
      /\ x.attached => k.known # NoHeads
      /\ k.known # NoHeads => \A p \in Partitions : k.known[p] <= hd[p]
      /\ NeverStreamed(h, tf) \subseteq NeverStreamed(k, tf)
      /\ x.attached =>
           \A r \in Rows : hd[r[1]] <= r[2] /\ Streamed(tl, r) =>
               r \in bf \cup k.dropped \cup NeverStreamed(k, tf)
  <2> DEFINE a == x.attached
  <2> HIDE DEF a
  <2>1. k = Recording(h, h.origin, hd, a)
    BY DEF a
  <2>2. LET kk == Recording(h, h.origin, hd, a) IN
        /\ kk \in Histories /\ kk.origin = h.origin /\ kk.origin # NoHeads /\ kk.dropped = h.dropped
        /\ h.known # NoHeads => kk.known = h.known
        /\ a => kk.known # NoHeads
        /\ ~a => kk.known = h.known
        /\ kk.known # NoHeads => \A p \in Partitions : kk.known[p] <= hd[p]
        /\ \A t : NeverStreamed(h, t) \subseteq NeverStreamed(kk, t)
        /\ \A s, u, t : LateKept(s, h, u, t, hd) /\ a =>
             \A r \in Rows : hd[r[1]] <= r[2] /\ Streamed(u, r) =>
                 r \in s \cup kk.dropped \cup NeverStreamed(kk, t)
    BY <1>1, RecordingFacts
  <2>3. k \in Histories /\ k.origin = h.origin /\ k.dropped = h.dropped
        /\ (h.known # NoHeads => k.known = h.known)
        /\ (a => k.known # NoHeads)
        /\ (k.known # NoHeads => \A p \in Partitions : k.known[p] <= hd[p])
        /\ NeverStreamed(h, tf) \subseteq NeverStreamed(k, tf)
        /\ (a => \A r \in Rows : hd[r[1]] <= r[2] /\ Streamed(tl, r) =>
                 r \in bf \cup k.dropped \cup NeverStreamed(k, tf))
    <3> HIDE DEF k
    <3> QED BY <2>1, <2>2
  <2>4. QED
    BY <2>3 DEF a
<1> HIDE DEF k
<1>6. \A p \in DOMAIN w.top : x.top[p] \in Nat
  BY <1>4, PositionsFacts DEF Windows
<1>7. ToCome(h, tl) = ToCome(k, tl)
  BY <1>5 DEF ToCome
<1>8. /\ page.rows \subseteq Accounted(x, bf, k, tf)
      /\ Accounted(w, bf, h, tf) \subseteq Accounted(x, bf, k, tf)
  BY <1>4, <1>5 DEF Accounted
<1>9. \A r \in Rows : UnderTop(x, k, r) => UnderTop(w, h, r) \/ r \in page.rows
  BY <1>4, <1>5 DEF UnderTop
<1>10. \A r \in Rows : UnderTop(w, h, r) => UnderTop(x, k, r)
  BY <1>1, <1>4, <1>5, <1>6, RowFacts DEF UnderTop
<1>11. \A r \in Rows : UnderTop(w, h, r) /\ AtLeastBottom(x, k, r) => AtLeastBottom(w, h, r)
  <2> SUFFICES ASSUME NEW r \in Rows, UnderTop(w, h, r), AtLeastBottom(x, k, r),
                      ~AtLeastBottom(w, h, r)
               PROVE  FALSE
    OBVIOUS
  <2>1. PICK s \in page.rows : s[1] = r[1] /\ s[2] <= r[2]
    BY <1>4, <1>5 DEF AtLeastBottom
  <2>2. r[2] < w.top[r[1]] /\ w.top[r[1]] <= s[2] /\ w.top[r[1]] \in Nat
    BY <1>1, <1>4, <2>1 DEF UnderTop
  <2>3. r[2] \in Nat /\ s[2] \in Nat
    BY <1>4, RowFacts
  <2>4. QED
    BY <2>1, <2>2, <2>3
<1>12. \A r \in Rows : AtLeastBottom(w, h, r) => AtLeastBottom(x, k, r)
  BY <1>4, <1>5 DEF AtLeastBottom
<1>13. WholeInside(x, bf, k, tl, tf)
  BY <1>2, <1>7, <1>8, <1>9, <1>11 DEF SoundWindow, WholeInside, Inside
<1>14. PagedWithoutTop(x, k)
  <2> SUFFICES ASSUME NEW r \in Rows, r[1] \notin DOMAIN w.top, Inside(x, k, r)
               PROVE  r \in w.rows
    BY <1>4 DEF PagedWithoutTop
  <2>1. Inside(w, h, r)
    BY <1>4, <1>9, <1>11 DEF Inside
  <2>2. QED
    BY <1>2, <2>1 DEF SoundWindow, PagedWithoutTop
<1>15. AboveTop(x, bf, k, tl, tf)
  <2> SUFFICES ASSUME NEW r \in Rows, x.attached \/ r[1] \notin DOMAIN x.top,
                      ~UnderTop(x, k, r), Streamed(tl, r) \/ r[2] < k.known[r[1]]
               PROVE  r \in Accounted(x, bf, k, tf) \cup ToCome(k, tl)
    BY DEF AboveTop
  <2>0. r[1] \in Partitions /\ r[2] \in Nat /\ hd[r[1]] \in Nat
    BY RowFacts
  <2>1. CASE r[1] \notin DOMAIN w.top
    <3>1. ~UnderTop(w, h, r)
      BY <1>10
    <3>2. k.known = h.known
      BY <1>2, <1>5, <2>0, <2>1 DEF SoundWindow, HeadsKnown
    <3>3. r \in Accounted(w, bf, h, tf) \cup ToCome(h, tl)
      BY <1>2, <2>1, <3>1, <3>2 DEF SoundWindow, AboveTop
    <3>4. QED
      BY <1>7, <1>8, <3>3
  <2>2. CASE r[1] \in DOMAIN w.top /\ r[2] < hd[r[1]]
    <3>1. x.attached /\ ~(r[2] < w.top[r[1]])
      BY <1>4, <1>10, <2>2 DEF UnderTop
    <3>2. r \in page.rows
      BY <1>4, <2>2, <3>1
    <3>3. QED
      BY <1>8, <3>2
  <2>3. CASE r[1] \in DOMAIN w.top /\ ~(r[2] < hd[r[1]])
    <3>1. x.attached /\ k.known # NoHeads /\ hd[r[1]] <= r[2]
      BY <1>4, <1>5, <2>0, <2>3
    <3>2. ~(r[2] < k.known[r[1]])
      <4>1. k.known[r[1]] <= hd[r[1]] /\ k.known[r[1]] \in Nat
        BY <1>5, <2>0, <3>1 DEF Histories
      <4>2. QED
        BY <2>0, <3>1, <4>1
    <3>3. r \in bf \cup k.dropped \cup NeverStreamed(k, tf)
      BY <1>5, <3>1, <3>2
    <3>4. QED
      BY <3>3 DEF Accounted
  <2>4. QED
    BY <2>1, <2>2, <2>3
<1>16. RowsInside(x, k)
  <2> SUFFICES ASSUME NEW r \in w.rows \cup page.rows PROVE Inside(x, k, r)
    BY <1>4 DEF RowsInside
  <2>0. r \in Rows /\ r[1] \in Partitions /\ r[2] \in Nat
    BY <1>1, <1>4, RowFacts
  <2>1. CASE r \in w.rows
    BY <1>2, <1>10, <1>12, <2>0, <2>1 DEF SoundWindow, RowsInside, Inside
  <2>2. CASE r \in page.rows
    <3>1. UnderTop(x, k, r)
      BY <1>4, <2>2 DEF UnderTop
    <3>2. AtLeastBottom(x, k, r)
      <4>1. CASE r[1] \in DOMAIN w.bottom
        <5>1. w.bottom[r[1]] <= w.top[r[1]] /\ w.top[r[1]] <= r[2]
          BY <1>2, <1>4, <2>2, <4>1 DEF SoundWindow, EdgesInOrder
        <5>2. w.bottom[r[1]] \in Nat /\ w.top[r[1]] \in Nat
          BY <1>1, <1>4, <2>2, <4>1
        <5>3. w.bottom[r[1]] <= r[2]
          BY <2>0, <5>1, <5>2
        <5>4. QED
          BY <1>4, <4>1, <5>3 DEF AtLeastBottom
      <4>2. CASE r[1] \notin DOMAIN w.bottom
        BY <1>4, <2>0, <2>2, <4>2 DEF AtLeastBottom
      <4>3. QED
        BY <4>1, <4>2
    <3>3. QED
      BY <3>1, <3>2 DEF Inside
  <2>3. QED
    BY <2>1, <2>2
<1>17. EdgesInOrder(x, k)
  <2> SUFFICES ASSUME NEW p \in DOMAIN w.bottom
               PROVE  w.bottom[p] <= IF p \in DOMAIN w.top THEN x.top[p] ELSE h.origin[p]
    BY <1>4, <1>5 DEF EdgesInOrder
  <2>1. w.bottom[p] <= IF p \in DOMAIN w.top THEN w.top[p] ELSE h.origin[p]
    BY <1>2 DEF SoundWindow, EdgesInOrder
  <2>2. QED
    BY <1>1, <1>4, <1>6, <2>1
<1>18. RowsHaveAnEdge(x)
  BY <1>2, <1>4 DEF SoundWindow, RowsHaveAnEdge
<1>19. HeadsKnown(x, k)
  BY <1>2, <1>4, <1>5 DEF SoundWindow, HeadsKnown
<1>20. BufferGoesOn(x, bf, k, tl, tf)
  <2> SUFFICES ASSUME NEW b \in bf, NEW r \in Rows,
                      b[1] = r[1] /\ b[2] < r[2], r[1] \notin DOMAIN w.bottom,
                      Streamed(tl, r),
                      x.attached \/ r[1] \notin DOMAIN w.top \/ r[2] < x.top[r[1]]
               PROVE  r \in Accounted(x, bf, k, tf)
    BY <1>4 DEF BufferGoesOn
  <2>0. r[1] \in Partitions /\ r[2] \in Nat /\ hd[r[1]] \in Nat
    BY RowFacts
  <2>1. CASE r[1] \notin DOMAIN w.top \/ r[2] < w.top[r[1]]
    <3>1. r \in Accounted(w, bf, h, tf)
      BY <1>2, <2>1 DEF SoundBuffer, BufferGoesOn
    <3>2. QED
      BY <1>8, <3>1
  <2>2. CASE /\ r[1] \in DOMAIN w.top /\ ~(r[2] < w.top[r[1]])
             /\ r[2] < x.top[r[1]] \/ (x.attached /\ r[2] < hd[r[1]])
    BY <1>4, <1>8, <2>2
  <2>3. CASE x.attached /\ ~(r[2] < hd[r[1]])
    <3>1. r \in bf \cup k.dropped \cup NeverStreamed(k, tf)
      BY <1>5, <2>0, <2>3
    <3>2. QED
      BY <3>1 DEF Accounted
  <2>4. QED
    BY <2>1, <2>2, <2>3
<1>21. WithinHeads(x, heads)
  <2>1. \A p \in DOMAIN w.top : x.top[p] <= heads[p]
    BY <1>1, <1>4, <1>6
  <2>2. \A r \in page.rows : r[2] < heads[r[1]]
    <3> SUFFICES ASSUME NEW r \in page.rows PROVE r[2] < heads[r[1]]
      OBVIOUS
    <3>1. /\ r[2] < x.top[r[1]] /\ x.top[r[1]] <= heads[r[1]]
          /\ r[2] \in Nat /\ x.top[r[1]] \in Nat /\ heads[r[1]] \in Nat
      BY <1>1, <1>4, <1>6, <2>1, RowFacts
    <3>2. QED
      BY <3>1
  <2>3. QED
    BY <1>4, <2>1, <2>2 DEF WithinHeads
<1>22. QED
  <2>1. Sound(x, bf, k, tl, tf)
    BY <1>2, <1>13, <1>14, <1>15, <1>16, <1>17, <1>18, <1>19, <1>20
       DEF Sound, SoundWindow, SoundBuffer
  <2>2. QED
    BY <1>4, <1>21, <2>1 DEF x, k

\* The window at first: no rows, no edges, detached.
LEMMA EmptyWindowFacts ==
    /\ EmptyWindow \in Windows /\ EmptyWindow.rows = {}
    /\ EmptyWindow.bottom = NoEntries /\ EmptyWindow.top = NoEntries
    /\ EmptyWindow.attached = FALSE /\ EmptyWindow.topMatters = FALSE
BY NoEntriesFacts DEF EmptyWindow, Windows

\* What an anchor page, which spans the offsets from lo up to hi, makes of an
\* empty window.
AnchorWindow(x, lo, hi, origin, hd) ==
    /\ x.rows = {r \in Rows : lo[r[1]] <= r[2] /\ r[2] < hi[r[1]]}
    /\ \A r \in x.rows : /\ r[1] \in DOMAIN x.bottom /\ x.bottom[r[1]] <= r[2]
                         /\ r[1] \in DOMAIN x.top /\ r[2] < x.top[r[1]]
    /\ \A p \in DOMAIN x.bottom :
         /\ lo[p] <= x.bottom[p]
         /\ x.bottom[p] <= IF p \in DOMAIN x.top THEN x.top[p] ELSE origin[p]
    /\ \A p \in DOMAIN x.top : lo[p] <= x.top[p] /\ x.top[p] <= hi[p]
    /\ \A p \in Partitions : lo[p] <= origin[p] /\ origin[p] <= hi[p] /\ hi[p] <= hd[p]
    /\ x.attached \/ DOMAIN x.top = Partitions
    /\ x.attached => \A p \in Partitions : hi[p] = hd[p]

\* The window an anchor page makes of an empty one is sound.
LEMMA AnchorSound ==
    ASSUME NEW x \in Windows, NEW lo \in [Partitions -> Nat], NEW hi \in [Partitions -> Nat],
           NEW origin \in [Partitions -> Nat], NEW hd \in [Partitions -> Nat],
           AnchorWindow(x, lo, hi, origin, hd),
           NEW bf \in SUBSET Rows, NEW h \in Histories, NEW tl \in Tails, NEW tf \in Tails,
           h.known = NoHeads, Sound(EmptyWindow, bf, h, tl, tf),
           LateKept(bf, h, tl, tf, hd),
           NEW heads \in [Partitions -> Nat], \A p \in Partitions : hd[p] <= heads[p]
    PROVE  /\ Sound(x, bf, Recording(h, origin, hd, x.attached), tl, tf)
           /\ WithinHeads(x, heads)
<1> DEFINE k == Recording(h, origin, hd, x.attached)
<1>1. /\ x.rows \subseteq Rows
      /\ \A p \in DOMAIN x.bottom : x.bottom[p] \in Nat /\ p \in Partitions
      /\ \A p \in DOMAIN x.top : x.top[p] \in Nat /\ p \in Partitions
  BY PositionsFacts DEF Windows
<1>2. /\ \A r \in Rows : (lo[r[1]] <= r[2] /\ r[2] < hi[r[1]]) <=> r \in x.rows
      /\ \A r \in x.rows : /\ r[1] \in DOMAIN x.bottom /\ x.bottom[r[1]] <= r[2]
                           /\ r[1] \in DOMAIN x.top /\ r[2] < x.top[r[1]]
      /\ \A p \in DOMAIN x.bottom :
           /\ lo[p] <= x.bottom[p]
           /\ x.bottom[p] <= IF p \in DOMAIN x.top THEN x.top[p] ELSE origin[p]
      /\ \A p \in DOMAIN x.top : lo[p] <= x.top[p] /\ x.top[p] <= hi[p]
      /\ \A p \in Partitions : lo[p] <= origin[p] /\ origin[p] <= hi[p] /\ hi[p] <= hd[p]
      /\ x.attached \/ DOMAIN x.top = Partitions
      /\ x.attached => \A p \in Partitions : hi[p] = hd[p]
  BY DEF AnchorWindow
<1>3. /\ k \in Histories /\ k.origin = origin /\ k.dropped = h.dropped
      /\ x.attached => k.known # NoHeads
      /\ k.known # NoHeads => \A p \in Partitions : k.known[p] <= hd[p]
      /\ NeverStreamed(h, tf) \subseteq NeverStreamed(k, tf)
      /\ x.attached =>
           \A r \in Rows : hd[r[1]] <= r[2] /\ Streamed(tl, r) =>
               r \in bf \cup k.dropped \cup NeverStreamed(k, tf)
  <2> DEFINE a == x.attached
  <2> HIDE DEF a
  <2>1. LET kk == Recording(h, origin, hd, a) IN
        /\ kk \in Histories /\ kk.origin = origin /\ kk.origin # NoHeads /\ kk.dropped = h.dropped
        /\ h.known # NoHeads => kk.known = h.known
        /\ a => kk.known # NoHeads
        /\ ~a => kk.known = h.known
        /\ kk.known # NoHeads => \A p \in Partitions : kk.known[p] <= hd[p]
        /\ \A t : NeverStreamed(h, t) \subseteq NeverStreamed(kk, t)
        /\ \A s, u, t : LateKept(s, h, u, t, hd) /\ a =>
             \A r \in Rows : hd[r[1]] <= r[2] /\ Streamed(u, r) =>
                 r \in s \cup kk.dropped \cup NeverStreamed(kk, t)
    BY RecordingFacts
  <2>2. k = Recording(h, origin, hd, a)
    BY DEF a
  <2>3. /\ k \in Histories /\ k.origin = origin /\ k.dropped = h.dropped
        /\ a => k.known # NoHeads
        /\ k.known # NoHeads => \A p \in Partitions : k.known[p] <= hd[p]
        /\ NeverStreamed(h, tf) \subseteq NeverStreamed(k, tf)
        /\ a => \A r \in Rows : hd[r[1]] <= r[2] /\ Streamed(tl, r) =>
                 r \in bf \cup k.dropped \cup NeverStreamed(k, tf)
    <3> HIDE DEF k
    <3> QED BY <2>1, <2>2
  <2>4. QED
    BY <2>3 DEF a
<1> HIDE DEF k
<1>4. \A p \in Partitions :
        lo[p] \in Nat /\ hi[p] \in Nat /\ origin[p] \in Nat /\ hd[p] \in Nat /\ heads[p] \in Nat
  OBVIOUS
<1>5. ASSUME NEW r \in Rows, Inside(x, k, r) PROVE r \in x.rows
  <2>0. r[1] \in Partitions /\ r[2] \in Nat
    BY RowFacts
  <2>1. lo[r[1]] <= r[2]
    <3>1. CASE r[1] \in DOMAIN x.bottom
      BY <1>1, <1>2, <1>4, <1>5, <2>0, <3>1 DEF Inside, AtLeastBottom
    <3>2. CASE r[1] \notin DOMAIN x.bottom
      <4>1. origin[r[1]] <= r[2]
        BY <1>2, <1>3, <1>5, <3>2 DEF Inside, AtLeastBottom
      <4>2. QED
        BY <1>2, <1>4, <2>0, <4>1
    <3>3. QED
      BY <3>1, <3>2
  <2>2. r[2] < hi[r[1]]
    BY <1>1, <1>2, <1>3, <1>4, <1>5, <2>0 DEF Inside, UnderTop
  <2>3. QED
    BY <1>2, <2>1, <2>2
<1>6. x.rows \subseteq Accounted(x, bf, k, tf)
  BY DEF Accounted
<1>7. WholeInside(x, bf, k, tl, tf) /\ PagedWithoutTop(x, k)
  BY <1>5, <1>6 DEF WholeInside, PagedWithoutTop
<1>8. AboveTop(x, bf, k, tl, tf)
  <2> SUFFICES ASSUME NEW r \in Rows, x.attached \/ r[1] \notin DOMAIN x.top,
                      ~UnderTop(x, k, r), Streamed(tl, r) \/ r[2] < k.known[r[1]]
               PROVE  r \in Accounted(x, bf, k, tf)
    BY DEF AboveTop
  <2>0. r[1] \in Partitions /\ r[2] \in Nat
    BY RowFacts
  <2>1. x.attached /\ hi[r[1]] = hd[r[1]] /\ k.known # NoHeads
    BY <1>2, <1>3, <2>0
  <2>2. CASE r[2] < hd[r[1]]
    <3>1. lo[r[1]] <= r[2]
      BY <1>1, <1>2, <1>3, <1>4, <2>0 DEF UnderTop
    <3>2. QED
      BY <1>2, <1>6, <2>1, <2>2, <3>1
  <2>3. CASE ~(r[2] < hd[r[1]])
    <3>1. hd[r[1]] <= r[2]
      BY <1>4, <2>0, <2>3
    <3>2. ~(r[2] < k.known[r[1]])
      <4>1. k.known[r[1]] <= hd[r[1]] /\ k.known[r[1]] \in Nat
        BY <1>3, <2>0, <2>1 DEF Histories
      <4>2. QED
        BY <1>4, <2>0, <3>1, <4>1
    <3>3. r \in bf \cup k.dropped \cup NeverStreamed(k, tf)
      BY <1>3, <2>1, <3>1, <3>2
    <3>4. QED
      BY <3>3 DEF Accounted
  <2>4. QED
    BY <2>2, <2>3
<1>9. RowsInside(x, k) /\ RowsHaveAnEdge(x)
  BY <1>2 DEF RowsInside, RowsHaveAnEdge, Inside, AtLeastBottom, UnderTop
<1>10. EdgesInOrder(x, k)
  BY <1>2, <1>3 DEF EdgesInOrder
<1>11. HeadsKnown(x, k)
  BY <1>2, <1>3 DEF HeadsKnown
<1>12. SoundBuffer(x, bf, k, tl, tf)
  <2>1. SoundBuffer(EmptyWindow, bf, h, tl, tf)
    BY DEF Sound
  <2>2. BufferGoesOn(x, bf, k, tl, tf)
    <3> SUFFICES ASSUME NEW b \in bf, NEW r \in Rows, b[1] = r[1] /\ b[2] < r[2],
                        Streamed(tl, r)
                 PROVE  r \in Accounted(x, bf, k, tf)
      BY DEF BufferGoesOn
    <3>1. r \in Accounted(EmptyWindow, bf, h, tf)
      BY <2>1, EmptyWindowFacts, NoEntriesFacts DEF SoundBuffer, BufferGoesOn
    <3>2. QED
      BY <1>3, <3>1, EmptyWindowFacts DEF Accounted
  <2>3. QED
    BY <2>1, <2>2 DEF SoundBuffer
<1>13. WithinHeads(x, heads)
  <2>1. \A p \in DOMAIN x.top : x.top[p] <= heads[p]
    BY <1>1, <1>2, <1>4
  <2>2. \A p \in DOMAIN x.bottom : x.bottom[p] <= heads[p]
    BY <1>1, <1>2, <1>4, <2>1
  <2>3. \A r \in x.rows : r[2] < heads[r[1]]
    <3> SUFFICES ASSUME NEW r \in x.rows PROVE r[2] < heads[r[1]]
      OBVIOUS
    <3>1. r[2] \in Nat /\ r[1] \in Partitions /\ r[2] < hi[r[1]]
      BY <1>1, <1>2, RowFacts
    <3>2. QED
      BY <1>2, <1>4, <3>1
  <2>4. QED
    BY <2>1, <2>2, <2>3 DEF WithinHeads
<1>14. QED
  BY <1>7, <1>8, <1>9, <1>10, <1>11, <1>12, <1>13 DEF Sound, SoundWindow, k

\* An empty window takes all of a page's rows.
LEMMA AnchorRows ==
    ASSUME NEW page
    PROVE  /\ EmptyWindow.rows \cup (page.rows \ EmptyWindow.rows) = page.rows
           /\ page.rows \ EmptyWindow.rows = page.rows
BY EmptyWindowFacts

\* The page at the tail, which reads back from the heads.
LEMMA BackAnchor ==
    ASSUME NEW page, NEW from, NEW hd,
           page.dir = Back, page.start = NoPositions, page.attach = TRUE,
           DOMAIN from = Partitions, from = hd,
           ReadPage(Back, from, page.cont, page.rows, hd)
    PROVE  LET x == PageMerged(EmptyWindow, page) IN
           /\ x \in Windows /\ x.attached /\ ~x.topMatters
           /\ \E lo \in [Partitions -> Nat] : AnchorWindow(x, lo, from, from, hd)
<1> DEFINE x == PageMerged(EmptyWindow, page)
           to == Reached(Back, from, page.cont, hd)
           new == page.rows
           m == NoEntries
           c == Entries(page.cont)
           b == MovedDown(m, new, c)
           n == PastHighest(new)
           t == SetOver(n, m)
<1>1. /\ DOMAIN to = Partitions
      /\ \A p \in Partitions : from[p] \in Nat /\ to[p] \in Nat /\ hd[p] \in Nat
      /\ new \subseteq Rows
      /\ \A r \in new : to[r[1]] <= r[2] /\ r[2] < from[r[1]]
      /\ \A r \in Rows : to[r[1]] <= r[2] /\ r[2] < from[r[1]] => r \in new
      /\ \A p \in Partitions : to[p] <= from[p]
      /\ page.cont = NoPositions => \A p \in Partitions : to[p] = 0
      /\ page.cont # NoPositions => to = page.cont /\ page.cont \in Positions
      /\ page.cont \in Positions \cup {NoPositions}
      /\ to \in [Partitions -> Nat]
  <2>1. Back \in Direction /\ \A r \in Rows : r[1] \in Partitions
    BY RowFacts DEF Direction
  <2>2. /\ DOMAIN to = DOMAIN from
        /\ \A p \in DOMAIN from : from[p] \in Nat /\ to[p] \in Nat /\ hd[p] \in Nat
        /\ new \subseteq Rows
        /\ \A r \in new : to[r[1]] <= r[2] /\ r[2] < from[r[1]]
        /\ \A r \in Rows : /\ r[1] \in DOMAIN from
                           /\ to[r[1]] <= r[2] /\ r[2] < from[r[1]]
                           => r \in new
        /\ \A p \in DOMAIN from : to[p] <= from[p] /\ from[p] <= hd[p]
        /\ page.cont = NoPositions => \A p \in DOMAIN from : to[p] = 0
        /\ page.cont # NoPositions => to = page.cont /\ page.cont \in Positions
        /\ page.cont \in Positions \cup {NoPositions}
    BY <2>1, ReadPageFacts
  <2>3. to \in [DOMAIN from -> Nat]
    <3>1. CASE page.cont # NoPositions
      BY <2>2, <3>1, PositionsFacts
    <3>2. CASE page.cont = NoPositions
      BY <3>2 DEF Reached, Back, Forward
    <3>3. QED
      BY <3>1, <3>2
  <2> HIDE DEF to
  <2>4. QED
    BY <2>1, <2>2, <2>3
<1> HIDE DEF to
<1>2. m \in Positions /\ DOMAIN m = {}
  BY NoEntriesFacts
<1>3. /\ c \in Positions /\ DOMAIN c = (IF page.cont = NoPositions THEN {} ELSE Partitions)
      /\ \A p \in DOMAIN c : c[p] = to[p]
  BY <1>1, EntriesFacts DEF Entries
<1> HIDE DEF c, new
<1>4. x = [rows |-> new, bottom |-> b, top |-> t, attached |-> TRUE, topMatters |-> FALSE]
  <2>1. Back # Forward
    BY DEF Back, Forward
  <2>2. BottomAfterPage(EmptyWindow, page, new) = b /\ TopAfterPage(EmptyWindow, page, new) = t
    BY <2>1, EmptyWindowFacts DEF BottomAfterPage, TopAfterPage, c, Entries, MovedDown, MovedUp
  <2>3. Attaches(page)
    BY DEF Attaches
  <2>4. QED
    BY <2>2, <2>3, AnchorRows, EmptyWindowFacts DEF PageMerged, new
<1> HIDE DEF m
<1>5. /\ b \in Positions
      /\ DOMAIN b = DOMAIN m \cup PartitionsOf(new) \cup DOMAIN c
      /\ \A p \in DOMAIN c : b[p] = c[p]
      /\ \A p \in DOMAIN b \ DOMAIN c :
           /\ p \in DOMAIN m => b[p] <= m[p]
           /\ \A r \in new : r[1] = p => b[p] <= r[2]
           /\ \/ p \in DOMAIN m /\ b[p] = m[p]
              \/ \E r \in new : r[1] = p /\ b[p] = r[2]
  <2>1. m \in Positions /\ new \in SUBSET Rows /\ c \in Positions
    BY <1>1, <1>2, <1>3 DEF new
  <2>2. IsMovedDown(b, m, new, c)
    BY <2>1, OwnBottom
  <2> HIDE DEF b
  <2>3. QED
    BY <2>2 DEF IsMovedDown
<1> HIDE DEF b
<1>6. /\ t \in Positions /\ DOMAIN t = PartitionsOf(new)
      /\ \A p \in DOMAIN t : \E r \in new : r[1] = p /\ t[p] = r[2] + 1
      /\ \A r \in new : r[1] \in DOMAIN t /\ r[2] < t[r[1]]
  <2>1. n \in Positions /\ new \subseteq Rows
    BY <1>1, EdgeMapsOfRows DEF new
  <2> HIDE DEF n
  <2>2. t = n
    BY <2>1, OverNothing DEF m
  <2>3. QED
    BY <2>1, <2>2, PastHighestFacts DEF n
<1> HIDE DEF t
<1>7. x \in Windows /\ x.attached /\ ~x.topMatters /\ x.rows = new /\ x.bottom = b /\ x.top = t
  <2> HIDE DEF x
  <2> QED BY <1>1, <1>4, <1>5, <1>6 DEF Windows, new
<1>8. \A r \in new : r[1] \in Partitions /\ r[2] \in Nat /\ r[1] \in PartitionsOf(new)
  BY <1>1, RowFacts DEF PartitionsOf, new
<1>9. DOMAIN b \subseteq Partitions /\ \A p \in DOMAIN b : b[p] \in Nat
  BY <1>5, PositionsFacts
<1>10. \A p \in DOMAIN t : t[p] \in Nat /\ to[p] <= t[p] /\ t[p] <= from[p]
  BY <1>1, <1>6, <1>8 DEF new
<1>11. \A r \in new : r[1] \in DOMAIN b /\ b[r[1]] <= r[2]
  BY <1>1, <1>3, <1>5, <1>8 DEF new
<1>12. ASSUME NEW p \in DOMAIN b
       PROVE  to[p] <= b[p] /\ b[p] <= IF p \in DOMAIN t THEN t[p] ELSE from[p]
  <2>1. p \in Partitions /\ b[p] \in Nat
    BY <1>9
  <2>2. CASE p \in DOMAIN t
    <3>1. PICK r \in new : r[1] = p /\ t[p] = r[2] + 1
      BY <1>6, <2>2
    <3>2. b[p] <= r[2] /\ r[2] \in Nat
      BY <1>8, <1>11, <3>1
    <3>3. to[p] <= b[p]
      BY <1>1, <1>2, <1>3, <1>5, <2>1 DEF new
    <3>4. QED
      BY <2>1, <2>2, <3>1, <3>2, <3>3
  <2>3. CASE p \notin DOMAIN t
    <3>1. p \in DOMAIN c
      BY <1>2, <1>5, <1>6, <2>3
    <3>2. b[p] = to[p]
      BY <1>3, <1>5, <3>1
    <3>3. QED
      BY <1>1, <2>1, <2>3, <3>2
  <2>4. QED
    BY <2>2, <2>3
<1>13. AnchorWindow(x, to, from, from, hd)
  <2>1. x.rows = {r \in Rows : to[r[1]] <= r[2] /\ r[2] < from[r[1]]}
    BY <1>1, <1>7 DEF new
  <2>2. \A p \in Partitions : to[p] <= from[p] /\ from[p] <= from[p] /\ from[p] <= hd[p]
    BY <1>1
  <2> HIDE DEF x
  <2>3. QED
    BY <1>6, <1>7, <1>10, <1>11, <1>12, <2>1, <2>2 DEF AnchorWindow
<1>14. QED
  <2> HIDE DEF x
  <2> QED BY <1>1, <1>7, <1>13 DEF x

\* The page from an earlier place, which reads forward from it.
LEMMA ForwardAnchor ==
    ASSUME NEW page, NEW from, NEW hd,
           page.dir = Forward, page.start = NoPositions,
           DOMAIN from = Partitions,
           ReadPage(Forward, from, page.cont, page.rows, hd)
    PROVE  LET x == PageMerged(EmptyWindow, page) IN
           /\ x \in Windows /\ ~x.topMatters
           /\ x.attached <=> page.cont = NoPositions
           /\ \E hi \in [Partitions -> Nat] : AnchorWindow(x, from, hi, from, hd)
<1> DEFINE x == PageMerged(EmptyWindow, page)
           to == Reached(Forward, from, page.cont, hd)
           new == page.rows
           m == NoEntries
           c == Entries(page.cont)
           t == MovedUp(m, new, c)
           n == Lowest(new)
           b == SetOver(n, m)
<1>1. /\ DOMAIN to = Partitions
      /\ \A p \in Partitions : from[p] \in Nat /\ to[p] \in Nat /\ hd[p] \in Nat
      /\ new \subseteq Rows
      /\ \A r \in new : from[r[1]] <= r[2] /\ r[2] < to[r[1]]
      /\ \A r \in Rows : from[r[1]] <= r[2] /\ r[2] < to[r[1]] => r \in new
      /\ \A p \in Partitions : from[p] <= to[p] /\ to[p] <= hd[p]
      /\ page.cont = NoPositions => \A p \in Partitions : to[p] = hd[p]
      /\ page.cont # NoPositions => to = page.cont /\ page.cont \in Positions
      /\ page.cont \in Positions \cup {NoPositions}
      /\ to \in [Partitions -> Nat]
  <2>1. Forward \in Direction /\ \A r \in Rows : r[1] \in Partitions
    BY RowFacts DEF Direction
  <2>2. /\ DOMAIN to = DOMAIN from
        /\ \A p \in DOMAIN from : from[p] \in Nat /\ to[p] \in Nat /\ hd[p] \in Nat
        /\ new \subseteq Rows
        /\ \A r \in new : from[r[1]] <= r[2] /\ r[2] < to[r[1]]
        /\ \A r \in Rows : /\ r[1] \in DOMAIN from
                           /\ from[r[1]] <= r[2] /\ r[2] < to[r[1]]
                           => r \in new
        /\ \A p \in DOMAIN from : from[p] <= to[p] /\ to[p] <= hd[p]
        /\ page.cont = NoPositions => \A p \in DOMAIN from : to[p] = hd[p]
        /\ page.cont # NoPositions => to = page.cont /\ page.cont \in Positions
        /\ page.cont \in Positions \cup {NoPositions}
    BY <2>1, ReadPageFacts
  <2>3. to \in [DOMAIN from -> Nat]
    <3>1. CASE page.cont # NoPositions
      BY <2>2, <3>1, PositionsFacts
    <3>2. CASE page.cont = NoPositions
      BY <2>2, <3>2 DEF Reached, Back, Forward
    <3>3. QED
      BY <3>1, <3>2
  <2> HIDE DEF to
  <2>4. QED
    BY <2>1, <2>2, <2>3
<1> HIDE DEF to
<1>2. m \in Positions /\ DOMAIN m = {}
  BY NoEntriesFacts
<1>3. /\ c \in Positions /\ DOMAIN c = (IF page.cont = NoPositions THEN {} ELSE Partitions)
      /\ \A p \in DOMAIN c : c[p] = to[p]
  BY <1>1, EntriesFacts DEF Entries
<1> HIDE DEF c, new
<1>4. x = [rows |-> new, bottom |-> b, top |-> t, attached |-> page.cont = NoPositions,
           topMatters |-> FALSE]
  <2>1. Back # Forward
    BY DEF Back, Forward
  <2>2. BottomAfterPage(EmptyWindow, page, new) = b /\ TopAfterPage(EmptyWindow, page, new) = t
    BY <2>1, EmptyWindowFacts DEF BottomAfterPage, TopAfterPage, c, Entries, MovedDown, MovedUp
  <2>3. (EmptyWindow.attached \/ Attaches(page)) = (page.cont = NoPositions)
    BY <2>1, EmptyWindowFacts DEF Attaches
  <2>4. QED
    BY <2>1, <2>2, <2>3, AnchorRows, EmptyWindowFacts DEF PageMerged, new
<1> HIDE DEF m
<1>5. /\ t \in Positions
      /\ DOMAIN t = DOMAIN m \cup PartitionsOf(new) \cup DOMAIN c
      /\ \A p \in DOMAIN c : t[p] = c[p]
      /\ \A p \in DOMAIN t \ DOMAIN c :
           /\ p \in DOMAIN m => m[p] <= t[p]
           /\ \A r \in new : r[1] = p => r[2] < t[p]
           /\ \/ p \in DOMAIN m /\ t[p] = m[p]
              \/ \E r \in new : r[1] = p /\ t[p] = r[2] + 1
  <2>1. m \in Positions /\ new \in SUBSET Rows /\ c \in Positions
    BY <1>1, <1>2, <1>3 DEF new
  <2>2. IsMovedUp(t, m, new, c)
    BY <2>1, OwnTop
  <2> HIDE DEF t
  <2>3. QED
    BY <2>2 DEF IsMovedUp
<1> HIDE DEF t
<1>6. /\ b \in Positions /\ DOMAIN b = PartitionsOf(new)
      /\ \A p \in DOMAIN b : \E r \in new : r[1] = p /\ b[p] = r[2]
      /\ \A r \in new : r[1] \in DOMAIN b /\ b[r[1]] <= r[2]
  <2>1. n \in Positions /\ new \subseteq Rows
    BY <1>1, EdgeMapsOfRows DEF new
  <2> HIDE DEF n
  <2>2. b = n
    BY <2>1, OverNothing DEF m
  <2>3. QED
    BY <2>1, <2>2, LowestFacts DEF n
<1> HIDE DEF b
<1>7. /\ x \in Windows /\ ~x.topMatters
      /\ x.attached <=> page.cont = NoPositions
      /\ x.rows = new /\ x.bottom = b /\ x.top = t
  <2> HIDE DEF x
  <2> QED BY <1>1, <1>4, <1>5, <1>6 DEF Windows, new
<1>8. \A r \in new : r[1] \in Partitions /\ r[2] \in Nat /\ r[1] \in PartitionsOf(new)
  BY <1>1, RowFacts DEF PartitionsOf, new
<1>9. DOMAIN t \subseteq Partitions /\ \A p \in DOMAIN t : t[p] \in Nat
  BY <1>5, PositionsFacts
<1>10. \A p \in DOMAIN t : from[p] <= t[p] /\ t[p] <= to[p]
  <2> SUFFICES ASSUME NEW p \in DOMAIN t PROVE from[p] <= t[p] /\ t[p] <= to[p]
    OBVIOUS
  <2>1. CASE p \in DOMAIN c
    BY <1>1, <1>3, <1>5, <1>9, <2>1
  <2>2. CASE p \notin DOMAIN c
    <3>1. PICK r \in new : r[1] = p /\ t[p] = r[2] + 1
      BY <1>2, <1>5, <2>2
    <3>2. from[p] <= r[2] /\ r[2] < to[p] /\ r[2] \in Nat /\ from[p] \in Nat /\ to[p] \in Nat
      BY <1>1, <1>8, <3>1 DEF new
    <3>3. QED
      BY <3>1, <3>2
  <2>3. QED
    BY <2>1, <2>2
<1>11. \A r \in new : r[1] \in DOMAIN t /\ r[2] < t[r[1]]
  BY <1>1, <1>3, <1>5, <1>8 DEF new
<1>12. ASSUME NEW p \in DOMAIN b
       PROVE  from[p] <= b[p] /\ b[p] <= IF p \in DOMAIN t THEN t[p] ELSE from[p]
  <2>1. PICK r \in new : r[1] = p /\ b[p] = r[2]
    BY <1>6
  <2>2. from[p] <= r[2] /\ r[2] \in Nat
    BY <1>1, <1>8, <2>1 DEF new
  <2>3. p \in DOMAIN t /\ r[2] < t[p] /\ t[p] \in Nat
    BY <1>9, <1>11, <2>1
  <2>4. QED
    BY <2>1, <2>2, <2>3
<1>13. AnchorWindow(x, from, to, from, hd)
  <2>1. x.rows = {r \in Rows : from[r[1]] <= r[2] /\ r[2] < to[r[1]]}
    BY <1>1, <1>7 DEF new
  <2>2. \A p \in Partitions : from[p] <= from[p] /\ from[p] <= to[p] /\ to[p] <= hd[p]
    BY <1>1
  <2>3. x.attached \/ DOMAIN x.top = Partitions
    BY <1>3, <1>5, <1>7, <1>9
  <2>4. x.attached => \A p \in Partitions : to[p] = hd[p]
    BY <1>1, <1>7
  <2> HIDE DEF x
  <2>5. QED
    BY <1>6, <1>7, <1>10, <1>11, <1>12, <2>1, <2>2, <2>3, <2>4 DEF AnchorWindow
<1>14. QED
  <2> HIDE DEF x
  <2> QED BY <1>1, <1>7, <1>13 DEF x

-----------------------------------------------------------------------------
(* Views, and what the synchronous handlers keep of one.                     *)

Pauses == {"none", "auto", "explicit"}

\* The values a view can have.
Views ==
    [window : Windows, attached : BOOLEAN, pause : Pauses, expanded : Rows \cup {NoRow},
     pinned : BOOLEAN, buffer : Seq(Rows), fromBeginning : BOOLEAN,
     offer : Direction \cup {NoDirection},
     exhausted : [Direction -> BOOLEAN], trimmed : [Direction -> BOOLEAN]]

\* A detached window that holds anything has a top to go on from.
TopKnown(w) == w.attached \/ DOMAIN w.top # {} \/ (w.rows = {} /\ DOMAIN w.bottom = {})

\* A detached window is not exhausted towards the tail, unless its top was
\* trimmed since.
MayGoOn(v) == v.window.attached \/ ~v.exhausted[Forward] \/ v.trimmed[Forward]

\* A view at any moment between two events, whatever the backend answers.
Tidy(v, h, hd) ==
    /\ v \in Views
    /\ Cardinality(v.window.rows) <= Cap
    /\ Len(v.buffer) <= BufferCap
    /\ v.attached => v.window.attached
    /\ ~v.window.topMatters
    /\ TopKnown(v.window) /\ MayGoOn(v)
    /\ WithinHeads(v.window, hd)
    /\ \A r \in ToSet(v.buffer) : r[2] < hd[r[1]]
    /\ v.window.attached => h.known # NoHeads
    /\ h.origin = NoHeads => v.window = EmptyWindow

\* What merging the buffer leaves alone.
Stays(v, x) ==
    /\ x.attached = v.attached /\ x.pinned = v.pinned /\ x.offer = v.offer
    /\ x.fromBeginning = v.fromBeginning /\ x.exhausted = v.exhausted
    /\ x.window.attached = v.window.attached
    /\ DOMAIN v.window.top \subseteq DOMAIN x.window.top
    /\ ~v.attached => x.window = v.window /\ x.buffer = v.buffer
    /\ x.expanded \in {v.expanded, NoRow}

\* No bottom of w is gone or lower in x.
BottomsRise(w, x) ==
    \A p \in DOMAIN w.bottom : p \in DOMAIN x.bottom /\ w.bottom[p] <= x.bottom[p]

\* Noting an outcome gives the view its window, and detaches the view when
\* the top was trimmed.
LEMMA AppliedIs ==
    ASSUME NEW v \in Views, NEW o, o.window \in Windows, o.trimmedTop \in BOOLEAN,
           o.trimmedBottom \in BOOLEAN
    PROVE  LET x == Applied(v, o) IN
           /\ x \in Views /\ x.window = o.window
           /\ x.attached = (v.attached /\ ~o.trimmedTop)
           /\ x.pinned = v.pinned /\ x.offer = v.offer /\ x.pause = v.pause
           /\ x.buffer = v.buffer
           /\ x.fromBeginning = v.fromBeginning /\ x.exhausted = v.exhausted
           /\ x.trimmed[Forward] = (v.trimmed[Forward] \/ o.trimmedTop)
           /\ x.expanded \in {v.expanded, NoRow}
<1> DEFINE x == Applied(v, o)
           t == [d \in Direction |-> v.trimmed[d] \/ IF d = Back THEN o.trimmedBottom
                                                                ELSE o.trimmedTop]
           a == v.attached /\ ~o.trimmedTop
           e == IF Gone(v, o) THEN NoRow ELSE v.expanded
<1>1. x = [v EXCEPT !.window = o.window, !.attached = a, !.trimmed = t, !.expanded = e]
  BY DEF Applied, AttachedAfter, TrimmedAfter
<1>2. Forward \in Direction /\ Forward # Back
  BY DEF Direction, Forward, Back
<1>3. t \in [Direction -> BOOLEAN] /\ t[Forward] = (v.trimmed[Forward] \/ o.trimmedTop)
  BY <1>2 DEF Views
<1>4. a \in BOOLEAN /\ e \in Rows \cup {NoRow} /\ e \in {v.expanded, NoRow}
  BY DEF Views
<1> HIDE DEF x, t, a, e
<1>5. x \in Views
  BY <1>1, <1>3, <1>4 DEF Views
<1>6. /\ x.window = o.window /\ x.attached = a /\ x.trimmed = t /\ x.expanded = e
      /\ x.pinned = v.pinned /\ x.offer = v.offer /\ x.pause = v.pause
      /\ x.buffer = v.buffer
      /\ x.fromBeginning = v.fromBeginning /\ x.exhausted = v.exhausted
  BY <1>1 DEF Views
<1>7. QED
  BY <1>3, <1>4, <1>5, <1>6 DEF x, a

\* What the rows of S make of a view when they enter its window.
LiveSettles(v, S, x, h, hd) ==
    /\ Tidy(x, h, hd) /\ Stays(v, x) /\ x.buffer = v.buffer /\ x.pause = v.pause
    /\ \A bf \in SUBSET Rows, rest \in SUBSET Rows, tl \in Tails, tf \in Tails :
         /\ S \subseteq bf /\ rest \subseteq bf /\ bf \ S \subseteq rest
         /\ Sound(v.window, bf, h, tl, tf)
         => Sound(x.window, rest, h, tl, tf) /\ BottomsRise(v.window, x.window)

\* Live rows enter an attached view.
LEMMA LiveApplied ==
    ASSUME NEW h \in Histories, NEW hd \in [Partitions -> Nat], NEW v, Tidy(v, h, hd),
           v.attached, NEW S \in SUBSET Rows, \A r \in S : r[2] < hd[r[1]],
           NEW o \in InsertLive(v.window, S)
    PROVE  LiveSettles(v, S, Applied(v, o), h, hd)
<1> DEFINE w == v.window
           y == Extended(w, S)
           x == Applied(v, o)
<1>1. v \in Views /\ w \in Windows /\ w.attached = TRUE
  BY DEF Tidy, Views, Windows
<1>2. o \in EnforceCap(y, Forward) /\ Forward \in Direction /\ Forward # Back
  BY InsertLiveIs DEF Direction, Forward, Back
<1>3. /\ y \in Windows /\ y.bottom = w.bottom /\ y.attached = w.attached
      /\ y.topMatters = w.topMatters /\ DOMAIN w.top \subseteq DOMAIN y.top
  BY <1>1, ExtendedFacts
<1>4. WithinHeads(y, hd)
  BY <1>1, LiveWithinHeads DEF Tidy
<1> HIDE DEF y
<1>5. /\ WithinHeads(o.window, hd) /\ o.window \in Windows
      /\ Cardinality(o.window.rows) <= Cap
      /\ o.trimmedTop = FALSE /\ o.trimmedBottom \in BOOLEAN
      /\ o.window.topMatters = y.topMatters
      /\ o.window.attached = y.attached /\ o.window.top = y.top
  <2>1. /\ WithinHeads(o.window, hd) /\ o.window \in Windows
        /\ Cardinality(o.window.rows) <= Cap
        /\ o.trimmedTop \in BOOLEAN /\ o.trimmedBottom \in BOOLEAN
        /\ o.window.topMatters = y.topMatters
        /\ o.trimmedTop => Forward = Back
        /\ ~o.trimmedTop => o.window.attached = y.attached /\ o.window.top = y.top
    BY <1>2, <1>3, <1>4, CapKeepsHeads
  <2>2. QED
    BY <1>2, <2>1
<1>6. /\ x \in Views /\ x.window = o.window
      /\ x.attached = (v.attached /\ ~o.trimmedTop)
      /\ x.pinned = v.pinned /\ x.offer = v.offer /\ x.pause = v.pause
      /\ x.buffer = v.buffer
      /\ x.fromBeginning = v.fromBeginning /\ x.exhausted = v.exhausted
      /\ x.expanded \in {v.expanded, NoRow}
  BY <1>1, <1>5, AppliedIs
<1> HIDE DEF x
<1>7. x.attached = v.attached
  BY <1>1, <1>5, <1>6 DEF Views
<1>8. Tidy(x, h, hd)
  <2>1. h.known # NoHeads /\ h.origin # NoHeads
    BY <1>1, EmptyWindowFacts DEF Tidy
  <2>2. TopKnown(x.window) /\ MayGoOn(x) /\ x.window.attached
    BY <1>1, <1>3, <1>5, <1>6 DEF TopKnown, MayGoOn
  <2>3. QED
    BY <1>3, <1>5, <1>6, <2>1, <2>2 DEF Tidy
<1>9. Stays(v, x)
  BY <1>3, <1>5, <1>6, <1>7 DEF Stays
<1>10. ASSUME NEW bf \in SUBSET Rows, NEW rest \in SUBSET Rows, NEW tl \in Tails, NEW tf \in Tails,
              S \subseteq bf, rest \subseteq bf, bf \ S \subseteq rest, Sound(w, bf, h, tl, tf)
       PROVE  Sound(x.window, rest, h, tl, tf) /\ BottomsRise(w, x.window)
  <2>1. h.origin # NoHeads
    BY <1>1, EmptyWindowFacts DEF Tidy
  <2>2. Sound(y, rest, h, tl, tf)
    <3>1. S \in SUBSET bf /\ rest \in SUBSET bf
      BY <1>10
    <3>2. QED
      BY <1>1, <1>10, <2>1, <3>1, LiveSound DEF y
  <2>3. Sound(o.window, rest, h, tl, tf) /\ BottomsRise(y, o.window)
    BY <1>2, <1>3, <2>1, <2>2, CapKeepsSound DEF BottomsRise
  <2>4. QED
    BY <1>3, <1>6, <2>3 DEF BottomsRise
<1>11. QED
  BY <1>6, <1>8, <1>9, <1>10 DEF x, LiveSettles

\* A view whose buffer is empty instead.
Emptied(v) == [v EXCEPT !.buffer = <<>>]

\* Emptying the buffer leaves the view tidy, with the window it had.
LEMMA EmptiedFacts ==
    ASSUME NEW h, NEW hd, NEW v, Tidy(v, h, hd), v.attached
    PROVE  /\ Tidy(Emptied(v), h, hd) /\ Emptied(v).window = v.window
           /\ Emptied(v).buffer = <<>> /\ Emptied(v).pause = v.pause
           /\ Stays(v, Emptied(v))
           /\ ToSet(<<>>) = {}
           /\ ToSet(v.buffer) \subseteq Rows
<1> DEFINE x == Emptied(v)
<1>1. v \in Views
  BY DEF Tidy
<1>2. ToSet(<<>>) = {} /\ <<>> \in Seq(Rows) /\ Len(<<>>) = 0 /\ BufferCap \in Nat
  BY ViewAssumption DEF ToSet
<1>3. /\ x \in Views /\ x.window = v.window /\ x.attached = v.attached /\ x.buffer = <<>>
      /\ x.pinned = v.pinned /\ x.offer = v.offer /\ x.pause = v.pause
      /\ x.fromBeginning = v.fromBeginning /\ x.exhausted = v.exhausted
      /\ x.trimmed = v.trimmed /\ x.expanded = v.expanded
  BY <1>1, <1>2 DEF Emptied, Views
<1> HIDE DEF x
<1>4. Tidy(x, h, hd)
  BY <1>2, <1>3 DEF Tidy, TopKnown, MayGoOn
<1>5. Stays(v, x)
  BY <1>3 DEF Stays
<1>6. ToSet(v.buffer) \subseteq Rows
  <2>1. v.buffer \in Seq(Rows)
    BY <1>1 DEF Views
  <2>2. QED
    BY <2>1 DEF ToSet
<1>7. QED
  BY <1>2, <1>3, <1>4, <1>5, <1>6 DEF x

\* What a handler that may merge the buffer makes of a view.
Settles(v, x, h, hd) ==
    /\ Tidy(x, h, hd) /\ Stays(v, x)
    /\ \A tl \in Tails, tf \in Tails :
         Sound(v.window, ToSet(v.buffer), h, tl, tf)
           => Sound(x.window, ToSet(x.buffer), h, tl, tf) /\ BottomsRise(v.window, x.window)

\* A handler that leaves the window and the buffer alone has nothing to
\* settle.
LEMMA SettlesAlready ==
    ASSUME NEW h, NEW hd, NEW v, Tidy(v, h, hd), NEW x, Tidy(x, h, hd), Stays(v, x),
           x.window = v.window, x.buffer = v.buffer
    PROVE  Settles(v, x, h, hd)
<1>1. v.window \in Windows
  BY DEF Tidy, Views
<1>2. \A p \in DOMAIN v.window.bottom : v.window.bottom[p] \in Nat
  BY <1>1, PositionsFacts DEF Windows
<1>3. BottomsRise(v.window, x.window)
  BY <1>2 DEF BottomsRise
<1>4. QED
  BY <1>3 DEF Settles

\* Two handlers that settle, one after the other, settle.
LEMMA SettlesOn ==
    ASSUME NEW h, NEW hd, NEW v, Tidy(v, h, hd), NEW x, NEW y,
           Settles(v, x, h, hd), Settles(x, y, h, hd)
    PROVE  Settles(v, y, h, hd)
<1>1. v.window \in Windows /\ x.window \in Windows /\ y.window \in Windows
  BY DEF Settles, Tidy, Views
<1>2. /\ \A p \in DOMAIN v.window.bottom : v.window.bottom[p] \in Nat
      /\ \A p \in DOMAIN x.window.bottom : x.window.bottom[p] \in Nat
      /\ \A p \in DOMAIN y.window.bottom : y.window.bottom[p] \in Nat
  BY <1>1, PositionsFacts DEF Windows
<1>3. BottomsRise(v.window, x.window) /\ BottomsRise(x.window, y.window)
        => BottomsRise(v.window, y.window)
  BY <1>2 DEF BottomsRise
<1>4. Stays(v, y)
  BY DEF Settles, Stays
<1>5. QED
  BY <1>3, <1>4 DEF Settles

\* A change of the pause settles.
LEMMA Repaused ==
    ASSUME NEW h, NEW hd, NEW v, Tidy(v, h, hd), NEW p \in Pauses
    PROVE  LET x == [v EXCEPT !.pause = p] IN
           /\ Settles(v, x, h, hd) /\ x.pause = p /\ x.buffer = v.buffer
           /\ x.expanded = v.expanded
<1> DEFINE x == [v EXCEPT !.pause = p]
<1>1. v \in Views
  BY DEF Tidy
<1>2. /\ x \in Views /\ x.window = v.window /\ x.attached = v.attached /\ x.buffer = v.buffer
      /\ x.pinned = v.pinned /\ x.offer = v.offer /\ x.pause = p
      /\ x.fromBeginning = v.fromBeginning /\ x.exhausted = v.exhausted
      /\ x.trimmed = v.trimmed /\ x.expanded = v.expanded
  BY <1>1 DEF Views
<1> HIDE DEF x
<1>3. Tidy(x, h, hd)
  BY <1>2 DEF Tidy, TopKnown, MayGoOn
<1>4. Stays(v, x)
  BY <1>2 DEF Stays
<1>5. QED
  BY <1>2, <1>3, <1>4, SettlesAlready DEF x

\* A view has settled as itself.
LEMMA SettlesSelf ==
    ASSUME NEW h, NEW hd, NEW v, Tidy(v, h, hd)
    PROVE  Settles(v, v, h, hd)
<1>1. Stays(v, v)
  BY DEF Stays
<1>2. QED
  BY <1>1, SettlesAlready

\* The buffer is merged into an attached window.
LEMMA BufferMerged ==
    ASSUME NEW h \in Histories, NEW hd \in [Partitions -> Nat], NEW v, Tidy(v, h, hd),
           v.attached, NEW o \in InsertLive(v.window, ToSet(v.buffer))
    PROVE  LET x == Applied(Emptied(v), o) IN
           Settles(v, x, h, hd) /\ x.pause = v.pause
<1> DEFINE e == Emptied(v)
           x == Applied(e, o)
           S == ToSet(v.buffer)
<1>1. /\ Tidy(e, h, hd) /\ e.window = v.window /\ e.buffer = <<>> /\ e.pause = v.pause
      /\ Stays(v, e) /\ ToSet(<<>>) = {} /\ S \in SUBSET Rows
  BY EmptiedFacts
<1>2. e.attached /\ \A r \in S : r[2] < hd[r[1]]
  BY <1>1 DEF Stays, Tidy
<1> HIDE DEF e, S
<1>3. o \in InsertLive(e.window, S)
  BY <1>1 DEF S
<1>4. /\ Tidy(x, h, hd) /\ Stays(e, x) /\ x.buffer = e.buffer /\ x.pause = e.pause
      /\ \A bf \in SUBSET Rows, rest \in SUBSET Rows, tl \in Tails, tf \in Tails :
           /\ S \subseteq bf /\ rest \subseteq bf /\ bf \ S \subseteq rest
           /\ Sound(e.window, bf, h, tl, tf)
           => Sound(x.window, rest, h, tl, tf) /\ BottomsRise(e.window, x.window)
  <2>1. LiveSettles(e, S, x, h, hd)
    BY <1>1, <1>2, <1>3, LiveApplied
  <2> HIDE DEF x
  <2>2. QED
    BY <2>1 DEF LiveSettles
<1> HIDE DEF x
<1>5. Stays(v, x)
  BY <1>1, <1>4 DEF Stays
<1>6. ASSUME NEW tl \in Tails, NEW tf \in Tails, Sound(v.window, S, h, tl, tf)
      PROVE  Sound(x.window, ToSet(x.buffer), h, tl, tf) /\ BottomsRise(v.window, x.window)
  <2>1. {} \in SUBSET Rows /\ S \subseteq S /\ {} \subseteq S /\ S \ S \subseteq {}
    OBVIOUS
  <2>2. Sound(x.window, {}, h, tl, tf) /\ BottomsRise(e.window, x.window)
    BY <1>1, <1>4, <1>6, <2>1
  <2>3. QED
    BY <1>1, <1>4, <2>2
<1>7. QED
  BY <1>1, <1>4, <1>5, <1>6 DEF Settles, S, x, e

\* Draining the buffer settles: each buffered row is in the window then, is
\* below its partition's bottom, or was trimmed.
LEMMA DrainedSettles ==
    ASSUME NEW h \in Histories, NEW hd \in [Partitions -> Nat], NEW v, Tidy(v, h, hd),
           v.attached, NEW x \in Drained(v)
    PROVE  Settles(v, x, h, hd) /\ x.pause = v.pause
<1>1. CASE v.buffer = <<>>
  BY <1>1, SettlesSelf DEF Drained
<1>2. CASE v.buffer # <<>>
  <2>1. PICK o \in InsertLive(v.window, ToSet(v.buffer)) : x = Applied(Emptied(v), o)
    BY <1>2 DEF Drained, Emptied
  <2>2. QED
    BY <2>1, BufferMerged
<1>3. QED
  BY <1>1, <1>2

\* Only its button lifts an explicit pause, and the buffer is merged by itself
\* only into an attached window.
LEMMA NextPauseFacts ==
    ASSUME NEW v \in Views,
           NEW event \in {"pillClick", "toggleClick", "scrollPinnedTop", "scrollAwayFromTop",
                          "reattached", "lastInspectionClosed"}
    PROVE  LET d == NextPause(v, event) IN
           /\ d.pause \in Pauses /\ d.flush \in BOOLEAN /\ d.jump \in BOOLEAN
           /\ d.flush /\ event # "reattached" => v.attached
           /\ d.flush /\ event \in {"scrollPinnedTop", "reattached"} => ~Inspecting(v)
           /\ v.pause = "explicit" /\ event # "toggleClick" => d.pause = "explicit"
<1>1. v.pause \in Pauses
  BY DEF Views
<1>2. event = "pillClick" \/ event = "toggleClick" \/ event = "scrollPinnedTop"
      \/ event = "scrollAwayFromTop" \/ event = "reattached" \/ event = "lastInspectionClosed"
  OBVIOUS
<1>3. QED
  BY <1>1, <1>2 DEF NextPause, Decide, OutlastsReattachment, Pauses

\* What ends an inspection by itself may merge the buffer.
LEMMA NotedSettles ==
    ASSUME NEW h \in Histories, NEW hd \in [Partitions -> Nat], NEW v, NEW o,
           Tidy(Applied(v, o), h, hd), NEW x \in Noted(v, o)
    PROVE  /\ Settles(Applied(v, o), x, h, hd)
           /\ Applied(v, o).pause = "explicit" => x.pause = "explicit"
           /\ x.buffer = Applied(v, o).buffer \/ ~Inspecting(x)
<1> DEFINE a == Applied(v, o)
           d == NextPause(a, "lastInspectionClosed")
<1>1. a \in Views
  BY DEF Tidy
<1>2. /\ d.pause \in Pauses /\ d.flush \in BOOLEAN
      /\ d.flush => a.attached
      /\ a.pause = "explicit" => d.pause = "explicit"
  <2> HIDE DEF a
  <2> QED BY <1>1, NextPauseFacts
<1>3. CASE x = a
  BY <1>3, SettlesSelf
<1>4. CASE /\ ~Inspecting(a)
           /\ x \in {[y EXCEPT !.pause = d.pause] : y \in IF d.flush THEN Drained(a) ELSE {a}}
  <2> HIDE DEF a, d
  <2>1. PICK y \in IF d.flush THEN Drained(a) ELSE {a} : x = [y EXCEPT !.pause = d.pause]
    BY <1>4
  <2>2. Settles(a, y, h, hd) /\ Tidy(a, h, hd)
    BY <1>2, <2>1, DrainedSettles, SettlesSelf DEF a
  <2>3. Settles(y, x, h, hd) /\ x.pause = d.pause /\ x.expanded = y.expanded
    BY <1>2, <2>1, <2>2, Repaused DEF Settles
  <2>4. Settles(a, x, h, hd)
    BY <2>2, <2>3, SettlesOn
  <2>5. ~Inspecting(x)
    BY <1>4, <2>4 DEF Settles, Stays, Inspecting
  <2>6. QED
    BY <1>2, <2>3, <2>4, <2>5 DEF a
<1>5. QED
  BY <1>3, <1>4 DEF Noted

\* Flushing the buffer settles.
LEMMA FlushedSettles ==
    ASSUME NEW h \in Histories, NEW hd \in [Partitions -> Nat], NEW v, Tidy(v, h, hd),
           v.attached, NEW x \in Flushed(v)
    PROVE  Settles(v, x, h, hd)
<1>1. CASE v.buffer = <<>>
  BY <1>1, SettlesSelf DEF Flushed
<1>2. CASE v.buffer # <<>>
  <2>1. PICK o \in InsertLive(v.window, ToSet(v.buffer)) : x \in Noted(Emptied(v), o)
    BY <1>2 DEF Flushed, Emptied
  <2> DEFINE a == Applied(Emptied(v), o)
  <2>2. Settles(v, a, h, hd)
    BY <2>1, BufferMerged
  <2>3. Tidy(a, h, hd)
    BY <2>2 DEF Settles
  <2>4. Settles(a, x, h, hd)
    BY <2>1, <2>3, NotedSettles
  <2> HIDE DEF a
  <2>5. QED
    BY <2>2, <2>4, SettlesOn
<1>3. QED
  BY <1>1, <1>2

\* Carrying out a decision of the pause machine settles, and collapses
\* nothing into an inspection.
LEMMA DecidedSettles ==
    ASSUME NEW h \in Histories, NEW hd \in [Partitions -> Nat], NEW v, Tidy(v, h, hd),
           NEW d, d.pause \in Pauses, d.flush \in BOOLEAN, d.flush => v.attached,
           NEW x \in Decided(v, d)
    PROVE  /\ Settles(v, x, h, hd) /\ x.pause = d.pause
           /\ ~d.flush => x.buffer = v.buffer
           /\ ~Inspecting(v) => ~Inspecting(x)
<1>1. PICK y \in IF d.flush THEN Flushed(v) ELSE {v} : x = [y EXCEPT !.pause = d.pause]
  BY DEF Decided
<1>2. Settles(v, y, h, hd)
  BY <1>1, FlushedSettles, SettlesSelf
<1>3. Settles(y, x, h, hd) /\ x.pause = d.pause /\ x.buffer = y.buffer
  BY <1>1, <1>2, Repaused DEF Settles
<1>4. Settles(v, x, h, hd)
  BY <1>2, <1>3, SettlesOn
<1>5. ~Inspecting(v) => ~Inspecting(x)
  BY <1>4 DEF Settles, Stays, Inspecting
<1>6. QED
  BY <1>1, <1>3, <1>4, <1>5

\* What a handler keeps of a view that it attaches.
Remains(v, x, h, hd) ==
    /\ Tidy(x, h, hd)
    /\ x.window.attached = v.window.attached /\ x.exhausted = v.exhausted
    /\ \A tl \in Tails, tf \in Tails :
         Sound(v.window, ToSet(v.buffer), h, tl, tf) => Sound(x.window, ToSet(x.buffer), h, tl, tf)
    /\ v.pause = "explicit" => x.pause = "explicit"
    /\ x.buffer = v.buffer \/ ~Inspecting(x)

\* Re-attaching the view to the stream keeps a tidy view tidy and a sound
\* window sound.
LEMMA ReattachedRemains ==
    ASSUME NEW h \in Histories, NEW hd \in [Partitions -> Nat], NEW v, Tidy(v, h, hd),
           v.window.attached, NEW x \in Reattached(v)
    PROVE  Remains(v, x, h, hd)
<1> DEFINE now == [v EXCEPT !.attached = TRUE]
           then == [now EXCEPT !.attached = FALSE]
           d == NextPause(then, "reattached")
<1>1. v \in Views
  BY DEF Tidy
<1>2. /\ now \in Views /\ now.window = v.window /\ now.attached = TRUE /\ now.buffer = v.buffer
      /\ now.pinned = v.pinned /\ now.offer = v.offer /\ now.pause = v.pause
      /\ now.fromBeginning = v.fromBeginning /\ now.exhausted = v.exhausted
      /\ now.trimmed = v.trimmed /\ now.expanded = v.expanded
  BY <1>1 DEF Views
<1>3. then \in Views /\ then.pause = v.pause /\ then.expanded = v.expanded
  BY <1>1 DEF Views
<1> HIDE DEF now, then
<1>4. Tidy(now, h, hd)
  BY <1>2 DEF Tidy, TopKnown, MayGoOn
<1>5. /\ d.pause \in Pauses /\ d.flush \in BOOLEAN
      /\ d.flush => ~Inspecting(then)
      /\ then.pause = "explicit" => d.pause = "explicit"
  BY <1>3, NextPauseFacts
<1> HIDE DEF d
<1>6. x \in Decided(now, d)
  BY DEF Reattached, now, then, d
<1>7. /\ Settles(now, x, h, hd) /\ x.pause = d.pause
      /\ ~d.flush => x.buffer = now.buffer
      /\ ~Inspecting(now) => ~Inspecting(x)
  BY <1>2, <1>4, <1>5, <1>6, DecidedSettles
<1>8. QED
  BY <1>2, <1>3, <1>5, <1>7 DEF Settles, Stays, Remains, Inspecting

\* A view keeps what it has when it is not re-attached.
LEMMA RemainsSelf ==
    ASSUME NEW h, NEW hd, NEW v, Tidy(v, h, hd)
    PROVE  Remains(v, v, h, hd)
BY DEF Remains

\* The view in which a page's outcome is noted.
Ended(v, page) == [v EXCEPT !.exhausted[page.dir] = page.cont = NoPositions]

\* Noting that a page was the last in its direction changes nothing but
\* that direction's flag.
LEMMA EndedFacts ==
    ASSUME NEW v \in Views, NEW page, page.dir \in Direction
    PROVE  LET x == Ended(v, page) IN
           /\ x \in Views /\ x.window = v.window /\ x.attached = v.attached
           /\ x.buffer = v.buffer /\ x.pause = v.pause /\ x.trimmed = v.trimmed
           /\ x.expanded = v.expanded
           /\ x.exhausted[Forward] = IF page.dir = Forward THEN page.cont = NoPositions
                                     ELSE v.exhausted[Forward]
<1> DEFINE c == (page.cont = NoPositions)
           u == [v.exhausted EXCEPT ![page.dir] = c]
           x == Ended(v, page)
<1>1. c \in BOOLEAN /\ v.exhausted \in [Direction -> BOOLEAN] /\ Forward \in Direction
  BY DEF Views, Direction
<1>2. x = [v EXCEPT !.exhausted = u]
  BY DEF Ended, Views
<1>3. u \in [Direction -> BOOLEAN]
      /\ u[Forward] = IF page.dir = Forward THEN c ELSE v.exhausted[Forward]
  BY <1>1
<1> HIDE DEF u, x, c
<1>4. QED
  BY <1>2, <1>3 DEF Views, x, c

\* Committing a page's outcome keeps the view tidy and the merged window
\* sound.
LEMMA CommittedRemains ==
    ASSUME NEW h \in Histories, NEW hd \in [Partitions -> Nat], NEW v \in Views,
           NEW page, page.dir \in Direction, NEW o,
           o.window \in Windows, o.trimmedTop \in BOOLEAN, o.trimmedBottom \in BOOLEAN,
           Tidy(Applied(Ended(v, page), o), h, hd),
           page.dir = Forward /\ page.cont = NoPositions => o.window.attached,
           NEW x \in Committed(v, page, o)
    PROVE  /\ Tidy(x, h, hd)
           /\ \A tl \in Tails, tf \in Tails :
                Sound(o.window, ToSet(v.buffer), h, tl, tf)
                  => Sound(x.window, ToSet(x.buffer), h, tl, tf)
           /\ v.pause = "explicit" => x.pause = "explicit"
           /\ x.buffer = v.buffer \/ ~Inspecting(x)
<1> DEFINE e == Ended(v, page)
           a == Applied(e, o)
<1>1. /\ e \in Views /\ e.window = v.window /\ e.attached = v.attached
      /\ e.buffer = v.buffer /\ e.pause = v.pause
      /\ e.exhausted[Forward] = IF page.dir = Forward THEN page.cont = NoPositions
                                ELSE v.exhausted[Forward]
  BY EndedFacts
<1> HIDE DEF e
<1>2. /\ a \in Views /\ a.window = o.window /\ a.pause = e.pause /\ a.buffer = e.buffer
      /\ a.exhausted = e.exhausted
  BY <1>1, AppliedIs
<1>3. Tidy(a, h, hd)
  BY DEF e
<1>4. PICK y \in Noted(e, o) :
         \E z \in IF ~y.attached /\ o.window.attached THEN Reattached(y) ELSE {y} :
             x = [z EXCEPT !.trimmed[page.dir] = FALSE]
  BY DEF Committed, e, Ended
<1>4a. PICK z \in IF ~y.attached /\ o.window.attached THEN Reattached(y) ELSE {y} :
             x = [z EXCEPT !.trimmed[page.dir] = FALSE]
  BY <1>4
<1>5. /\ Settles(a, y, h, hd)
      /\ a.pause = "explicit" => y.pause = "explicit"
      /\ y.buffer = a.buffer \/ ~Inspecting(y)
  BY <1>3, <1>4, NotedSettles
<1> HIDE DEF a
<1>6. y.window.attached = o.window.attached /\ y.exhausted = e.exhausted /\ Tidy(y, h, hd)
  BY <1>2, <1>5 DEF Settles, Stays
<1>7. Remains(y, z, h, hd)
  BY <1>4a, <1>6, ReattachedRemains, RemainsSelf
<1>8. ~Inspecting(y) => ~Inspecting(z)
  <2>1. CASE z = y
    BY <2>1
  <2>2. CASE z \in Reattached(y) /\ ~y.attached /\ o.window.attached
    <3> DEFINE now == [y EXCEPT !.attached = TRUE]
               d == NextPause([now EXCEPT !.attached = FALSE], "reattached")
    <3>1. /\ y \in Views /\ now \in Views /\ now.expanded = y.expanded /\ now.attached = TRUE
          /\ [now EXCEPT !.attached = FALSE] \in Views
      BY <1>6 DEF Tidy, Views
    <3>2. Tidy(now, h, hd)
      BY <1>6, <2>2 DEF Tidy, TopKnown, MayGoOn, Views
    <3>3. z \in Decided(now, d)
      BY <2>2 DEF Reattached
    <3>4. d.pause \in Pauses /\ d.flush \in BOOLEAN
      BY <3>1, NextPauseFacts
    <3> HIDE DEF now, d
    <3>5. QED
      BY <3>1, <3>2, <3>3, <3>4, DecidedSettles DEF Inspecting
  <2>3. QED
    BY <1>4a, <2>1, <2>2
<1>9. z \in Views /\ z.window.attached = o.window.attached /\ z.exhausted = e.exhausted
  BY <1>6, <1>7 DEF Remains, Tidy
<1>10. /\ x \in Views /\ x.window = z.window /\ x.attached = z.attached /\ x.buffer = z.buffer
       /\ x.pinned = z.pinned /\ x.offer = z.offer /\ x.pause = z.pause
       /\ x.fromBeginning = z.fromBeginning /\ x.exhausted = z.exhausted
       /\ x.expanded = z.expanded
       /\ page.dir = Back => x.trimmed[Forward] = z.trimmed[Forward]
  <2> DEFINE t == [z.trimmed EXCEPT ![page.dir] = FALSE]
  <2>1. z.trimmed \in [Direction -> BOOLEAN] /\ Forward \in Direction /\ Back # Forward
    BY <1>9 DEF Views, Direction, Back, Forward
  <2>2. t \in [Direction -> BOOLEAN] /\ (page.dir = Back => t[Forward] = z.trimmed[Forward])
    BY <2>1
  <2>3. x = [z EXCEPT !.trimmed = t]
    BY <1>4a, <1>9 DEF Views
  <2> HIDE DEF t
  <2>4. QED
    BY <1>9, <2>2, <2>3 DEF Views
<1>11. MayGoOn(x)
  <2>1. CASE page.dir = Back
    BY <1>7, <1>10, <2>1 DEF Remains, Tidy, MayGoOn
  <2>2. CASE page.dir = Forward
    BY <1>1, <1>9, <1>10, <2>2 DEF MayGoOn
  <2>3. QED
    BY <2>1, <2>2 DEF Direction
<1>12. Tidy(x, h, hd)
  BY <1>7, <1>10, <1>11 DEF Remains, Tidy, TopKnown
<1>13. \A tl \in Tails, tf \in Tails :
         Sound(o.window, ToSet(v.buffer), h, tl, tf) => Sound(x.window, ToSet(x.buffer), h, tl, tf)
  BY <1>1, <1>2, <1>5, <1>7, <1>10 DEF Settles, Remains
<1>14. v.pause = "explicit" => x.pause = "explicit"
  BY <1>1, <1>2, <1>5, <1>7, <1>10 DEF Remains
<1>15. x.buffer = v.buffer \/ ~Inspecting(x)
  BY <1>1, <1>2, <1>5, <1>7, <1>8, <1>10 DEF Remains, Inspecting
<1>17. QED
  BY <1>12, <1>13, <1>14, <1>15

-----------------------------------------------------------------------------
(* Changes of a view that leave its window, its buffer and its pause alone.  *)

\* Such a change, which may only make the window better to go on from.
Keeps(v, x) ==
    /\ x \in Views /\ x.window = v.window /\ x.attached = v.attached
    /\ x.buffer = v.buffer /\ x.pause = v.pause /\ x.expanded = v.expanded
    /\ MayGoOn(v) => MayGoOn(x)

\* A change that leaves window, buffer and pause alone keeps a view tidy.
LEMMA KeepsTidy ==
    ASSUME NEW h, NEW hd, NEW v, NEW x, Tidy(v, h, hd), Keeps(v, x)
    PROVE  Tidy(x, h, hd)
BY DEF Tidy, Keeps, TopKnown

\* Asking for a page leaves window, buffer and pause alone.
LEMMA LoadingKeeps ==
    ASSUME NEW v \in Views, NEW dir \in Direction
    PROVE  Keeps(v, Loading(v, dir))
<1> DEFINE e == [v.exhausted EXCEPT ![dir] = FALSE]
           x == Loading(v, dir)
<1>1. v.exhausted \in [Direction -> BOOLEAN] /\ Forward \in Direction
  BY DEF Views, Direction
<1>2. e \in [Direction -> BOOLEAN] /\ (e[Forward] => v.exhausted[Forward])
  BY <1>1
<1>3. x = [v EXCEPT !.exhausted = e, !.offer = NoDirection]
  BY DEF Loading, Views
<1> HIDE DEF e, x
<1>4. /\ x \in Views /\ x.window = v.window /\ x.attached = v.attached
      /\ x.buffer = v.buffer /\ x.pause = v.pause /\ x.expanded = v.expanded
      /\ x.exhausted = e /\ x.trimmed = v.trimmed
  BY <1>2, <1>3 DEF Views
<1>5. QED
  BY <1>2, <1>4 DEF Keeps, MayGoOn, x

\* Offering a jump leaves window, buffer and pause alone.
LEMMA OfferKeeps ==
    ASSUME NEW v \in Views, NEW offer \in Direction \cup {NoDirection}
    PROVE  Keeps(v, [v EXCEPT !.offer = offer])
<1> DEFINE x == [v EXCEPT !.offer = offer]
<1>1. /\ x \in Views /\ x.window = v.window /\ x.attached = v.attached
      /\ x.buffer = v.buffer /\ x.pause = v.pause /\ x.expanded = v.expanded
      /\ x.exhausted = v.exhausted /\ x.trimmed = v.trimmed
  BY DEF Views
<1>2. QED
  BY <1>1 DEF Keeps, MayGoOn

\* Noting whether the reader is at the top leaves window, buffer and pause
\* alone.
LEMMA PinnedKeeps ==
    ASSUME NEW v \in Views, NEW pinned \in BOOLEAN
    PROVE  Keeps(v, [v EXCEPT !.pinned = pinned])
<1> DEFINE x == [v EXCEPT !.pinned = pinned]
<1>1. /\ x \in Views /\ x.window = v.window /\ x.attached = v.attached
      /\ x.buffer = v.buffer /\ x.pause = v.pause /\ x.expanded = v.expanded
      /\ x.exhausted = v.exhausted /\ x.trimmed = v.trimmed
  BY DEF Views
<1>2. QED
  BY <1>1 DEF Keeps, MayGoOn

\* What LandStale makes of a view before it asks again.
Distrusted(v, dir, done) ==
    [v EXCEPT !.trimmed[dir] = TRUE, !.exhausted[dir] = done]

\* Distrusting an edge leaves window, buffer and pause alone.
LEMMA DistrustedKeeps ==
    ASSUME NEW v \in Views, NEW dir \in Direction, NEW done \in BOOLEAN
    PROVE  Keeps(v, Distrusted(v, dir, done))
<1> DEFINE t == [v.trimmed EXCEPT ![dir] = TRUE]
           e == [v.exhausted EXCEPT ![dir] = done]
           x == Distrusted(v, dir, done)
<1>1. /\ v.exhausted \in [Direction -> BOOLEAN] /\ v.trimmed \in [Direction -> BOOLEAN]
      /\ Forward \in Direction
  BY DEF Views, Direction
<1>2. /\ t \in [Direction -> BOOLEAN] /\ e \in [Direction -> BOOLEAN]
      /\ v.trimmed[Forward] => t[Forward]
      /\ dir = Forward => t[Forward]
      /\ dir # Forward => e[Forward] = v.exhausted[Forward]
  BY <1>1
<1>3. x = [v EXCEPT !.trimmed = t, !.exhausted = e]
  BY DEF Distrusted, Views
<1> HIDE DEF t, e, x
<1>4. /\ x \in Views /\ x.window = v.window /\ x.attached = v.attached
      /\ x.buffer = v.buffer /\ x.pause = v.pause /\ x.expanded = v.expanded
      /\ x.exhausted = e /\ x.trimmed = t
  BY <1>2, <1>3 DEF Views
<1>5. QED
  BY <1>2, <1>4 DEF Keeps, MayGoOn, x

\* Two such changes, one after the other, are such a change.
LEMMA KeepsOn ==
    ASSUME NEW v, NEW x, NEW y, Keeps(v, x), Keeps(x, y)
    PROVE  Keeps(v, y)
BY DEF Keeps

\* A window that starts afresh.
LEMMA RestartTidy ==
    ASSUME NEW v \in Views, NEW dir \in Direction, NEW hd
    PROVE  LET x == Loading(Cleared(v), dir) IN
           /\ Tidy(x, NoHistory, hd)
           /\ x.window = EmptyWindow /\ x.buffer = <<>> /\ x.expanded = NoRow
           /\ x.pause = v.pause
<1> DEFINE f == [d \in Direction |-> FALSE]
           c == Cleared(v)
           x == Loading(c, dir)
<1>1. EmptyWindow \in Windows /\ f \in [Direction -> BOOLEAN] /\ Forward \in Direction /\ f[Forward] = FALSE
  BY EmptyWindowFacts DEF Direction
<1>2. c = [v EXCEPT !.window = EmptyWindow, !.attached = FALSE, !.expanded = NoRow,
                    !.buffer = <<>>, !.exhausted = f, !.trimmed = f]
  BY DEF Cleared
<1>3. <<>> \in Seq(Rows) /\ ToSet(<<>>) = {} /\ Len(<<>>) = 0
  BY DEF ToSet
<1> HIDE DEF f, c
<1>4. /\ c \in Views /\ c.window = EmptyWindow /\ c.attached = FALSE /\ c.expanded = NoRow
      /\ c.buffer = <<>> /\ c.exhausted = f /\ c.pause = v.pause
  BY <1>1, <1>2, <1>3 DEF Views
<1>5. Keeps(c, x)
  BY <1>4, LoadingKeeps
<1>6. Cardinality({}) = 0 /\ 0 <= Cap /\ 0 <= BufferCap
  BY FS_EmptySet, CapAssumption, ViewAssumption
<1>7. Tidy(c, NoHistory, hd)
  <2>1. WithinHeads(EmptyWindow, hd)
    BY EmptyWindowFacts, NoEntriesFacts DEF WithinHeads
  <2>2. TopKnown(c.window) /\ MayGoOn(c)
    BY <1>1, <1>4, EmptyWindowFacts, NoEntriesFacts DEF TopKnown, MayGoOn
  <2>3. QED
    BY <1>3, <1>4, <1>6, <2>1, <2>2, EmptyWindowFacts DEF Tidy
<1>8. QED
  BY <1>4, <1>5, <1>7, KeepsTidy DEF Keeps, c

\* The heads rise.
LEMMA HeadsRise ==
    ASSUME NEW v, NEW h, NEW hd \in [Partitions -> Nat], NEW hd2 \in [Partitions -> Nat],
           Tidy(v, h, hd), \A p \in Partitions : hd[p] <= hd2[p]
    PROVE  Tidy(v, h, hd2)
<1>1. v \in Views /\ v.window \in Windows /\ v.buffer \in Seq(Rows)
  BY DEF Tidy, Views
<1>2. /\ v.window.rows \subseteq Rows
      /\ \A p \in DOMAIN v.window.bottom : p \in Partitions /\ v.window.bottom[p] \in Nat
      /\ \A p \in DOMAIN v.window.top : p \in Partitions /\ v.window.top[p] \in Nat
  BY <1>1, PositionsFacts DEF Windows
<1>3. ToSet(v.buffer) \subseteq Rows
  BY <1>1 DEF ToSet
<1>4. \A r \in Rows : r[2] < hd[r[1]] => r[2] < hd2[r[1]]
  BY RowFacts
<1>5. WithinHeads(v.window, hd2)
  <2>1. WithinHeads(v.window, hd)
    BY DEF Tidy
  <2>2. QED
    BY <1>2, <1>4, <2>1 DEF WithinHeads
<1>6. \A r \in ToSet(v.buffer) : r[2] < hd2[r[1]]
  BY <1>3, <1>4 DEF Tidy
<1>7. QED
  BY <1>5, <1>6 DEF Tidy

-----------------------------------------------------------------------------
(* A page, whatever the backend answers, as long as it lies within the heads. *)

\* A map of positions within the heads.
Bounded(m, hd) == m \in Positions /\ \A p \in DOMAIN m : m[p] <= hd[p]

\* A map of positions within the heads, set over another, is within the
\* heads.
LEMMA OverBounded ==
    ASSUME NEW hd \in [Partitions -> Nat], NEW m, NEW n, Bounded(m, hd), Bounded(n, hd)
    PROVE  Bounded(SetOver(m, n), hd) /\ DOMAIN SetOver(m, n) = DOMAIN m \cup DOMAIN n
BY SetOverFacts DEF Bounded

\* The edges of rows within the heads are within the heads.
LEMMA BoundedRows ==
    ASSUME NEW hd \in [Partitions -> Nat], NEW new \in SUBSET Rows,
           \A r \in new : r[2] < hd[r[1]]
    PROVE  Bounded(Lowest(new), hd) /\ Bounded(PastHighest(new), hd)
<1>1. \A r \in new : r[1] \in Partitions /\ r[2] \in Nat /\ hd[r[1]] \in Nat
  BY RowFacts
<1>2. /\ Lowest(new) \in Positions /\ DOMAIN Lowest(new) = PartitionsOf(new)
      /\ PastHighest(new) \in Positions /\ DOMAIN PastHighest(new) = PartitionsOf(new)
      /\ \A p \in PartitionsOf(new) : \E r \in new : r[1] = p /\ r[2] = Lowest(new)[p]
      /\ \A p \in PartitionsOf(new) : \E r \in new : r[1] = p /\ PastHighest(new)[p] = r[2] + 1
  BY EdgeMapsOfRows, LowestFacts, PastHighestFacts
<1>3. QED
  BY <1>1, <1>2 DEF Bounded

\* Merging a page that lies within the heads leaves the window within them,
\* attached if it was, and with a top to go on from.
LEMMA PageTidy ==
    ASSUME NEW w \in Windows, NEW page, page.dir \in Direction, page.attach \in BOOLEAN,
           page.cont \in Positions \cup {NoPositions},
           NEW hd \in [Partitions -> Nat], page.rows \in SUBSET Rows,
           \A r \in page.rows : r[2] < hd[r[1]],
           page.cont # NoPositions => \A p \in DOMAIN page.cont : page.cont[p] <= hd[p],
           WithinHeads(w, hd)
    PROVE  LET x == PageMerged(w, page) IN
           /\ x \in Windows /\ WithinHeads(x, hd)
           /\ x.rows = w.rows \cup page.rows
           /\ x.attached = (w.attached \/ Attaches(page))
           /\ x.topMatters = (w.topMatters \/
                (page.dir = Back /\ page.start = NoPositions /\ ~page.attach))
           /\ DOMAIN w.top \subseteq DOMAIN x.top
           /\ page.dir = Forward /\ page.cont # NoPositions =>
                DOMAIN page.cont \subseteq DOMAIN x.top
<1> DEFINE x == PageMerged(w, page)
           new == page.rows \ w.rows
           c == Entries(page.cont)
           bottom == BottomAfterPage(w, page, new)
           above == TopAfterPage(w, page, new)
<1>1. /\ Bounded(w.bottom, hd) /\ Bounded(w.top, hd) /\ w.rows \subseteq Rows
      /\ new \in SUBSET Rows
      /\ \A r \in page.rows \cup w.rows : r[2] < hd[r[1]]
  BY DEF Windows, WithinHeads, Bounded
<1>2. Bounded(c, hd)
  BY EntriesFacts DEF Bounded, Entries
<1>3. /\ Bounded(Lowest(new), hd) /\ Bounded(PastHighest(new), hd)
      /\ DOMAIN Lowest(new) = PartitionsOf(new) /\ DOMAIN PastHighest(new) = PartitionsOf(new)
  BY <1>1, BoundedRows, LowestFacts, PastHighestFacts
<1>4. Bounded(MovedDown(w.bottom, new, c), hd)
  <2> DEFINE b == MovedDown(w.bottom, new, c)
  <2>1. IsMovedDown(b, w.bottom, new, c)
    BY <1>1, <1>2, OwnBottom DEF Bounded
  <2> HIDE DEF b
  <2>2. \A r \in new : r[1] \in Partitions /\ r[2] \in Nat /\ hd[r[1]] \in Nat /\ r[2] < hd[r[1]]
    BY <1>1, RowFacts
  <2> HIDE DEF new, c
  <2>3. ASSUME NEW p \in DOMAIN b PROVE b[p] <= hd[p]
    <3>1. CASE p \in DOMAIN c
      BY <1>2, <2>1, <3>1 DEF Bounded, IsMovedDown
    <3>2. CASE p \notin DOMAIN c
      <4>1. \/ p \in DOMAIN w.bottom /\ b[p] = w.bottom[p]
            \/ \E r \in new : r[1] = p /\ b[p] = r[2]
        BY <2>1, <2>3, <3>2 DEF IsMovedDown
      <4>2. QED
        BY <1>1, <2>2, <4>1 DEF Bounded
    <3>3. QED
      BY <3>1, <3>2
  <2>4. QED
    BY <2>1, <2>3 DEF Bounded, IsMovedDown, b
<1>5. /\ Bounded(MovedUp(w.top, new, c), hd)
      /\ DOMAIN MovedUp(w.top, new, c) = DOMAIN w.top \cup PartitionsOf(new) \cup DOMAIN c
  <2> DEFINE b == MovedUp(w.top, new, c)
  <2>1. IsMovedUp(b, w.top, new, c)
    BY <1>1, <1>2, OwnTop DEF Bounded
  <2> HIDE DEF b
  <2>2. \A r \in new : r[1] \in Partitions /\ r[2] \in Nat /\ hd[r[1]] \in Nat /\ r[2] < hd[r[1]]
    BY <1>1, RowFacts
  <2> HIDE DEF new, c
  <2>3. ASSUME NEW p \in DOMAIN b PROVE b[p] <= hd[p]
    <3>1. CASE p \in DOMAIN c
      BY <1>2, <2>1, <3>1 DEF Bounded, IsMovedUp
    <3>2. CASE p \notin DOMAIN c
      <4>1. \/ p \in DOMAIN w.top /\ b[p] = w.top[p]
            \/ \E r \in new : r[1] = p /\ b[p] = r[2] + 1
        BY <2>1, <2>3, <3>2 DEF IsMovedUp
      <4>2. QED
        BY <1>1, <2>2, <4>1 DEF Bounded
    <3>3. QED
      BY <3>1, <3>2
  <2>4. QED
    BY <2>1, <2>3 DEF Bounded, IsMovedUp, b
<1>6. Back # Forward /\ (page.dir = Back \/ page.dir = Forward)
  BY DEF Back, Forward, Direction
<1>7. Bounded(bottom, hd)
  <2>1. CASE page.dir = Back
    BY <1>4, <1>6, <2>1 DEF BottomAfterPage, MovedDown, Entries
  <2>2. CASE page.dir = Forward
    BY <1>1, <1>3, <2>2, OverBounded DEF BottomAfterPage
  <2>3. QED
    BY <1>6, <2>1, <2>2
<1>8. /\ Bounded(above, hd) /\ DOMAIN w.top \subseteq DOMAIN above
      /\ page.dir = Forward => DOMAIN c \subseteq DOMAIN above
  <2>1. CASE page.dir = Back
    <3>1. above = IF page.start = NoPositions THEN SetOver(PastHighest(new), w.top) ELSE w.top
      BY <2>1 DEF TopAfterPage
    <3> DEFINE high == PastHighest(new)
    <3>a. Bounded(high, hd) /\ Bounded(w.top, hd)
      BY <1>1, <1>3
    <3> HIDE DEF above, high
    <3>b. \A m, k : Bounded(m, hd) /\ Bounded(k, hd) =>
             Bounded(SetOver(m, k), hd) /\ DOMAIN SetOver(m, k) = DOMAIN m \cup DOMAIN k
      BY OverBounded
    <3>c. Bounded(SetOver(high, w.top), hd) /\ DOMAIN SetOver(high, w.top) = DOMAIN high \cup DOMAIN w.top
      BY <3>a, <3>b
    <3>2. /\ Bounded(SetOver(PastHighest(new), w.top), hd)
          /\ DOMAIN w.top \subseteq DOMAIN SetOver(PastHighest(new), w.top)
      BY <3>c DEF high
    <3> HIDE DEF new
    <3>3. QED
      BY <1>1, <1>6, <2>1, <3>1, <3>2
  <2>2. CASE page.dir = Forward
    BY <1>5, <1>6, <2>2 DEF TopAfterPage, MovedUp, Entries
  <2>3. QED
    BY <1>6, <2>1, <2>2
<1>9. page.cont # NoPositions => c = page.cont
  BY DEF Entries
<1>10. w.rows \cup new = w.rows \cup page.rows
  OBVIOUS
<1>11. Attaches(page) \in BOOLEAN /\ w.attached \in BOOLEAN /\ w.topMatters \in BOOLEAN
  BY DEF Attaches, Windows
<1>12. /\ x.rows = w.rows \cup new /\ x.bottom = bottom /\ x.top = above
       /\ x.attached = (w.attached \/ Attaches(page))
       /\ x.topMatters = (w.topMatters \/
                (page.dir = Back /\ page.start = NoPositions /\ ~page.attach))
       /\ x = [rows |-> w.rows \cup new, bottom |-> bottom, top |-> above,
               attached |-> w.attached \/ Attaches(page),
               topMatters |-> w.topMatters \/
                 (page.dir = Back /\ page.start = NoPositions /\ ~page.attach)]
  BY DEF PageMerged
<1> HIDE DEF x, bottom, above, c
<1>13. x \in Windows
  BY <1>1, <1>7, <1>8, <1>11, <1>12 DEF Windows, Bounded
<1>14. WithinHeads(x, hd)
  BY <1>1, <1>7, <1>8, <1>10, <1>12 DEF WithinHeads, Bounded
<1>15. QED
  BY <1>8, <1>9, <1>10, <1>12, <1>13, <1>14 DEF x

-----------------------------------------------------------------------------
(* The invariant that holds whatever the backend answers: the view is tidy,  *)
(* and so is the page in flight.                                             *)

\* The values a page in flight can have.
Requests ==
    [step : {"asked", "served"}, dir : Direction, start : Positions \cup {NoPositions},
     anchor : {"none", "now", "beginning", "elsewhere"}, from : Positions \cup {NoPositions},
     rows : SUBSET Rows, cont : Positions \cup {NoPositions},
     heads : [Partitions -> Nat] \cup {NoHeads}]

NoMore(m, hd) == \A p \in Partitions : m[p] <= hd[p]

\* The topic, the live streams and the history, with respect to each other.
World(hd, tl, tf, h) ==
    /\ hd \in [Partitions -> Nat] /\ NoMore(FirstHead, hd) /\ NoMore(hd, LastHead)
    /\ tl \in Tails /\ tf \in Tails /\ h \in Histories
    /\ \A p \in Partitions : tl[p] # NoOffset => tl[p] <= hd[p]
    /\ h.origin # NoHeads => NoMore(h.origin, hd)
    /\ h.known # NoHeads => NoMore(h.known, hd)
    /\ h.origin = NoHeads => h.known = NoHeads

\* What a page brings lies within the heads it was read at.
TidyAnswer(q, h, hd) ==
    /\ q.heads \in [Partitions -> Nat] /\ NoMore(q.heads, hd)
    /\ \A r \in q.rows : r[2] < q.heads[r[1]]
    /\ Cardinality(q.rows) <= Limit
    /\ q.cont # NoPositions =>
         DOMAIN q.cont # {} /\ \A p \in DOMAIN q.cont : q.cont[p] <= q.heads[p]
    /\ q.start = NoPositions => q.from \in [Partitions -> Nat] /\ NoMore(q.from, q.heads)
    /\ h.known # NoHeads => NoMore(h.known, q.heads)

\* An anchor page is asked of an empty window, any other page of one that can
\* be read in both directions.
TidyAsk(q, w, h, hd) ==
    /\ q \in Requests
    /\ q.start = NoPositions =>
         /\ h.origin = NoHeads
         /\ \/ q.dir = Back /\ q.anchor = "now"
            \/ q.dir = Forward /\ q.anchor \in {"beginning", "elsewhere"}
    /\ q.start # NoPositions =>
         /\ h.origin # NoHeads /\ q.anchor = "none"
         /\ w.attached \/ DOMAIN w.top # {}
         /\ \A p \in DOMAIN q.start : q.start[p] <= hd[p]
    /\ q.step = "served" => TidyAnswer(q, h, hd)

\* The invariant.
TidyInv ==
    /\ World(head, tail, tailFrom, history)
    /\ Tidy(view, history, head)
    /\ request # NoRequest => TidyAsk(request, view.window, history, head)

\* What no event but a click does to a view: lift an explicit pause, or merge
\* the buffer while something is inspected.
Calm(v, x) ==
    /\ v.pause = "explicit" => x.pause = "explicit"
    /\ v.buffer # <<>> /\ x.buffer = <<>> => ~Inspecting(v) \/ ~Inspecting(x)

\* A page in flight stays as it should be when a live row is merged, a
\* partition grows, or the view changes, as long as the window keeps its
\* tops and stays attached.
LEMMA AskHolds ==
    ASSUME NEW q, NEW w, NEW h, NEW hd \in [Partitions -> Nat], TidyAsk(q, w, h, hd),
           NEW x, w.attached => x.attached, DOMAIN w.top \subseteq DOMAIN x.top,
           NEW k, k.origin = h.origin, k.known = h.known,
           NEW hd2 \in [Partitions -> Nat], NoMore(hd, hd2)
    PROVE  TidyAsk(q, x, k, hd2)
<1>1. \A p \in Partitions : hd[p] \in Nat /\ hd2[p] \in Nat /\ hd[p] <= hd2[p]
  BY DEF NoMore
<1>2. q.step = "served" => TidyAnswer(q, k, hd2)
  <2> SUFFICES ASSUME q.step = "served" PROVE TidyAnswer(q, k, hd2)
    OBVIOUS
  <2>1. TidyAnswer(q, h, hd)
    BY DEF TidyAsk
  <2>2. NoMore(q.heads, hd2)
    BY <1>1, <2>1 DEF TidyAnswer, NoMore
  <2>3. QED
    BY <2>1, <2>2 DEF TidyAnswer
<1>3. q.start # NoPositions => \A p \in DOMAIN q.start : q.start[p] <= hd2[p]
  <2> SUFFICES ASSUME q.start # NoPositions, NEW p \in DOMAIN q.start
               PROVE  q.start[p] <= hd2[p]
    OBVIOUS
  <2>1. q.start \in Positions /\ q.start[p] <= hd[p]
    BY DEF TidyAsk, Requests
  <2>2. p \in Partitions /\ q.start[p] \in Nat
    BY <2>1, PositionsFacts
  <2>3. QED
    BY <1>1, <2>1, <2>2
<1>4. QED
  BY <1>2, <1>3 DEF TidyAsk

\* A page that is asked from the window's edge.
LEMMA LoadAsk ==
    ASSUME NEW v, NEW h \in Histories, NEW hd \in [Partitions -> Nat], Tidy(v, h, hd),
           NEW dir \in Direction, EdgeFor(v.window, dir) # NoPositions
    PROVE  TidyAsk(Asked(dir, EdgeFor(v.window, dir), "none"), v.window, h, hd)
<1> DEFINE w == v.window
           e == EdgeFor(w, dir)
           q == Asked(dir, e, "none")
<1>1. /\ w \in Windows /\ TopKnown(w) /\ WithinHeads(w, hd)
      /\ h.origin = NoHeads => w = EmptyWindow
  BY DEF Tidy, Views
<1>2. w # EmptyWindow
  BY EmptyWindowFacts, NoEntriesFacts DEF EdgeFor, BottomEdge, TopEdge
<1>3. Back # Forward /\ (dir = Back \/ dir = Forward)
  BY DEF Back, Forward, Direction
<1>4. /\ e \in Positions /\ \A p \in DOMAIN e : e[p] <= hd[p]
      /\ w.attached \/ DOMAIN w.top # {}
  <2>1. CASE dir = Back
    <3>1. e = w.bottom /\ DOMAIN w.bottom # {}
      BY <2>1 DEF EdgeFor, BottomEdge
    <3>2. QED
      BY <1>1, <3>1 DEF Windows, WithinHeads, TopKnown
  <2>2. CASE dir = Forward
    <3>1. e = w.top /\ DOMAIN w.top # {}
      BY <1>3, <2>2 DEF EdgeFor, TopEdge
    <3>2. QED
      BY <1>1, <3>1 DEF Windows, WithinHeads
  <2>3. QED
    BY <1>3, <2>1, <2>2
<1> HIDE DEF e
<1>5. /\ q \in Requests /\ q.start = e /\ q.step = "asked" /\ q.anchor = "none"
      /\ e # NoPositions
  BY <1>4 DEF Asked, Requests, e
<1> HIDE DEF q
<1>6. TidyAsk(q, w, h, hd)
  BY <1>1, <1>2, <1>4, <1>5 DEF TidyAsk
<1>7. QED
  BY <1>6 DEF q, e, w

\* The page a jump asks for is as it should be, since a jump forgets the
\* history.
LEMMA RestartAsk ==
    ASSUME NEW dir, NEW anchor, NEW w, NEW hd,
           \/ dir = Back /\ anchor = "now"
           \/ dir = Forward /\ anchor \in {"beginning", "elsewhere"}
    PROVE  /\ TidyAsk(Asked(dir, NoPositions, anchor), w, NoHistory, hd)
           /\ NoHistory \in Histories
           /\ NoHistory.origin = NoHeads /\ NoHistory.known = NoHeads
<1> DEFINE q == Asked(dir, NoPositions, anchor)
<1>1. NoHistory \in Histories /\ NoHistory.origin = NoHeads /\ NoHistory.known = NoHeads
  BY DEF NoHistory, Histories
<1>2. /\ q \in Requests /\ q.start = NoPositions /\ q.step = "asked"
      /\ q.dir = dir /\ q.anchor = anchor
  BY DEF Asked, Requests, Direction
<1> HIDE DEF q
<1>3. TidyAsk(q, w, NoHistory, hd)
  BY <1>1, <1>2 DEF TidyAsk
<1>4. QED
  BY <1>1, <1>3 DEF q

\* The view that is mounted is empty and detached, and may go on.
LEMMA MountedFacts ==
    /\ MountedView \in Views /\ MountedView.window = EmptyWindow
    /\ MountedView.attached = FALSE /\ MountedView.buffer = <<>>
    /\ MountedView.exhausted[Forward] = FALSE
<1> DEFINE f == [d \in Direction |-> FALSE]
<1>1. f \in [Direction -> BOOLEAN] /\ f[Forward] = FALSE /\ <<>> \in Seq(Rows)
  BY DEF Direction
<1>2. MountedView =
        [window |-> EmptyWindow, attached |-> FALSE, pause |-> "none", expanded |-> NoRow,
         pinned |-> TRUE, buffer |-> <<>>, fromBeginning |-> FALSE, offer |-> NoDirection,
         exhausted |-> f, trimmed |-> f]
  BY DEF MountedView
<1> HIDE DEF f
<1>3. QED
  BY <1>1, <1>2, EmptyWindowFacts DEF Views, Pauses

\* The invariant holds when the view is mounted.
LEMMA InitTidy == Init => TidyInv
<1> SUFFICES ASSUME Init PROVE TidyInv
  OBVIOUS
<1>1. /\ head = FirstHead /\ tailFrom = tail /\ tail = [p \in Partitions |-> NoOffset]
      /\ view = MountedView /\ history = NoHistory
      /\ request = Asked(Back, NoPositions, "now")
  BY DEF Init
<1>2. tail \in Tails /\ \A p \in Partitions : tail[p] = NoOffset
  BY <1>1 DEF Tails
<1>3. NoMore(FirstHead, FirstHead) /\ NoMore(FirstHead, LastHead)
  BY ViewAssumption DEF NoMore
<1>4. /\ NoHistory \in Histories
      /\ NoHistory.origin = NoHeads /\ NoHistory.known = NoHeads
      /\ TidyAsk(request, view.window, history, head)
  BY <1>1, RestartAsk
<1>5. World(head, tail, tailFrom, history)
  BY <1>1, <1>2, <1>3, <1>4, ViewAssumption DEF World
<1>6. Tidy(view, history, head)
  <2>1. WithinHeads(EmptyWindow, head)
    BY EmptyWindowFacts, NoEntriesFacts DEF WithinHeads
  <2>2. TopKnown(EmptyWindow) /\ MayGoOn(MountedView)
    BY MountedFacts, EmptyWindowFacts, NoEntriesFacts DEF TopKnown, MayGoOn
  <2>3. Cardinality({}) = 0 /\ 0 <= Cap /\ 0 <= BufferCap /\ Len(<<>>) = 0 /\ ToSet(<<>>) = {}
    BY FS_EmptySet, CapAssumption, ViewAssumption DEF ToSet
  <2>4. QED
    BY <1>1, <1>4, <2>1, <2>2, <2>3, MountedFacts, EmptyWindowFacts DEF Tidy
<1>7. QED
  BY <1>4, <1>5, <1>6 DEF TidyInv

\* What the invariant says, part by part.
LEMMA TidyParts ==
    ASSUME TidyInv
    PROVE  /\ head \in [Partitions -> Nat] /\ history \in Histories
           /\ tail \in Tails /\ tailFrom \in Tails
           /\ Tidy(view, history, head) /\ view \in Views /\ view.window \in Windows
           /\ view.buffer \in Seq(Rows) /\ ToSet(view.buffer) \in SUBSET Rows
           /\ WithinHeads(view.window, head)
<1>1. Tidy(view, history, head) /\ World(head, tail, tailFrom, history)
  BY DEF TidyInv
<1>2. view \in Views
  BY <1>1 DEF Tidy
<1>3. view.window \in Windows /\ view.buffer \in Seq(Rows)
  BY <1>2 DEF Views
<1>4. ToSet(view.buffer) \in SUBSET Rows
  BY <1>3 DEF ToSet
<1>5. QED
  BY <1>1, <1>2, <1>3, <1>4 DEF World, Tidy

\* A view that does not change is calm.
LEMMA SameCalm == ASSUME NEW v PROVE Calm(v, v)
BY DEF Calm

\* A record that is produced keeps the invariant.
LEMMA ProduceTidy ==
    ASSUME TidyInv, NEW p \in Partitions, Produce(p)
    PROVE  TidyInv' /\ Calm(view, view')
<1>1. /\ head[p] < LastHead[p] /\ head' = [head EXCEPT ![p] = @ + 1]
      /\ UNCHANGED <<tail, tailFrom, view, request, history>>
  BY DEF Produce
<1>2. head \in [Partitions -> Nat] /\ World(head, tail, tailFrom, history)
  BY TidyParts DEF TidyInv
<1>3. /\ head' \in [Partitions -> Nat] /\ head'[p] = head[p] + 1
      /\ \A q \in Partitions : q # p => head'[q] = head[q]
  BY <1>1, <1>2
<1>4. NoMore(head, head') /\ \A q \in Partitions : head[q] \in Nat /\ head'[q] \in Nat
  BY <1>2, <1>3 DEF NoMore
<1>5. \A m \in [Partitions -> Nat] : NoMore(m, head) => NoMore(m, head')
  BY <1>2, <1>4 DEF NoMore
<1>6. NoMore(head', LastHead)
  <2>1. \A q \in Partitions : LastHead[q] \in Nat /\ head[q] <= LastHead[q]
    BY <1>2, ViewAssumption DEF World, NoMore
  <2>2. QED
    BY <1>1, <1>2, <1>3, <2>1 DEF NoMore
<1>7. World(head', tail, tailFrom, history)
  <2>1. \A q \in Partitions : tail[q] # NoOffset => tail[q] <= head'[q]
    BY <1>2, <1>4, <1>5 DEF World, NoMore, Tails
  <2>2. /\ history.origin # NoHeads => history.origin \in [Partitions -> Nat]
        /\ history.known # NoHeads => history.known \in [Partitions -> Nat]
    BY <1>2 DEF World, Histories
  <2>3. QED
    BY <1>2, <1>3, <1>5, <1>6, <2>1, <2>2, ViewAssumption DEF World
<1>8. Tidy(view, history, head')
  BY <1>2, <1>3, <1>4, TidyParts, HeadsRise DEF NoMore
<1>9. request # NoRequest => TidyAsk(request, view.window, history, head')
  BY <1>2, <1>3, <1>4, AskHolds DEF TidyInv
<1>10. QED
  BY <1>1, <1>7, <1>8, <1>9, SameCalm DEF TidyInv

\* A live stream that starts keeps the invariant.
LEMMA StartTailTidy ==
    ASSUME TidyInv, NEW p \in Partitions, StartTail(p)
    PROVE  TidyInv' /\ Calm(view, view')
<1>1. /\ tail' = [tail EXCEPT ![p] = head[p]] /\ tailFrom' = [tailFrom EXCEPT ![p] = head[p]]
      /\ UNCHANGED <<head, view, request, history>>
  BY DEF StartTail
<1>2. /\ head \in [Partitions -> Nat] /\ tail \in Tails /\ tailFrom \in Tails
      /\ World(head, tail, tailFrom, history)
  BY TidyParts DEF TidyInv
<1>3. /\ tail' \in Tails /\ tailFrom' \in Tails
      /\ \A q \in Partitions : tail'[q] = head[q] \/ tail'[q] = tail[q]
  BY <1>1, <1>2 DEF Tails
<1>4. \A q \in Partitions : tail'[q] # NoOffset => tail'[q] <= head[q]
  BY <1>2, <1>3 DEF World
<1>5. World(head, tail', tailFrom', history)
  BY <1>2, <1>3, <1>4 DEF World
<1>6. QED
  BY <1>1, <1>5, SameCalm DEF TidyInv

\* A row that joins the buffer, and the one that makes room for it.
DroppedBy(v) == IF Len(v.buffer) < BufferCap THEN {} ELSE {Head(v.buffer)}

\* Buffering a row adds it at the end, and drops the oldest row of a full
\* buffer.
LEMMA BufferedFacts ==
    ASSUME NEW v \in Views, Len(v.buffer) <= BufferCap, NEW row \in Rows
    PROVE  LET x == Buffered(v, row) IN
           /\ x \in Views
           /\ x.window = v.window /\ x.attached = v.attached /\ x.pause = v.pause
           /\ x.expanded = v.expanded /\ x.exhausted = v.exhausted /\ x.trimmed = v.trimmed
           /\ Len(x.buffer) <= BufferCap /\ x.buffer # <<>>
           /\ ToSet(x.buffer) \subseteq ToSet(v.buffer) \cup {row}
           /\ ToSet(v.buffer) \cup {row} \subseteq ToSet(x.buffer) \cup DroppedBy(v)
           /\ DroppedBy(v) \subseteq Rows
<1> DEFINE s == v.buffer
           b == IF Len(s) < BufferCap THEN Append(s, row) ELSE Append(Tail(s), row)
           x == Buffered(v, row)
<1>1. s \in Seq(Rows) /\ Len(s) \in Nat /\ BufferCap \in Nat /\ BufferCap > 0 /\ Len(s) <= BufferCap
  BY ViewAssumption DEF Views
<1>2. x = [v EXCEPT !.buffer = b]
  BY DEF Buffered, Views
<1>3. /\ b \in Seq(Rows) /\ Len(b) <= BufferCap /\ b # <<>>
      /\ ToSet(b) \subseteq ToSet(s) \cup {row}
      /\ ToSet(s) \cup {row} \subseteq ToSet(b) \cup DroppedBy(v)
      /\ DroppedBy(v) \subseteq Rows
  <2>1. CASE Len(s) < BufferCap
    <3>1. b = Append(s, row) /\ DroppedBy(v) = {}
      BY <2>1 DEF DroppedBy
    <3> HIDE DEF b, s
    <3>2. b \in Seq(Rows) /\ Len(b) = Len(s) + 1 /\ b[Len(s) + 1] = row
          /\ \A i \in 1 .. Len(s) : b[i] = s[i]
      BY <1>1, <3>1
    <3>3. DOMAIN s = 1 .. Len(s) /\ DOMAIN b = 1 .. Len(s) + 1
      BY <1>1, <3>2
    <3>4. b # <<>>
      BY <1>1, <3>2
    <3>5. ToSet(b) = ToSet(s) \cup {row}
      BY <1>1, <3>2, <3>3 DEF ToSet
    <3>6. QED
      BY <1>1, <2>1, <3>1, <3>2, <3>4, <3>5
  <2>2. CASE ~(Len(s) < BufferCap)
    <3>1. b = Append(Tail(s), row) /\ DroppedBy(v) = {Head(s)} /\ Len(s) = BufferCap
      BY <1>1, <2>2 DEF DroppedBy
    <3> DEFINE t == Tail(s)
    <3>2. t \in Seq(Rows) /\ Len(t) = Len(s) - 1 /\ \A i \in 1 .. Len(s) - 1 : t[i] = s[i + 1]
      BY <1>1, <3>1
    <3>3. Head(s) = s[1] /\ s[1] \in Rows
      BY <1>1, <3>1
    <3>4. b = Append(t, row)
      BY <3>1
    <3> HIDE DEF b, t, s
    <3>5. b \in Seq(Rows) /\ Len(b) = Len(s) /\ b[Len(s)] = row
          /\ \A i \in 1 .. Len(s) - 1 : b[i] = t[i]
      BY <1>1, <3>1, <3>2, <3>4
    <3>6. DOMAIN s = 1 .. Len(s) /\ DOMAIN b = 1 .. Len(s)
      BY <1>1, <3>5
    <3>7. b # <<>>
      BY <1>1, <3>1, <3>5
    <3>8. \A i \in 1 .. Len(s) - 1 : b[i] = s[i + 1]
      BY <3>2, <3>5
    <3>9. ToSet(b) \subseteq ToSet(s) \cup {row}
      <4> SUFFICES ASSUME NEW i \in 1 .. Len(s) PROVE b[i] \in ToSet(s) \cup {row}
        BY <3>6 DEF ToSet
      <4>1. CASE i = Len(s)
        BY <3>5, <4>1
      <4>2. CASE i # Len(s)
        <5>1. i \in 1 .. Len(s) - 1 /\ i + 1 \in DOMAIN s
          <6>1. i \in Nat /\ 1 <= i /\ i <= Len(s) /\ i # Len(s)
            BY <1>1, <4>2
          <6>2. i <= Len(s) - 1 /\ i + 1 <= Len(s) /\ 1 <= i + 1
            BY <1>1, <6>1
          <6>3. i \in 1 .. Len(s) - 1
            BY <1>1, <6>1, <6>2
          <6>4. i + 1 \in 1 .. Len(s)
            BY <1>1, <6>1, <6>2
          <6>5. i + 1 \in DOMAIN s
            BY <3>6, <6>4
          <6>6. QED
            BY <6>3, <6>5
        <5>2. QED
          BY <3>8, <5>1 DEF ToSet
      <4>3. QED
        BY <4>1, <4>2
    <3>10. ToSet(s) \subseteq ToSet(b) \cup {Head(s)}
      <4> SUFFICES ASSUME NEW i \in 1 .. Len(s) PROVE s[i] \in ToSet(b) \cup {Head(s)}
        BY <3>6 DEF ToSet
      <4>1. CASE i = 1
        BY <3>3, <4>1
      <4>2. CASE i # 1
        <5>1. i - 1 \in 1 .. Len(s) - 1 /\ i - 1 \in DOMAIN b /\ (i - 1) + 1 = i
          BY <1>1, <3>6, <4>2
        <5>2. b[i - 1] = s[i]
          BY <3>8, <5>1
        <5>3. QED
          BY <5>1, <5>2 DEF ToSet
      <4>3. QED
        BY <4>1, <4>2
    <3>11. row \in ToSet(b)
      BY <1>1, <3>1, <3>5, <3>6 DEF ToSet
    <3>12. QED
      BY <1>1, <3>1, <3>3, <3>5, <3>7, <3>9, <3>10, <3>11
  <2>3. QED
    BY <2>1, <2>2
<1> HIDE DEF b, x, s
<1>4. /\ x \in Views /\ x.window = v.window /\ x.attached = v.attached /\ x.pause = v.pause
      /\ x.expanded = v.expanded /\ x.exhausted = v.exhausted /\ x.trimmed = v.trimmed
      /\ x.buffer = b
  BY <1>2, <1>3 DEF Views
<1>5. QED
  BY <1>3, <1>4 DEF x, s

\* A live row that is merged.
Merges(v, row, x, h, hd) ==
    /\ Tidy(x, h, hd) /\ Calm(v, x)
    /\ x.window.attached = v.window.attached
    /\ DOMAIN v.window.top \subseteq DOMAIN x.window.top
    /\ \A tl \in Tails, tf \in Tails :
         Sound(v.window, ToSet(v.buffer) \cup {row}, h, tl, tf)
           => Sound(x.window, ToSet(x.buffer), h, tl, tf) /\ BottomsRise(v.window, x.window)

\* Merging one live row keeps the view tidy and, with that row accounted
\* for, the window sound.
LEMMA RowMerges ==
    ASSUME NEW h \in Histories, NEW hd \in [Partitions -> Nat], NEW v, Tidy(v, h, hd),
           v.attached, NEW row \in Rows, row[2] < hd[row[1]],
           NEW o \in InsertLive(v.window, {row}), NEW x \in Noted(v, o)
    PROVE  Merges(v, row, x, h, hd)
<1> DEFINE a == Applied(v, o)
           S == {row}
<1>1. LiveSettles(v, S, a, h, hd)
  <2>1. S \in SUBSET Rows /\ \A r \in S : r[2] < hd[r[1]]
    OBVIOUS
  <2> HIDE DEF S, a
  <2>2. o \in InsertLive(v.window, S)
    BY DEF S
  <2>3. QED
    BY <2>1, <2>2, LiveApplied DEF a
<1>2. Tidy(a, h, hd) /\ Stays(v, a) /\ a.buffer = v.buffer /\ a.pause = v.pause
  BY <1>1 DEF LiveSettles
<1>3. /\ Settles(a, x, h, hd)
      /\ a.pause = "explicit" => x.pause = "explicit"
      /\ x.buffer = a.buffer \/ ~Inspecting(x)
  BY <1>2, NotedSettles
<1> HIDE DEF a
<1>4. Calm(v, x)
  BY <1>2, <1>3 DEF Calm
<1>5. v.buffer \in Seq(Rows) /\ v.window \in Windows /\ a.window \in Windows /\ x.window \in Windows
  BY <1>2, <1>3 DEF Settles, Tidy, Views
<1>6. ASSUME NEW tl \in Tails, NEW tf \in Tails,
             Sound(v.window, ToSet(v.buffer) \cup {row}, h, tl, tf)
      PROVE  Sound(x.window, ToSet(x.buffer), h, tl, tf) /\ BottomsRise(v.window, x.window)
  <2> DEFINE bf == ToSet(v.buffer) \cup {row}
             rest == ToSet(v.buffer)
  <2>1. bf \in SUBSET Rows /\ rest \in SUBSET Rows
    BY <1>5 DEF ToSet
  <2>2. S \subseteq bf /\ rest \subseteq bf /\ bf \ S \subseteq rest
    OBVIOUS
  <2> HIDE DEF bf, rest, S
  <2>3. Sound(a.window, rest, h, tl, tf) /\ BottomsRise(v.window, a.window)
    BY <1>1, <1>6, <2>1, <2>2 DEF LiveSettles, bf
  <2>4. Sound(x.window, ToSet(x.buffer), h, tl, tf) /\ BottomsRise(a.window, x.window)
    BY <1>2, <1>3, <2>3 DEF Settles, rest
  <2>5. \A p \in DOMAIN v.window.bottom : v.window.bottom[p] \in Nat
    BY <1>5, PositionsFacts DEF Windows
  <2>6. \A p \in DOMAIN a.window.bottom : a.window.bottom[p] \in Nat
    BY <1>5, PositionsFacts DEF Windows
  <2>7. \A p \in DOMAIN x.window.bottom : x.window.bottom[p] \in Nat
    BY <1>5, PositionsFacts DEF Windows
  <2>8. QED
    BY <2>3, <2>4, <2>5, <2>6, <2>7 DEF BottomsRise
<1>7. /\ x.window.attached = v.window.attached
      /\ DOMAIN v.window.top \subseteq DOMAIN x.window.top
  BY <1>2, <1>3 DEF Settles, Stays
<1>8. Tidy(x, h, hd)
  BY <1>3 DEF Settles
<1>9. QED
  BY <1>4, <1>6, <1>7, <1>8 DEF Merges

\* A live row keeps the invariant: buffered, merged, or ignored.
LEMMA DeliverTidy ==
    ASSUME TidyInv, NEW p \in Partitions, Deliver(p)
    PROVE  TidyInv' /\ Calm(view, view')
<1> DEFINE row == <<p, tail[p]>>
<1>1. /\ tail[p] # NoOffset /\ tail[p] < head[p] /\ tail' = [tail EXCEPT ![p] = @ + 1]
      /\ UNCHANGED <<head, tailFrom, request>>
      /\ IF row \notin Rows THEN UNCHANGED <<view, history>>
         ELSE IF Mergeable(view)
         THEN /\ \E outcome \in InsertLive(view.window, {row}) : view' \in Noted(view, outcome)
              /\ UNCHANGED history
         ELSE /\ view' = Buffered(view, row)
              /\ history' = [history EXCEPT !.dropped = @ \cup DroppedBy(view)]
  BY DEF Deliver, DroppedBy
<1>2. /\ head \in [Partitions -> Nat] /\ history \in Histories
      /\ tail \in Tails /\ tailFrom \in Tails
      /\ Tidy(view, history, head) /\ view \in Views
      /\ World(head, tail, tailFrom, history)
  BY TidyParts DEF TidyInv
<1>3. /\ tail' \in Tails
      /\ \A q \in Partitions : tail'[q] # NoOffset => tail'[q] <= head[q]
  <2>1. tail[p] \in Nat /\ tail[p] + 1 \in Nat /\ head[p] \in Nat /\ tail[p] + 1 <= head[p]
    BY <1>1, <1>2 DEF Tails
  <2>2. tail'[p] = tail[p] + 1 /\ \A q \in Partitions : q # p => tail'[q] = tail[q]
    BY <1>1, <1>2 DEF Tails
  <2>3. tail' \in Tails
    BY <1>1, <1>2, <2>1 DEF Tails
  <2>4. QED
    BY <1>2, <2>1, <2>2, <2>3 DEF World
<1>4. /\ history' \in Histories /\ history'.origin = history.origin
      /\ history'.known = history.known
      /\ Tidy(view', history', head) /\ Calm(view, view')
      /\ view.window.attached => view'.window.attached
      /\ DOMAIN view.window.top \subseteq DOMAIN view'.window.top
  <2>1. CASE row \notin Rows
    BY <1>1, <1>2, <2>1, SameCalm
  <2>2. CASE row \in Rows /\ Mergeable(view)
    <3>1. PICK o \in InsertLive(view.window, {row}) : view' \in Noted(view, o)
      BY <1>1, <2>2
    <3>2. view.attached /\ row[2] < head[row[1]] /\ history' = history
      BY <1>1, <2>2 DEF Mergeable
    <3> HIDE DEF row
    <3>3. Merges(view, row, view', history, head)
      BY <1>2, <2>2, <3>1, <3>2, RowMerges
    <3>4. QED
      BY <1>2, <3>2, <3>3 DEF Merges
  <2>3. CASE row \in Rows /\ ~Mergeable(view)
    <3>1. view' = Buffered(view, row) /\ history' = [history EXCEPT !.dropped = @ \cup DroppedBy(view)]
      BY <1>1, <2>3
    <3>2. row[2] < head[row[1]]
      BY <1>1
    <3> HIDE DEF row
    <3>3. /\ view' \in Views
          /\ view'.window = view.window /\ view'.attached = view.attached
          /\ view'.pause = view.pause
          /\ view'.expanded = view.expanded /\ view'.exhausted = view.exhausted
          /\ view'.trimmed = view.trimmed
          /\ Len(view'.buffer) <= BufferCap /\ view'.buffer # <<>>
          /\ ToSet(view'.buffer) \subseteq ToSet(view.buffer) \cup {row}
          /\ DroppedBy(view) \subseteq Rows
      BY <1>2, <2>3, <3>1, BufferedFacts DEF Tidy
    <3>4. /\ history' \in Histories /\ history'.origin = history.origin
          /\ history'.known = history.known
      BY <1>2, <3>1, <3>3 DEF Histories
    <3>5. Tidy(view', history', head)
      BY <1>2, <3>2, <3>3, <3>4 DEF Tidy, TopKnown, MayGoOn
    <3>6. QED
      BY <3>3, <3>4, <3>5 DEF Calm
  <2>4. QED
    BY <2>1, <2>2, <2>3
<1> HIDE DEF row
<1>5. World(head, tail', tailFrom, history')
  BY <1>2, <1>3, <1>4 DEF World
<1>6. request # NoRequest => TidyAsk(request, view'.window, history', head)
  <2>1. NoMore(head, head)
    BY <1>2 DEF NoMore
  <2>2. QED
    BY <1>2, <1>4, <2>1, AskHolds DEF TidyInv
<1>7. QED
  BY <1>1, <1>4, <1>5, <1>6 DEF TidyInv

\* The backend's answer, from the positions it began at.
LEMMA ServedFromTidy ==
    ASSUME TidyInv, request # NoRequest, request.step = "asked",
           NEW from \in Positions, \A p \in DOMAIN from : from[p] <= head[p],
           request.start = NoPositions => from \in [Partitions -> Nat],
           NEW listed, ServedFrom(from, listed)
    PROVE  TidyAsk(request', view.window, history, head)
<1>1. /\ head \in [Partitions -> Nat] /\ TidyAsk(request, view.window, history, head)
      /\ World(head, tail, tailFrom, history)
  BY TidyParts DEF TidyInv
<1>2. PICK to \in [DOMAIN from \cap listed -> UNION {0 .. head[p] : p \in Partitions}] :
        LET start == [p \in DOMAIN to |-> from[p]]
            atEdge == \A p \in DOMAIN to : to[p] = Edge(request.dir, p)
            rows == Crossing(request.dir, start, to)
        IN  /\ \A p \in DOMAIN to : IF request.dir = Back THEN to[p] <= start[p]
                                    ELSE start[p] <= to[p] /\ to[p] <= head[p]
            /\ Cardinality(rows) <= Limit
            /\ atEdge \/ to # start
            /\ request' = [request EXCEPT !.step = "served", !.rows = rows, !.heads = head,
                                          !.from = from,
                                          !.cont = IF atEdge THEN NoPositions ELSE to]
  BY DEF ServedFrom
<1> DEFINE start == [p \in DOMAIN to |-> from[p]]
           atEdge == \A p \in DOMAIN to : to[p] = Edge(request.dir, p)
           rows == Crossing(request.dir, start, to)
           cont == IF atEdge THEN NoPositions ELSE to
<1>3. DOMAIN from \subseteq Partitions /\ \A p \in DOMAIN from : from[p] \in Nat
  BY PositionsFacts
<1>4. DOMAIN to \subseteq DOMAIN from /\ \A p \in DOMAIN to : to[p] \in Nat
  BY <1>1, <1>3
<1>5. to \in Positions
  <2>1. to \in [DOMAIN to -> Nat] /\ DOMAIN to \subseteq Partitions
    BY <1>3, <1>4
  <2>2. QED
    BY <2>1, PositionsIntro
<1>6. \A p \in DOMAIN to : start[p] = from[p] /\ head[p] \in Nat
  BY <1>1, <1>3, <1>4
<1>7. \A p \in DOMAIN to : to[p] <= head[p]
  BY <1>2, <1>3, <1>4, <1>6
<1>8. rows \subseteq Rows /\ \A r \in rows : r[2] < head[r[1]]
  <2>1. /\ rows \subseteq Rows
        /\ \A r \in rows : r[1] \in DOMAIN to /\ (r[2] < start[r[1]] \/ r[2] < to[r[1]])
    BY DEF Crossing
  <2> HIDE DEF rows, start
  <2>2. QED
    BY <1>3, <1>4, <1>6, <1>7, <2>1, RowFacts
<1>9. cont \in Positions \cup {NoPositions} /\ (cont # NoPositions => cont = to /\ DOMAIN to # {})
  BY <1>5
<1>10. Cardinality(rows) <= Limit
  BY <1>2
<1>11. request' = [request EXCEPT !.step = "served", !.rows = rows, !.heads = head,
                                  !.from = from, !.cont = cont]
  BY <1>2
<1> HIDE DEF rows, cont, start, atEdge
<1>12. request \in Requests
  BY <1>1 DEF TidyAsk
<1>13. /\ request' \in Requests /\ request'.start = request.start /\ request'.dir = request.dir
       /\ request'.anchor = request.anchor /\ request'.rows = rows /\ request'.heads = head
       /\ request'.from = from /\ request'.cont = cont /\ request'.step = "served"
  BY <1>1, <1>8, <1>9, <1>11, <1>12 DEF Requests
<1>15. request.start = NoPositions => NoMore(from, head) /\ NoMore(head, head)
  <2>1. request.start = NoPositions => DOMAIN from = Partitions
    OBVIOUS
  <2>2. QED
    BY <1>1, <2>1 DEF NoMore
<1>16. NoMore(head, head)
  BY <1>1 DEF NoMore
<1>17. TidyAnswer(request', history, head)
  BY <1>1, <1>7, <1>8, <1>9, <1>10, <1>13, <1>15, <1>16 DEF TidyAnswer, World
<1>18. QED
  BY <1>1, <1>13, <1>17 DEF TidyAsk

\* An anchor page begins within the heads in every partition, and at the
\* heads when it is asked for now.
LEMMA AnchoredFrom ==
    ASSUME TidyInv, request # NoRequest, request.start = NoPositions,
           NEW from \in [Partitions -> UNION {0 .. head[p] : p \in Partitions}],
           Anchored(request.anchor, from)
    PROVE  /\ from \in [Partitions -> Nat] /\ from \in Positions
           /\ DOMAIN from = Partitions
           /\ \A p \in Partitions : from[p] <= head[p]
           /\ request.anchor = "now" => from = head
<1>1. head \in [Partitions -> Nat] /\ TidyAsk(request, view.window, history, head)
  BY TidyParts DEF TidyInv
<1>2. from \in [Partitions -> Nat] /\ from \in Positions
  <2>1. from \in [Partitions -> Nat]
    BY <1>1
  <2>2. QED
    BY <2>1, PositionsIntro
<1>3. request.anchor = "now" \/ request.anchor = "beginning" \/ request.anchor = "elsewhere"
  BY <1>1 DEF TidyAsk
<1>4. \A p \in Partitions : from[p] <= head[p]
  <2> SUFFICES ASSUME NEW p \in Partitions PROVE from[p] <= head[p]
    OBVIOUS
  <2>1. from[p] \in Nat /\ head[p] \in Nat
    BY <1>1, <1>2
  <2>2. CASE request.anchor = "now"
    BY <2>1, <2>2 DEF Anchored
  <2>3. CASE request.anchor = "beginning"
    BY <2>1, <2>3 DEF Anchored
  <2>4. CASE request.anchor = "elsewhere"
    BY <2>4 DEF Anchored
  <2>5. QED
    BY <1>3, <2>2, <2>3, <2>4
<1>5. QED
  BY <1>2, <1>3, <1>4 DEF Anchored

\* An answer of the backend keeps the invariant, whichever partitions it
\* leaves out.
LEMMA ServeTidy ==
    ASSUME TidyInv, Serve
    PROVE  TidyInv' /\ Calm(view, view')
<1>1. /\ request # NoRequest /\ request.step = "asked" /\ UNCHANGED <<world, view, history>>
  BY DEF Serve
<1>2. TidyAsk(request, view.window, history, head) /\ request.start \in Positions \cup {NoPositions}
  BY <1>1 DEF TidyInv, TidyAsk, Requests
<1>3. TidyAsk(request', view.window, history, head)
  <2>1. CASE request.start # NoPositions
    <3>1. PICK listed : ServedFrom(request.start, listed)
      BY <2>1 DEF Serve
    <3>2. request.start \in Positions /\ \A p \in DOMAIN request.start : request.start[p] <= head[p]
      BY <1>2, <2>1 DEF TidyAsk
    <3>3. QED
      BY <1>1, <2>1, <3>1, <3>2, ServedFromTidy
  <2>2. CASE request.start = NoPositions
    <3>a. PICK listed :
            \E from \in [Partitions -> UNION {0 .. head[p] : p \in Partitions}] :
              Anchored(request.anchor, from) /\ ServedFrom(from, listed)
      BY <2>2 DEF Serve
    <3>1. PICK from \in [Partitions -> UNION {0 .. head[p] : p \in Partitions}] :
              Anchored(request.anchor, from) /\ ServedFrom(from, listed)
      BY <3>a
    <3>2. /\ from \in [Partitions -> Nat] /\ from \in Positions /\ DOMAIN from = Partitions
          /\ \A p \in Partitions : from[p] <= head[p]
      BY <1>1, <2>2, <3>1, AnchoredFrom
    <3>3. QED
      BY <1>1, <2>2, <3>1, <3>2, ServedFromTidy
  <2>3. QED
    BY <2>1, <2>2
<1>4. QED
  BY <1>1, <1>3, SameCalm DEF TidyInv, world

\* A page that fails keeps the invariant.
LEMMA PageFailsTidy ==
    ASSUME TidyInv, PageFails
    PROVE  TidyInv' /\ Calm(view, view')
BY SameCalm DEF PageFails, TidyInv, world

\* A page is asked from the edge of a tidy view.
LEMMA LoadTidy ==
    ASSUME NEW v, NEW h \in Histories, NEW hd \in [Partitions -> Nat], Tidy(v, h, hd),
           NEW dir \in Direction, EdgeFor(v.window, dir) # NoPositions
    PROVE  LET x == Loading(v, dir) IN
           /\ Tidy(x, h, hd) /\ Keeps(v, x)
           /\ TidyAsk(Asked(dir, EdgeFor(v.window, dir), "none"), x.window, h, hd)
<1> DEFINE x == Loading(v, dir)
<1>1. Keeps(v, x)
  BY LoadingKeeps DEF Tidy
<1> HIDE DEF x
<1>2. Tidy(x, h, hd) /\ x.window = v.window
  BY <1>1, KeepsTidy DEF Keeps
<1>3. QED
  BY <1>1, <1>2, LoadAsk DEF x

\* A change that leaves window, buffer and pause alone is calm.
LEMMA KeepsCalm ==
    ASSUME NEW v, NEW x, Keeps(v, x)
    PROVE  Calm(v, x)
BY DEF Keeps, Calm

\* Asking on keeps the invariant.
LEMMA ContinueTidy ==
    ASSUME TidyInv, Continue
    PROVE  TidyInv' /\ Calm(view, view')
<1> DEFINE dir == view.offer
<1>1. /\ dir # NoDirection /\ EdgeFor(view.window, dir) # NoPositions
      /\ request' = Asked(dir, EdgeFor(view.window, dir), "none")
      /\ view' = Loading(view, dir) /\ UNCHANGED <<world, history>>
  BY DEF Continue, Load
<1>2. /\ head \in [Partitions -> Nat] /\ history \in Histories
      /\ Tidy(view, history, head) /\ dir \in Direction
  BY <1>1, TidyParts DEF Views
<1> HIDE DEF dir
<1>3. /\ Tidy(view', history, head) /\ Keeps(view, view')
      /\ TidyAsk(request', view'.window, history, head)
  BY <1>1, <1>2, LoadTidy
<1>4. QED
  BY <1>1, <1>3, KeepsCalm DEF TidyInv, world

\* A page that is found stale keeps the invariant.
LEMMA LandStaleTidy ==
    ASSUME TidyInv, LandStale
    PROVE  TidyInv' /\ Calm(view, view')
<1> DEFINE dir == request.dir
           done == (request.cont = NoPositions)
<1>1. PICK d : d = Distrusted(view, dir, done)
  OBVIOUS
<1>2. /\ request # NoRequest /\ UNCHANGED <<world, history>>
      /\ \/ /\ EdgeFor(view.window, dir) # NoPositions
            /\ request' = Asked(dir, EdgeFor(d.window, dir), "none")
            /\ view' = Loading(d, dir)
         \/ view' = [d EXCEPT !.offer = dir] /\ request' = NoRequest
         \/ view' = d /\ request' = NoRequest
  BY <1>1 DEF LandStale, Load, Distrusted
<1>3. /\ head \in [Partitions -> Nat] /\ history \in Histories
      /\ Tidy(view, history, head) /\ view \in Views
      /\ dir \in Direction /\ done \in BOOLEAN
  BY <1>2, TidyParts DEF TidyInv, TidyAsk, Requests
<1> HIDE DEF dir, done
<1>4. Keeps(view, d)
  BY <1>1, <1>3, DistrustedKeeps
<1>5. Tidy(d, history, head) /\ d.window = view.window /\ d \in Views
  BY <1>3, <1>4, KeepsTidy DEF Keeps
<1>6. CASE /\ EdgeFor(view.window, dir) # NoPositions
           /\ request' = Asked(dir, EdgeFor(d.window, dir), "none")
           /\ view' = Loading(d, dir)
  <2>1. /\ Tidy(view', history, head) /\ Keeps(d, view')
        /\ TidyAsk(request', view'.window, history, head)
    BY <1>3, <1>5, <1>6, LoadTidy
  <2>2. Calm(view, view')
    BY <1>4, <2>1, KeepsOn, KeepsCalm
  <2>3. QED
    BY <1>2, <2>1, <2>2 DEF TidyInv, world
<1>7. CASE view' = [d EXCEPT !.offer = dir] /\ request' = NoRequest
  <2>1. Keeps(d, view')
    BY <1>3, <1>5, <1>7, OfferKeeps
  <2>2. Calm(view, view') /\ Tidy(view', history, head)
    BY <1>4, <1>5, <2>1, KeepsOn, KeepsCalm, KeepsTidy
  <2>3. QED
    BY <1>2, <1>7, <2>2 DEF TidyInv, world
<1>8. CASE view' = d /\ request' = NoRequest
  BY <1>2, <1>4, <1>5, <1>8, KeepsCalm DEF TidyInv, world
<1>9. QED
  BY <1>2, <1>6, <1>7, <1>8

\* The page in flight, as the window takes it.
LEMMA PageFacts ==
    ASSUME TidyInv, request # NoRequest, request.step = "served"
    PROVE  /\ TidyAsk(request, view.window, history, head) /\ request \in Requests
           /\ TidyAnswer(request, history, head)
           /\ Page.dir = request.dir /\ Page.start = request.start /\ Page.rows = request.rows
           /\ Page.cont = request.cont /\ Page.attach = (request.anchor = "now")
           /\ Page.dir \in Direction /\ Page.attach \in BOOLEAN
           /\ Page.cont \in Positions \cup {NoPositions} /\ Page.rows \in SUBSET Rows
           /\ \A r \in Page.rows : r[2] < head[r[1]]
           /\ Page.cont # NoPositions => \A p \in DOMAIN Page.cont : Page.cont[p] <= head[p]
<1>1. /\ TidyAsk(request, view.window, history, head) /\ request \in Requests
      /\ TidyAnswer(request, history, head)
  BY DEF TidyInv, TidyAsk
<1>2. /\ Page.dir = request.dir /\ Page.start = request.start /\ Page.rows = request.rows
      /\ Page.cont = request.cont /\ Page.attach = (request.anchor = "now")
  BY DEF Page
<1>3. \A p \in Partitions : request.heads[p] \in Nat /\ head[p] \in Nat /\ request.heads[p] <= head[p]
  BY <1>1, TidyParts DEF TidyAnswer, NoMore
<1>4. /\ request.dir \in Direction /\ request.cont \in Positions \cup {NoPositions}
      /\ request.rows \in SUBSET Rows
  BY <1>1 DEF Requests
<1>5. \A r \in request.rows : r[2] < head[r[1]]
  BY <1>1, <1>3, <1>4, RowFacts DEF TidyAnswer
<1>6. request.cont # NoPositions => \A p \in DOMAIN request.cont : request.cont[p] <= head[p]
  BY <1>1, <1>3, <1>4, PositionsFacts DEF TidyAnswer
<1>7. QED
  BY <1>1, <1>2, <1>4, <1>5, <1>6

\* What a page that is not stale makes of the window.
Landed(o) ==
    LET k == Recorded(o.window.attached) IN
    /\ o \in EnforceCap(PageMerged(view.window, Page), Page.dir)
    /\ ~IsStale(view.window, Page.dir, Page.start)
    /\ o.window \in Windows /\ o.trimmedTop \in BOOLEAN /\ o.trimmedBottom \in BOOLEAN
    /\ o.window.attached => view.window.attached \/ Attaches(Page)
    /\ World(head, tail, tailFrom, k)
    /\ Tidy(Applied(Ended(view, Page), o), k, head)
    /\ Page.dir = Forward /\ Page.cont = NoPositions => o.window.attached

\* A page that is not stale is merged and capped; the window and the
\* history it leaves are as they should be.
LEMMA LandedTidy ==
    ASSUME TidyInv, request # NoRequest, request.step = "served",
           NEW o \in InsertPage(view.window, Page), ~o.stale
    PROVE  Landed(o)
<1> DEFINE w == view.window
           x == PageMerged(w, Page)
           k == Recorded(o.window.attached)
           e == Ended(view, Page)
           a == Applied(e, o)
           dir == request.dir
           cont == request.cont
<1>1. /\ head \in [Partitions -> Nat] /\ history \in Histories
      /\ Tidy(view, history, head) /\ view \in Views /\ w \in Windows
      /\ WithinHeads(w, head) /\ World(head, tail, tailFrom, history)
  BY TidyParts DEF TidyInv
<1>2. /\ TidyAsk(request, w, history, head) /\ request \in Requests
      /\ TidyAnswer(request, history, head)
      /\ Page.dir = dir /\ Page.start = request.start /\ Page.rows = request.rows
      /\ Page.cont = cont /\ Page.attach = (request.anchor = "now")
      /\ dir \in Direction
  BY PageFacts
<1>3. Back # Forward /\ (dir = Back \/ dir = Forward)
  BY <1>2 DEF Back, Forward, Direction
<1>4. ~IsStale(w, Page.dir, Page.start) /\ o \in EnforceCap(x, dir)
  BY <1>2, InsertPageIs
<1>5. /\ x \in Windows /\ WithinHeads(x, head)
      /\ x.attached = (w.attached \/ Attaches(Page))
      /\ x.topMatters = (w.topMatters \/
           (Page.dir = Back /\ Page.start = NoPositions /\ ~Page.attach))
      /\ DOMAIN w.top \subseteq DOMAIN x.top
      /\ Page.dir = Forward /\ Page.cont # NoPositions =>
           DOMAIN Page.cont \subseteq DOMAIN x.top
  BY <1>1, PageFacts, PageTidy
<1> HIDE DEF x
<1>6. /\ WithinHeads(o.window, head) /\ o.window \in Windows
      /\ Cardinality(o.window.rows) <= Cap
      /\ o.trimmedTop \in BOOLEAN /\ o.trimmedBottom \in BOOLEAN
      /\ o.window.topMatters = x.topMatters
      /\ o.trimmedTop => dir = Back /\ ~o.window.attached /\ DOMAIN o.window.top # {}
      /\ ~o.trimmedTop => o.window.attached = x.attached /\ o.window.top = x.top
  BY <1>1, <1>2, <1>4, <1>5, CapKeepsHeads
<1>7. Attaches(Page) <=> \/ dir = Back /\ request.start = NoPositions /\ request.anchor = "now"
                         \/ dir = Forward /\ cont = NoPositions
  BY <1>2 DEF Attaches
<1>8. ~o.window.topMatters
  <2>1. ~(Page.dir = Back /\ Page.start = NoPositions /\ ~Page.attach)
    BY <1>2, <1>3 DEF TidyAsk
  <2>2. ~w.topMatters
    BY <1>1 DEF Tidy
  <2>3. x.topMatters = FALSE
    BY <1>5, <2>1, <2>2
  <2>4. QED
    BY <1>6, <2>3
<1>9. /\ request.start = NoPositions => history.origin = NoHeads
      /\ request.start = NoPositions /\ dir = Back => request.anchor = "now"
      /\ request.start # NoPositions =>
           history.origin # NoHeads /\ (w.attached \/ DOMAIN w.top # {})
  BY <1>2, <1>3 DEF TidyAsk
<1>10. cont # NoPositions => DOMAIN cont # {}
  BY <1>2 DEF TidyAnswer
<1> HIDE DEF w, dir, cont
<1>11. x.attached \/ DOMAIN x.top # {}
  <2>1. CASE request.start = NoPositions /\ dir = Back
    BY <1>5, <1>7, <1>9, <2>1
  <2>2. CASE request.start = NoPositions /\ dir = Forward
    BY <1>2, <1>5, <1>7, <1>10, <2>2
  <2>3. CASE request.start # NoPositions
    BY <1>5, <1>9, <2>3
  <2>4. QED
    BY <1>3, <2>1, <2>2, <2>3
<1>12. TopKnown(o.window)
  BY <1>6, <1>11 DEF TopKnown
<1>13. dir = Forward /\ cont = NoPositions => o.window.attached
  BY <1>3, <1>5, <1>6, <1>7
<1>14. /\ k.origin = (IF request.start = NoPositions THEN request.from ELSE history.origin)
       /\ k.known = (IF o.window.attached /\ history.known = NoHeads THEN request.heads
                     ELSE history.known)
       /\ k.dropped = history.dropped
  BY <1>1 DEF Recorded, Histories
<1>15. /\ request.heads \in [Partitions -> Nat] /\ NoMore(request.heads, head)
       /\ request.start = NoPositions => request.from \in [Partitions -> Nat] /\ NoMore(request.from, request.heads)
  BY <1>2 DEF TidyAnswer
<1>16. request.heads # NoHeads /\ (request.start = NoPositions => request.from # NoHeads)
  BY <1>15, AbsenceAssumption
<1>17. k \in Histories
  <2>1. k = [history EXCEPT !.origin = k.origin, !.known = k.known]
    BY <1>1, <1>14 DEF Recorded, Histories
  <2>2. /\ k.origin \in [Partitions -> Nat] \cup {NoHeads}
        /\ k.known \in [Partitions -> Nat] \cup {NoHeads}
    BY <1>1, <1>14, <1>15 DEF Histories
  <2> HIDE DEF k
  <2>3. QED
    BY <1>1, <2>1, <2>2 DEF Histories
<1> HIDE DEF k
<1>18. k.origin # NoHeads /\ (o.window.attached => k.known # NoHeads)
  BY <1>9, <1>14, <1>16
<1>19. World(head, tail, tailFrom, k)
  <2>1. request.start = NoPositions => NoMore(request.from, head)
    BY <1>1, <1>15 DEF NoMore
  <2>2. NoMore(k.origin, head)
    BY <1>1, <1>9, <1>14, <2>1 DEF World
  <2>3. k.known # NoHeads => NoMore(k.known, head)
    BY <1>1, <1>14, <1>15 DEF World
  <2>4. QED
    BY <1>1, <1>17, <1>18, <2>2, <2>3 DEF World
<1>20. /\ e \in Views /\ e.attached = view.attached
       /\ e.buffer = view.buffer /\ e.trimmed = view.trimmed
       /\ e.exhausted[Forward] = IF dir = Forward THEN cont = NoPositions
                                 ELSE view.exhausted[Forward]
  BY <1>1, <1>2, EndedFacts DEF dir, cont
<1> HIDE DEF e
<1>21. /\ a \in Views /\ a.window = o.window
       /\ a.attached = (e.attached /\ ~o.trimmedTop)
       /\ a.buffer = e.buffer /\ a.exhausted = e.exhausted
       /\ a.trimmed[Forward] = (e.trimmed[Forward] \/ o.trimmedTop)
  BY <1>6, <1>20, AppliedIs
<1> HIDE DEF a
<1>22. a.attached => a.window.attached
  <2>1. view.attached => w.attached
    BY <1>1 DEF Tidy, w
  <2>2. QED
    BY <1>5, <1>6, <1>20, <1>21, <2>1
<1>23. MayGoOn(a)
  <2>1. CASE dir = Forward
    BY <1>13, <1>20, <1>21, <2>1 DEF MayGoOn
  <2>2. CASE dir = Back
    <3>1. w.attached \/ ~view.exhausted[Forward] \/ view.trimmed[Forward]
      BY <1>1 DEF Tidy, MayGoOn, w
    <3>2. QED
      BY <1>3, <1>5, <1>6, <1>20, <1>21, <2>2, <3>1 DEF MayGoOn
  <2>3. QED
    BY <1>3, <2>1, <2>2
<1>24. Tidy(a, k, head)
  <2>1. /\ Len(a.buffer) <= BufferCap
        /\ \A r \in ToSet(a.buffer) : r[2] < head[r[1]]
    BY <1>1, <1>20, <1>21 DEF Tidy
  <2>2. QED
    BY <1>6, <1>8, <1>12, <1>18, <1>21, <1>22, <1>23, <2>1 DEF Tidy
<1>25. o.window.attached => w.attached \/ Attaches(Page)
  BY <1>5, <1>6
<1>26. QED
  BY <1>2, <1>4, <1>6, <1>13, <1>19, <1>24, <1>25 DEF Landed, a, e, k, x, w, dir, cont

\* A page that lands keeps the invariant.
LEMMA LandTidy ==
    ASSUME TidyInv, Land
    PROVE  TidyInv' /\ Calm(view, view')
<1>1. PICK o \in InsertPage(view.window, Page) :
        /\ ~o.stale
        /\ \E v \in Committed(view, Page, o) :
             \E offer \in Offers(v) : view' = [v EXCEPT !.offer = offer]
        /\ history' = Recorded(o.window.attached)
  BY DEF Land
<1>2. request # NoRequest /\ request.step = "served" /\ request' = NoRequest /\ UNCHANGED world
  BY DEF Land
<1>3. PICK v \in Committed(view, Page, o) :
        \E offer \in Offers(v) : view' = [v EXCEPT !.offer = offer]
  BY <1>1
<1>4. PICK offer \in Offers(v) : view' = [v EXCEPT !.offer = offer]
  BY <1>3
<1>5. Landed(o)
  BY <1>1, <1>2, LandedTidy
<1>6. Page.dir = request.dir /\ request.dir \in Direction
  BY <1>2, PageFacts
<1>7. offer \in Direction \cup {NoDirection}
  BY <1>6 DEF Offers
<1>8. head \in [Partitions -> Nat] /\ view \in Views /\ history' \in Histories
  BY <1>1, <1>5, TidyParts DEF Landed, World
<1>9. /\ Tidy(v, history', head)
      /\ view.pause = "explicit" => v.pause = "explicit"
      /\ v.buffer = view.buffer \/ ~Inspecting(v)
  BY <1>1, <1>5, <1>6, <1>8, CommittedRemains DEF Landed
<1>10. Keeps(v, view') /\ Tidy(view', history', head)
  BY <1>4, <1>7, <1>9, OfferKeeps, KeepsTidy DEF Tidy
<1>11. Calm(view, view')
  BY <1>9, <1>10 DEF Calm, Keeps, Inspecting
<1>12. QED
  BY <1>1, <1>2, <1>5, <1>10, <1>11 DEF TidyInv, Landed, world

\* What a click, a scroll or a closed row makes of a view whose window stays.
LEMMA DecidedHolds ==
    ASSUME TidyInv, NEW v, Keeps(view, v),
           NEW d, d.pause \in Pauses, d.flush \in BOOLEAN, d.flush => v.attached,
           NEW x \in Decided(v, d)
    PROVE  /\ Tidy(x, history, head)
           /\ request # NoRequest => TidyAsk(request, x.window, history, head)
           /\ ~d.flush => x.buffer = view.buffer
           /\ x.pause = d.pause
           /\ ~Inspecting(v) => ~Inspecting(x)
<1>1. Tidy(v, history, head) /\ history \in Histories /\ head \in [Partitions -> Nat]
  BY TidyParts, KeepsTidy
<1>2. /\ Settles(v, x, history, head) /\ x.pause = d.pause
      /\ ~d.flush => x.buffer = v.buffer
      /\ ~Inspecting(v) => ~Inspecting(x)
  BY <1>1, DecidedSettles
<1>3. /\ Tidy(x, history, head)
      /\ view.window.attached => x.window.attached
      /\ DOMAIN view.window.top \subseteq DOMAIN x.window.top
  BY <1>2 DEF Settles, Stays, Keeps
<1>4. NoMore(head, head)
  BY <1>1 DEF NoMore
<1>5. request # NoRequest => TidyAsk(request, x.window, history, head)
  BY <1>1, <1>3, <1>4, AskHolds DEF TidyInv
<1>6. QED
  BY <1>2, <1>3, <1>5 DEF Keeps

\* Expanding a row keeps the invariant.
LEMMA ExpandTidy ==
    ASSUME TidyInv, NEW row \in Rows, Expand(row)
    PROVE  TidyInv' /\ Calm(view, view')
<1>1. /\ view.expanded = NoRow /\ view' = [view EXCEPT !.expanded = row]
      /\ UNCHANGED <<world, request, history>>
  BY DEF Expand
<1>2. view \in Views /\ Tidy(view, history, head)
  BY TidyParts
<1>3. /\ view' \in Views /\ view'.window = view.window /\ view'.attached = view.attached
      /\ view'.buffer = view.buffer /\ view'.pause = view.pause
      /\ view'.exhausted = view.exhausted /\ view'.trimmed = view.trimmed
  BY <1>1, <1>2 DEF Views
<1>4. Tidy(view', history, head)
  BY <1>2, <1>3 DEF Tidy, TopKnown, MayGoOn
<1>5. Calm(view, view')
  BY <1>1, <1>3 DEF Calm, Inspecting
<1>6. QED
  BY <1>1, <1>3, <1>4, <1>5 DEF TidyInv, world

\* Collapsing the row keeps the invariant, merging the buffer as it may.
LEMMA CollapseTidy ==
    ASSUME TidyInv, Collapse
    PROVE  TidyInv' /\ Calm(view, view')
<1> DEFINE closed == [view EXCEPT !.expanded = NoRow]
           d == NextPause(closed, "lastInspectionClosed")
<1>1. /\ view' \in IF view.pinned THEN Decided(closed, d) ELSE {closed}
      /\ UNCHANGED <<world, request, history>>
  BY DEF Collapse
<1>2. view \in Views /\ Tidy(view, history, head)
  BY TidyParts
<1>3. /\ closed \in Views /\ closed.window = view.window /\ closed.attached = view.attached
      /\ closed.buffer = view.buffer /\ closed.pause = view.pause
      /\ closed.exhausted = view.exhausted /\ closed.trimmed = view.trimmed
      /\ closed.expanded = NoRow
  BY <1>2 DEF Views
<1> HIDE DEF closed
<1>4. Tidy(closed, history, head)
  BY <1>2, <1>3 DEF Tidy, TopKnown, MayGoOn
<1>5. /\ d.pause \in Pauses /\ d.flush \in BOOLEAN /\ (d.flush => closed.attached)
      /\ closed.pause = "explicit" => d.pause = "explicit"
  BY <1>3, NextPauseFacts
<1> HIDE DEF d
<1>6. CASE view' = closed
  BY <1>1, <1>3, <1>4, <1>6 DEF TidyInv, world, Calm, Inspecting
<1>7. CASE view' \in Decided(closed, d)
  <2>1. /\ Settles(closed, view', history, head) /\ view'.pause = d.pause
        /\ ~Inspecting(closed) => ~Inspecting(view')
    BY <1>4, <1>5, <1>7, TidyParts, DecidedSettles
  <2>2. /\ Tidy(view', history, head) /\ Calm(view, view')
        /\ view.window.attached => view'.window.attached
        /\ DOMAIN view.window.top \subseteq DOMAIN view'.window.top
    BY <1>3, <1>5, <2>1 DEF Settles, Stays, Calm, Inspecting
  <2>3. NoMore(head, head)
    BY TidyParts DEF NoMore
  <2>4. request # NoRequest => TidyAsk(request, view'.window, history, head)
    BY <2>2, <2>3, TidyParts, AskHolds DEF TidyInv
  <2>5. QED
    BY <1>1, <2>2, <2>4 DEF TidyInv, world
<1>8. QED
  BY <1>1, <1>6, <1>7

\* A jump keeps the invariant: it leaves an empty view, one page in flight,
\* and an explicit pause as it was.
LEMMA RestartHolds ==
    ASSUME TidyInv, NEW v \in Views, NEW dir, NEW anchor, Restart(v, dir, anchor),
           \/ dir = Back /\ anchor = "now"
           \/ dir = Forward /\ anchor \in {"beginning", "elsewhere"},
           view.pause = "explicit" => v.pause = "explicit"
    PROVE  TidyInv' /\ Calm(view, view')
<1>1. /\ view' = Loading(Cleared(v), dir)
      /\ request' = Asked(dir, NoPositions, anchor)
      /\ history' = NoHistory /\ UNCHANGED world
  BY DEF Restart
<1>2. dir \in Direction /\ World(head, tail, tailFrom, history)
  BY DEF Direction, TidyInv
<1>3. /\ Tidy(view', NoHistory, head)
      /\ view'.window = EmptyWindow /\ view'.buffer = <<>> /\ view'.expanded = NoRow
      /\ view'.pause = v.pause
  BY <1>1, <1>2, RestartTidy
<1>4. /\ TidyAsk(request', view'.window, NoHistory, head)
      /\ NoHistory \in Histories
      /\ NoHistory.origin = NoHeads /\ NoHistory.known = NoHeads
  BY <1>1, RestartAsk
<1>5. World(head, tail, tailFrom, NoHistory)
  BY <1>2, <1>4 DEF World
<1>6. QED
  BY <1>1, <1>3, <1>4, <1>5 DEF TidyInv, world, Calm, Inspecting

\* The pause after a jump is a pause, and explicit if it was.
LEMMA PauseFacts ==
    ASSUME NEW v \in Views, NEW intent \in Pauses
    PROVE  /\ PauseAfterJump(v, intent) \in Pauses
           /\ v.pause = "explicit" => PauseAfterJump(v, intent) = "explicit"
BY DEF PauseAfterJump, Views, Pauses

\* Each of the jumps, and a new filter, keeps the invariant.
LEMMA JumpsTidy ==
    ASSUME TidyInv,
           JumpToNow(view) \/ (\E anchor \in {"beginning", "elsewhere"} : JumpBack(anchor)) \/ Refilter
    PROVE  TidyInv' /\ Calm(view, view')
<1>1. view \in Views /\ "none" \in Pauses /\ "auto" \in Pauses
  BY TidyParts DEF Pauses
<1>2. CASE JumpToNow(view)
  <2>1. PICK v : v = [view EXCEPT !.pause = PauseAfterJump(view, "none"), !.fromBeginning = FALSE]
    OBVIOUS
  <2>2. v \in Views /\ v.pause = PauseAfterJump(view, "none")
    BY <1>1, <2>1, PauseFacts DEF Views
  <2>3. Restart(v, Back, "now")
    BY <1>2, <2>1 DEF JumpToNow
  <2>4. QED
    BY <1>1, <2>2, <2>3, PauseFacts, RestartHolds
<1>3. ASSUME NEW anchor \in {"beginning", "elsewhere"}, JumpBack(anchor)
      PROVE  TidyInv' /\ Calm(view, view')
  <2>1. PICK v : v = [view EXCEPT !.pause = PauseAfterJump(view, "auto"),
                                  !.fromBeginning = anchor = "beginning"]
    OBVIOUS
  <2>2. v \in Views /\ v.pause = PauseAfterJump(view, "auto")
    BY <1>1, <2>1, PauseFacts DEF Views
  <2>3. Restart(v, Forward, anchor)
    BY <1>3, <2>1 DEF JumpBack
  <2>4. QED
    BY <1>1, <2>2, <2>3, PauseFacts, RestartHolds
<1>4. CASE Refilter
  <2>1. PICK v : v = view
    OBVIOUS
  <2>2. Restart(v, Forward, "beginning") \/ Restart(v, Back, "now")
    BY <1>4, <2>1 DEF Refilter
  <2>3. QED
    BY <1>1, <2>1, <2>2, RestartHolds
<1>5. QED
  BY <1>2, <1>3, <1>4

\* A scroll decides, and then it may ask for a page.
ScrollEvent(pinned) == IF pinned THEN "scrollPinnedTop" ELSE "scrollAwayFromTop"

\* What a scroll makes of the view that has decided: the same, or one that
\* asks for a page.
ScrollsTo(v, x) ==
    \/ x = v /\ UNCHANGED request
    \/ \E y : \E dir \in Direction :
         /\ Keeps(v, y) /\ EdgeFor(v.window, dir) # NoPositions
         /\ x = Loading(y, dir)
         /\ request' = Asked(dir, EdgeFor(y.window, dir), "none")
         /\ request = NoRequest

\* A scroll notes whether the reader is at the top, decides, and then may
\* ask for one page.
LEMMA ScrollIs ==
    ASSUME NEW pinned \in BOOLEAN, NEW nearBottom \in BOOLEAN, Scroll(pinned, nearBottom),
           \A v \in Decided([view EXCEPT !.pinned = pinned], NextPause(view, ScrollEvent(pinned))) :
               v \in Views
    PROVE  /\ UNCHANGED <<world, history>>
           /\ \E v \in Decided([view EXCEPT !.pinned = pinned],
                               NextPause(view, ScrollEvent(pinned))) : ScrollsTo(v, view')
<1> DEFINE all == Decided([view EXCEPT !.pinned = pinned], NextPause(view, ScrollEvent(pinned)))
<1>1. PICK v \in all :
        IF request # NoRequest
        THEN view' = v /\ UNCHANGED request
        ELSE IF nearBottom /\ MayLoad(v, Back)
        THEN Load(IF pinned /\ MayLoad(v, Forward) THEN Loading(v, Forward) ELSE v, Back)
        ELSE IF pinned /\ MayLoad(v, Forward)
        THEN Load(v, Forward)
        ELSE view' = v /\ UNCHANGED request
  BY DEF Scroll, ScrollEvent
<1>2. v \in Views /\ Back \in Direction /\ Forward \in Direction
  BY DEF Direction
<1>3. Keeps(v, v) /\ Keeps(v, Loading(v, Forward))
  BY <1>2, LoadingKeeps DEF Keeps
<1>4. ScrollsTo(v, view')
  <2>1. CASE view' = v /\ UNCHANGED request
    BY <2>1 DEF ScrollsTo
  <2>2. CASE request = NoRequest /\ pinned /\ MayLoad(v, Forward) /\ Load(v, Forward)
    BY <1>2, <1>3, <2>2 DEF ScrollsTo, Load, MayLoad
  <2>3. CASE /\ request = NoRequest /\ MayLoad(v, Back)
             /\ Load(IF pinned /\ MayLoad(v, Forward) THEN Loading(v, Forward) ELSE v, Back)
    <3>1. PICK y : y = IF pinned /\ MayLoad(v, Forward) THEN Loading(v, Forward) ELSE v
      OBVIOUS
    <3>2. Keeps(v, y)
      BY <1>3, <3>1
    <3>3. Load(y, Back)
      BY <2>3, <3>1
    <3>4. QED
      BY <1>2, <2>3, <3>2, <3>3 DEF ScrollsTo, Load, MayLoad
  <2>4. QED
    BY <1>1, <2>1, <2>2, <2>3
<1>5. QED
  BY <1>1, <1>4 DEF Scroll

\* What a scroll decides: to flush only a view that is attached and
\* inspects nothing, and never to lift an explicit pause.
LEMMA ScrollFacts ==
    ASSUME TidyInv, NEW pinned \in BOOLEAN
    PROVE  LET v == [view EXCEPT !.pinned = pinned]
               d == NextPause(view, ScrollEvent(pinned))
           IN  /\ Keeps(view, v)
               /\ d.pause \in Pauses /\ d.flush \in BOOLEAN
               /\ d.flush => v.attached /\ ~Inspecting(v)
               /\ view.pause = "explicit" => d.pause = "explicit"
<1> DEFINE v == [view EXCEPT !.pinned = pinned]
           d == NextPause(view, ScrollEvent(pinned))
<1>1. view \in Views
  BY TidyParts
<1>2. Keeps(view, v)
  BY <1>1, PinnedKeeps
<1>3. /\ d.pause \in Pauses /\ d.flush \in BOOLEAN
      /\ d.flush => view.attached
      /\ d.flush /\ pinned => ~Inspecting(view)
      /\ view.pause = "explicit" => d.pause = "explicit"
  BY <1>1, NextPauseFacts DEF ScrollEvent
<1>4. d.flush => pinned
  BY DEF NextPause, Decide, ScrollEvent
<1> HIDE DEF d, v
<1>5. QED
  BY <1>2, <1>3, <1>4 DEF Keeps, Inspecting, v, d

\* A scroll keeps the invariant.
LEMMA ScrollTidy ==
    ASSUME TidyInv, NEW pinned \in BOOLEAN, NEW nearBottom \in BOOLEAN, Scroll(pinned, nearBottom)
    PROVE  TidyInv' /\ Calm(view, view')
<1>1. PICK u, d : /\ u = [view EXCEPT !.pinned = pinned]
                  /\ d = NextPause(view, ScrollEvent(pinned))
  OBVIOUS
<1>2. /\ Keeps(view, u) /\ d.pause \in Pauses /\ d.flush \in BOOLEAN
      /\ d.flush => u.attached /\ ~Inspecting(u)
      /\ view.pause = "explicit" => d.pause = "explicit"
  BY <1>1, ScrollFacts
<1>3. ASSUME NEW v \in Decided(u, d)
      PROVE  /\ Tidy(v, history, head) /\ v \in Views
             /\ request # NoRequest => TidyAsk(request, v.window, history, head)
             /\ Calm(view, v)
  <2>1. /\ Tidy(v, history, head)
        /\ request # NoRequest => TidyAsk(request, v.window, history, head)
        /\ ~d.flush => v.buffer = view.buffer
        /\ v.pause = d.pause
        /\ ~Inspecting(u) => ~Inspecting(v)
    BY <1>2, DecidedHolds
  <2>2. QED
    BY <1>2, <2>1 DEF Calm, Tidy
<1>4. UNCHANGED <<world, history>> /\ \E v \in Decided(u, d) : ScrollsTo(v, view')
  BY <1>1, <1>3, ScrollIs
<1>5. PICK v \in Decided(u, d) : ScrollsTo(v, view')
  BY <1>4
<1>6. /\ Tidy(v, history, head) /\ v \in Views /\ Calm(view, v)
      /\ request # NoRequest => TidyAsk(request, v.window, history, head)
  BY <1>3
<1>7. CASE view' = v /\ UNCHANGED request
  BY <1>4, <1>6, <1>7 DEF TidyInv, world
<1>8. CASE \E y : \E dir \in Direction :
             /\ Keeps(v, y) /\ EdgeFor(v.window, dir) # NoPositions
             /\ view' = Loading(y, dir)
             /\ request' = Asked(dir, EdgeFor(y.window, dir), "none")
             /\ request = NoRequest
  <2>a. PICK y : \E dir \in Direction :
             /\ Keeps(v, y) /\ EdgeFor(v.window, dir) # NoPositions
             /\ view' = Loading(y, dir)
             /\ request' = Asked(dir, EdgeFor(y.window, dir), "none")
    BY <1>8
  <2>1. PICK dir \in Direction :
             /\ Keeps(v, y) /\ EdgeFor(v.window, dir) # NoPositions
             /\ view' = Loading(y, dir)
             /\ request' = Asked(dir, EdgeFor(y.window, dir), "none")
    BY <2>a
  <2>2. Tidy(y, history, head) /\ EdgeFor(y.window, dir) # NoPositions
    BY <1>6, <2>1, KeepsTidy DEF Keeps
  <2>3. /\ Tidy(view', history, head) /\ Keeps(y, view')
        /\ TidyAsk(request', view'.window, history, head)
    BY <2>1, <2>2, TidyParts, LoadTidy
  <2>4. Keeps(v, view')
    BY <2>1, <2>3, KeepsOn
  <2>5. Calm(view, view')
    BY <1>6, <2>4 DEF Calm, Keeps, Inspecting
  <2>6. QED
    BY <1>4, <2>3, <2>5 DEF TidyInv, world
<1>9. QED
  BY <1>5, <1>7, <1>8 DEF ScrollsTo

\* A click keeps the invariant; a click on the pill leaves an explicit
\* pause.
LEMMA ClickTidy ==
    ASSUME TidyInv, NEW event \in {"pillClick", "toggleClick"}, Click(event)
    PROVE  /\ TidyInv'
           /\ view.pause = "explicit" /\ event = "pillClick" => view'.pause = "explicit"
<1>1. PICK d : d = NextPause(view, event)
  OBVIOUS
<1>2. view \in Views
  BY TidyParts
<1>3. /\ d.pause \in Pauses /\ d.flush \in BOOLEAN /\ (d.flush => view.attached)
      /\ view.pause = "explicit" /\ event = "pillClick" => d.pause = "explicit"
  BY <1>1, <1>2, NextPauseFacts
<1>4. CASE d.jump
  <2>1. JumpToNow(view)
    BY <1>1, <1>4 DEF Click
  <2>2. QED
    BY <2>1, JumpsTidy DEF Calm
<1>5. CASE ~d.jump
  <2>1. view' \in Decided(view, d) /\ UNCHANGED <<world, request, history>>
    BY <1>1, <1>5 DEF Click
  <2>2. Keeps(view, view)
    BY <1>2 DEF Keeps
  <2>3. /\ Tidy(view', history, head) /\ view'.pause = d.pause
        /\ request # NoRequest => TidyAsk(request, view'.window, history, head)
    BY <1>3, <2>1, <2>2, DecidedHolds
  <2>4. QED
    BY <1>3, <2>1, <2>3 DEF TidyInv, world
<1>6. QED
  BY <1>4, <1>5

\* One step of the view: every event but a click is calm.
LEMMA NextTidy ==
    ASSUME TidyInv, [Next]_vars
    PROVE  /\ TidyInv'
           /\ Calm(view, view') \/ Click("toggleClick")
                \/ (Click("pillClick") /\ (view.pause = "explicit" => view'.pause = "explicit"))
<1>1. CASE UNCHANGED vars
  BY <1>1, SameCalm DEF vars, TidyInv
<1>2. CASE \E p \in Partitions : Produce(p) \/ StartTail(p) \/ Deliver(p)
  BY <1>2, ProduceTidy, StartTailTidy, DeliverTidy
<1>3. CASE Serve \/ PageFails \/ Land \/ LandStale \/ Continue
  BY <1>3, ServeTidy, PageFailsTidy, LandTidy, LandStaleTidy, ContinueTidy
<1>4. CASE \E pinned \in BOOLEAN, nearBottom \in BOOLEAN : Scroll(pinned, nearBottom)
  BY <1>4, ScrollTidy
<1>5. CASE (\E row \in Rows : Expand(row)) \/ Collapse
  BY <1>5, ExpandTidy, CollapseTidy
<1>6. CASE \E event \in {"pillClick", "toggleClick"} : Click(event)
  <2>1. PICK event \in {"pillClick", "toggleClick"} : Click(event)
    BY <1>6
  <2>2. QED
    BY <2>1, ClickTidy
<1>7. CASE JumpToNow(view) \/ (\E anchor \in {"beginning", "elsewhere"} : JumpBack(anchor)) \/ Refilter
  BY <1>7, JumpsTidy
<1>8. QED
  BY <1>1, <1>2, <1>3, <1>4, <1>5, <1>6, <1>7 DEF Next

\* The first invariant holds in every state of every behaviour, whatever
\* the backend answers.
THEOREM TidyAlways == Spec => []TidyInv
<1>1. TidyInv /\ [Next]_vars => TidyInv'
  BY NextTidy
<1>2. QED
  BY <1>1, InitTidy, PTL DEF Spec

\* Every variable of the view, of its window and of the page in flight has
\* its type in every reachable state, and the window and the buffer never
\* exceed their caps (timelineStore.ts).
THEOREM ViewTypeOK == Spec => []TypeOK
<1>1. TidyInv => TypeOK
  <2> SUFFICES ASSUME TidyInv PROVE TypeOK
    OBVIOUS
  <2>1. /\ head \in [Partitions -> Nat] /\ tail \in Tails
        /\ Tidy(view, history, head) /\ view \in Views /\ view.window \in Windows
        /\ view.buffer \in Seq(Rows) /\ ToSet(view.buffer) \subseteq Rows
        /\ WithinHeads(view.window, head) /\ World(head, tail, tailFrom, history)
    BY TidyParts DEF TidyInv
  <2>2. \A p \in Partitions : head[p] \in FirstHead[p] .. LastHead[p]
    BY <2>1, ViewAssumption DEF World, NoMore
  <2>3. \A p \in Partitions : tail[p] = NoOffset \/ tail[p] \in 0 .. head[p]
    BY <2>1 DEF World, Tails
  <2>4. WindowTypeOK(view.window, Rows, head)
    <3>1. /\ \A p \in DOMAIN view.window.bottom : p \in Partitions /\ view.window.bottom[p] \in Nat
          /\ \A p \in DOMAIN view.window.top : p \in Partitions /\ view.window.top[p] \in Nat
      BY <2>1, PositionsFacts DEF Windows
    <3>2. /\ view.window.rows \subseteq Rows /\ Cardinality(view.window.rows) <= Cap
          /\ view.window.attached \in BOOLEAN /\ view.window.topMatters \in BOOLEAN
      BY <2>1 DEF Windows, Tidy
    <3>3. /\ \A p \in DOMAIN view.window.bottom : view.window.bottom[p] \in 0 .. head[p]
          /\ \A p \in DOMAIN view.window.top : view.window.top[p] \in 0 .. head[p]
      BY <2>1, <3>1 DEF WithinHeads
    <3>4. QED
      BY <3>2, <3>3 DEF WindowTypeOK
  <2>5. QED
    BY <2>1, <2>2, <2>3, <2>4 DEF TypeOK, Tidy, Views, Pauses
<1>2. QED
  BY <1>1, TidyAlways, PTL

\* insertLive throws when the store is not attached (timelineStore.ts): the
\* view never takes itself for attached when the store is not, in any
\* reachable state, so no live row and no flush reaches the exception.
THEOREM ViewNeverThrows == Spec => []NeverThrows
<1>1. TidyInv => NeverThrows
  BY DEF TidyInv, Tidy, NeverThrows
<1>2. QED
  BY <1>1, TidyAlways, PTL

\* A reader whose window is detached, with nothing in flight, always has an
\* edge to ask from or a page to go on with (timelineStore.ts).
THEOREM ViewReaderNotTrapped == Spec => []ReaderNotTrapped
<1>1. TidyInv => ReaderNotTrapped
  <2> SUFFICES ASSUME TidyInv, ~view.window.attached, view.window.rows # {}
               PROVE  MayLoad(view, Forward)
    BY DEF ReaderNotTrapped
  <2>1. /\ TopKnown(view.window) /\ MayGoOn(view) /\ ~view.window.topMatters
        /\ view.window \in Windows
    BY TidyParts DEF Tidy
  <2>2. DOMAIN view.window.top # {} /\ view.window.top # NoPositions
    BY <2>1, AbsenceAssumption DEF TopKnown, Windows, Positions
  <2>3. Forward # Back
    BY DEF Forward, Back
  <2>4. EdgeFor(view.window, Forward) = view.window.top
    BY <2>1, <2>2, <2>3 DEF EdgeFor, TopEdge
  <2>5. QED
    BY <2>1, <2>2, <2>4 DEF MayLoad, MayGoOn
<1>2. QED
  BY <1>1, TidyAlways, PTL

\* No step but a click of the reader lifts a pause the reader asked for
\* (pauseMachine.ts).
THEOREM ViewExplicitPauseStands == Spec => ExplicitPauseStands
<1>1. TidyInv /\ [Next]_vars =>
        [view.pause = "explicit" /\ view'.pause # "explicit" => Click("toggleClick")]_vars
  BY NextTidy DEF Calm
<1>2. QED
  BY <1>1, TidyAlways, PTL DEF Spec, ExplicitPauseStands

\* No step but a click merges the buffer while a row is being inspected
\* (pauseMachine.ts).
THEOREM ViewInspectionHoldsStill == Spec => InspectionHoldsStill
<1>1. TidyInv /\ [Next]_vars =>
        [Inspecting(view) /\ Inspecting(view') /\ view.buffer # <<>> /\ view'.buffer = <<>>
           => Click("pillClick") \/ Click("toggleClick")]_vars
  BY NextTidy DEF Calm
<1>2. QED
  BY <1>1, TidyAlways, PTL DEF Spec, InspectionHoldsStill

-----------------------------------------------------------------------------
(* The invariant that holds while the brokers list the offsets of every      *)
(* partition: the window is sound, and so is the page in flight.             *)

\* What the backend answered is all there is between where the page began
\* and where it ended, and a window that is still detached loses nothing
\* that came since.
SoundAnswer(q, w, bf, h, tl, tf) ==
    /\ ReadPage(q.dir, q.from, q.cont, q.rows, q.heads)
    /\ q.start # NoPositions => q.from = q.start
    /\ q.start = NoPositions => DOMAIN q.from = Partitions
    /\ q.anchor = "now" => q.from = q.heads
    /\ ~w.attached => LateKept(bf, h, tl, tf, q.heads)

\* Where a page was asked from the window has not gone back to, unless the page
\* will be found stale.
SoundAsk(q, w, bf, h, tl, tf) ==
    /\ q.start # NoPositions /\ q.dir = Back =>
         \A p \in DOMAIN q.start : p \in DOMAIN w.bottom /\ q.start[p] <= w.bottom[p]
    /\ q.start # NoPositions /\ q.dir = Forward => ~w.attached /\ q.start = w.top
    /\ q.step = "served" => SoundAnswer(q, w, bf, h, tl, tf)

\* The second invariant, of a view and a page in flight.
SoundAt(v, q, h, tl, tf) ==
    /\ Sound(v.window, ToSet(v.buffer), h, tl, tf)
    /\ q # NoRequest => SoundAsk(q, v.window, ToSet(v.buffer), h, tl, tf)

\* The second invariant.  A stream that is nowhere began nowhere.
SoundInv ==
    /\ SoundAt(view, request, history, tail, tailFrom)
    /\ \A p \in Partitions : tail[p] = NoOffset <=> tailFrom[p] = NoOffset

\* A handler that settles keeps the second invariant's account of window
\* and page.
LEMMA SettledSound ==
    ASSUME NEW h, NEW hd, NEW v, NEW x, Tidy(v, h, hd), Settles(v, x, h, hd),
           NEW q, q # NoRequest => q \in Requests,
           NEW tl \in Tails, NEW tf \in Tails, SoundAt(v, q, h, tl, tf)
    PROVE  SoundAt(x, q, h, tl, tf)
<1>1. /\ v.window \in Windows /\ x.window \in Windows
      /\ v.attached => v.window.attached
  BY DEF Settles, Tidy, Views
<1>2. /\ x.window.attached = v.window.attached
      /\ ~v.window.attached => x.window = v.window /\ x.buffer = v.buffer
  BY <1>1 DEF Settles, Stays
<1>3. Sound(x.window, ToSet(x.buffer), h, tl, tf) /\ BottomsRise(v.window, x.window)
  BY DEF Settles, SoundAt
<1>4. ASSUME q # NoRequest
      PROVE  SoundAsk(q, x.window, ToSet(x.buffer), h, tl, tf)
  <2>1. SoundAsk(q, v.window, ToSet(v.buffer), h, tl, tf) /\ q \in Requests
    BY <1>4 DEF SoundAt
  <2>2. CASE ~v.window.attached
    BY <1>2, <2>1, <2>2
  <2>3. CASE v.window.attached
    <3>1. q.start # NoPositions /\ q.dir = Back =>
            \A p \in DOMAIN q.start : p \in DOMAIN x.window.bottom /\ q.start[p] <= x.window.bottom[p]
      <4> SUFFICES ASSUME q.start # NoPositions, q.dir = Back, NEW p \in DOMAIN q.start
                   PROVE  p \in DOMAIN x.window.bottom /\ q.start[p] <= x.window.bottom[p]
        OBVIOUS
      <4>1. p \in DOMAIN v.window.bottom /\ q.start[p] <= v.window.bottom[p]
        BY <2>1 DEF SoundAsk
      <4>2. p \in DOMAIN x.window.bottom /\ v.window.bottom[p] <= x.window.bottom[p]
        BY <1>3, <4>1 DEF BottomsRise
      <4>3. q.start \in Positions
        BY <2>1 DEF Requests
      <4>4. q.start[p] \in Nat /\ v.window.bottom[p] \in Nat /\ x.window.bottom[p] \in Nat
        BY <1>1, <4>1, <4>2, <4>3, PositionsFacts DEF Windows
      <4>5. QED
        BY <4>1, <4>2, <4>4
    <3>2. q.step = "served" => SoundAnswer(q, x.window, ToSet(x.buffer), h, tl, tf)
      BY <1>2, <2>1, <2>3 DEF SoundAsk, SoundAnswer
    <3>3. QED
      BY <2>1, <2>3, <3>1, <3>2 DEF SoundAsk
  <2>4. QED
    BY <2>2, <2>3
<1>5. QED
  BY <1>3, <1>4 DEF SoundAt

\* A change that leaves window, buffer and pause alone keeps that account.
LEMMA KeepsSound ==
    ASSUME NEW v, NEW x, Keeps(v, x), NEW q, NEW h, NEW tl, NEW tf, SoundAt(v, q, h, tl, tf)
    PROVE  SoundAt(x, q, h, tl, tf)
BY DEF Keeps, SoundAt

\* And so does dropping the page in flight.
LEMMA UnaskedSound ==
    ASSUME NEW v, NEW q, NEW h, NEW tl, NEW tf, SoundAt(v, q, h, tl, tf)
    PROVE  SoundAt(v, NoRequest, h, tl, tf)
BY DEF SoundAt

\* A page asked from an edge of the window is as it should be.
LEMMA LoadSound ==
    ASSUME NEW h, NEW hd, NEW v, Tidy(v, h, hd), NEW dir \in Direction,
           EdgeFor(v.window, dir) # NoPositions,
           NEW q, NEW tl, NEW tf, SoundAt(v, q, h, tl, tf)
    PROVE  SoundAt(Loading(v, dir), Asked(dir, EdgeFor(v.window, dir), "none"), h, tl, tf)
<1> DEFINE w == v.window
           e == EdgeFor(w, dir)
           a == Asked(dir, e, "none")
           x == Loading(v, dir)
<1>1. w \in Windows /\ v \in Views
  BY DEF Tidy, Views
<1>2. Back # Forward /\ (dir = Back \/ dir = Forward)
  BY DEF Back, Forward, Direction
<1>3. /\ dir = Back => e = w.bottom
      /\ dir = Forward => e = w.top /\ ~w.attached
  BY <1>2 DEF EdgeFor, BottomEdge, TopEdge
<1>4. a.start = e /\ a.dir = dir /\ a.step = "asked" /\ "asked" # "served"
  BY DEF Asked
<1>5. \A p \in DOMAIN w.bottom : w.bottom[p] \in Nat
  BY <1>1, PositionsFacts DEF Windows
<1> HIDE DEF e, a, w
<1>6. SoundAsk(a, w, ToSet(v.buffer), h, tl, tf)
  BY <1>2, <1>3, <1>4, <1>5 DEF SoundAsk
<1>7. SoundAt(v, a, h, tl, tf)
  BY <1>6 DEF SoundAt, w
<1>8. Keeps(v, x)
  BY <1>1, LoadingKeeps
<1> HIDE DEF x
<1>9. SoundAt(x, a, h, tl, tf)
  BY <1>7, <1>8, KeepsSound
<1>10. QED
  BY <1>9 DEF a, e, x, w

\* An empty view with an anchor page in flight is sound.
LEMMA RestartSound ==
    ASSUME NEW v, v.window = EmptyWindow, v.buffer = <<>>,
           NEW dir, NEW anchor, NEW tl, NEW tf
    PROVE  SoundAt(v, Asked(dir, NoPositions, anchor), NoHistory, tl, tf)
<1> DEFINE a == Asked(dir, NoPositions, anchor)
<1>1. a.start = NoPositions /\ a.step = "asked" /\ "asked" # "served"
  BY DEF Asked
<1> HIDE DEF a
<1>2. SoundAsk(a, v.window, ToSet(v.buffer), NoHistory, tl, tf)
  BY <1>1 DEF SoundAsk
<1>3. ToSet(v.buffer) = {}
  BY DEF ToSet
<1>4. SoundBuffer(EmptyWindow, {}, NoHistory, tl, tf)
  BY DEF SoundBuffer, BufferGoesOn, BufferStreamed
<1>5. NoHistory.origin = NoHeads
  BY DEF NoHistory
<1>6. QED
  BY <1>2, <1>3, <1>4, <1>5 DEF SoundAt, Sound, a

\* The second invariant holds when the view is mounted.
LEMMA InitSound == Init => SoundInv
<1> SUFFICES ASSUME Init PROVE SoundInv
  OBVIOUS
<1>1. /\ tailFrom = tail /\ history = NoHistory /\ view = MountedView
      /\ request = Asked(Back, NoPositions, "now")
  BY DEF Init
<1>2. SoundAt(view, request, history, tail, tailFrom)
  BY <1>1, MountedFacts, RestartSound
<1>3. QED
  BY <1>1, <1>2 DEF SoundInv

\* What the second invariant says, part by part.
LEMMA SoundParts ==
    ASSUME TidyInv, SoundInv
    PROVE  /\ SoundAt(view, request, history, tail, tailFrom)
           /\ \A p \in Partitions : tail[p] = NoOffset <=> tailFrom[p] = NoOffset
           /\ request # NoRequest => request \in Requests
           /\ Sound(view.window, ToSet(view.buffer), history, tail, tailFrom)
           /\ request # NoRequest =>
                SoundAsk(request, view.window, ToSet(view.buffer), history, tail, tailFrom)
BY DEF SoundInv, SoundAt, TidyInv, TidyAsk

\* A record that is produced keeps the second invariant.
LEMMA ProduceSound ==
    ASSUME TidyInv, SoundInv, NEW p \in Partitions, Produce(p)
    PROVE  SoundInv'
BY DEF Produce, SoundInv

\* A live stream that starts keeps it: what lies below where it starts was
\* never streamed.
LEMMA StartTailSound ==
    ASSUME TidyInv, SoundInv, NEW p \in Partitions, StartTail(p)
    PROVE  SoundInv'
<1> DEFINE w == view.window
           bf == ToSet(view.buffer)
<1>1. /\ tail[p] = NoOffset
      /\ tail' = [tail EXCEPT ![p] = head[p]] /\ tailFrom' = [tailFrom EXCEPT ![p] = head[p]]
      /\ UNCHANGED <<head, view, request, history>>
  BY DEF StartTail
<1>2. /\ head \in [Partitions -> Nat] /\ history \in Histories
      /\ tail \in Tails /\ tailFrom \in Tails /\ w \in Windows /\ bf \in SUBSET Rows
      /\ WithinHeads(w, head)
  BY TidyParts
<1>3. /\ history.origin # NoHeads => \A q \in Partitions : history.origin[q] <= head[q]
      /\ history.known # NoHeads => \A q \in Partitions : history.known[q] <= head[q]
  BY DEF TidyInv, World, NoMore
<1> HIDE DEF w, bf
<1>4. Sound(w, bf, history, tail, tailFrom)
  BY SoundParts DEF w, bf
<1>5. Sound(w, bf, history, tail', tailFrom')
  BY <1>1, <1>2, <1>3, <1>4, StartSound
<1>6. \A q \in Partitions : /\ q # p => tail'[q] = tail[q] /\ tailFrom'[q] = tailFrom[q]
                            /\ tail'[p] = head[p] /\ tailFrom'[p] = head[p]
  BY <1>1, <1>2 DEF Tails
<1>7. head[p] # NoOffset
  BY <1>2, AbsenceAssumption
<1>8. \A q \in Partitions : tail'[q] = NoOffset <=> tailFrom'[q] = NoOffset
  BY <1>6, <1>7, SoundParts
<1>9. \A hd : LateKept(bf, history, tail, tailFrom, hd) => LateKept(bf, history, tail', tailFrom', hd)
  <2> SUFFICES ASSUME NEW hd, LateKept(bf, history, tail, tailFrom, hd),
                      NEW r \in Rows, hd[r[1]] <= r[2], Streamed(tail', r)
               PROVE  r \in bf \cup history.dropped \/ tailFrom'[r[1]] = NoOffset \/ r[2] < tailFrom'[r[1]]
    BY DEF LateKept
  <2>1. r[1] \in Partitions
    BY RowFacts
  <2>2. CASE r[1] = p
    BY <1>6, <2>1, <2>2 DEF Streamed
  <2>3. CASE r[1] # p
    BY <1>6, <2>1, <2>3 DEF Streamed, LateKept
  <2>4. QED
    BY <2>2, <2>3
<1>10. request # NoRequest => SoundAsk(request, w, bf, history, tail', tailFrom')
  BY <1>9, SoundParts DEF SoundAsk, SoundAnswer, w, bf
<1>11. SoundAt(view, request, history, tail', tailFrom')
  BY <1>5, <1>10 DEF SoundAt, w, bf
<1>12. QED
  BY <1>1, <1>8, <1>11 DEF SoundInv

\* A live row keeps it: the row is in the window, in the buffer or dropped.
LEMMA DeliverSound ==
    ASSUME TidyInv, SoundInv, NEW p \in Partitions, Deliver(p)
    PROVE  SoundInv'
<1> DEFINE row == <<p, tail[p]>>
           w == view.window
           bf == ToSet(view.buffer)
           more == bf \cup ({row} \cap Rows)
<1>1. /\ tail[p] # NoOffset /\ tail[p] < head[p] /\ tail' = [tail EXCEPT ![p] = @ + 1]
      /\ UNCHANGED <<head, tailFrom, request>>
      /\ IF row \notin Rows THEN UNCHANGED <<view, history>>
         ELSE IF Mergeable(view)
         THEN /\ \E outcome \in InsertLive(view.window, {row}) : view' \in Noted(view, outcome)
              /\ UNCHANGED history
         ELSE /\ view' = Buffered(view, row)
              /\ history' = [history EXCEPT !.dropped = @ \cup DroppedBy(view)]
  BY DEF Deliver, DroppedBy
<1>2. /\ head \in [Partitions -> Nat] /\ history \in Histories
      /\ tail \in Tails /\ tailFrom \in Tails /\ w \in Windows /\ bf \in SUBSET Rows
      /\ Tidy(view, history, head) /\ view \in Views
  BY TidyParts
<1>3. /\ Sound(w, bf, history, tail, tailFrom)
      /\ request # NoRequest => request \in Requests /\ SoundAsk(request, w, bf, history, tail, tailFrom)
  BY SoundParts
<1>4. Sound(w, more, history, tail', tailFrom)
  <2> HIDE DEF w, bf
  <2>1. QED
    BY <1>1, <1>2, <1>3, DeliverySound
<1>5. tail[p] \in Nat /\ tail'[p] = tail[p] + 1 /\ \A q \in Partitions : q # p => tail'[q] = tail[q]
  BY <1>1, <1>2 DEF Tails
<1>6. tail' \in Tails /\ \A q \in Partitions : tail'[q] = NoOffset <=> tailFrom[q] = NoOffset
  <2>1. tail' \in Tails /\ tail'[p] # NoOffset
    BY <1>1, <1>2, <1>5, AbsenceAssumption DEF Tails
  <2>2. QED
    BY <1>1, <1>5, <2>1, SoundParts
<1>7. \A r \in Rows : Streamed(tail', r) => Streamed(tail, r) \/ r = row
  <2> SUFFICES ASSUME NEW r \in Rows, Streamed(tail', r), ~Streamed(tail, r) PROVE r = row
    OBVIOUS
  <2>1. r[1] \in Partitions /\ r[2] \in Nat /\ r = <<r[1], r[2]>>
    BY RowFacts
  <2>2. r[1] = p
    BY <1>5, <2>1 DEF Streamed
  <2>3. r[2] = tail[p]
    BY <1>1, <1>5, <2>1, <2>2 DEF Streamed
  <2>4. QED
    BY <2>1, <2>2, <2>3
<1>8. CASE row \notin Rows
  <2>1. more = bf /\ UNCHANGED <<view, history>>
    BY <1>1, <1>8
  <2>2. \A r \in Rows : Streamed(tail', r) => Streamed(tail, r)
    BY <1>7, <1>8
  <2>3. \A hd : LateKept(bf, history, tail, tailFrom, hd) => LateKept(bf, history, tail', tailFrom, hd)
    BY <2>2 DEF LateKept
  <2>4. request # NoRequest => SoundAsk(request, w, bf, history, tail', tailFrom)
    BY <1>3, <2>3 DEF SoundAsk, SoundAnswer
  <2>5. QED
    BY <1>1, <1>4, <1>6, <2>1, <2>4 DEF SoundInv, SoundAt
<1>9. CASE row \in Rows /\ Mergeable(view)
  <2>1. PICK o \in InsertLive(view.window, {row}) : view' \in Noted(view, o)
    BY <1>1, <1>9
  <2>2. view.attached /\ row[2] < head[row[1]] /\ history' = history
    BY <1>1, <1>9 DEF Mergeable
  <2>3. Sound(view.window, ToSet(view.buffer) \cup {row}, history, tail', tailFrom)
    <3>1. more = bf \cup {row}
      BY <1>9
    <3>2. QED
      BY <1>4, <3>1
  <2> HIDE DEF row
  <2>4. Merges(view, row, view', history, head)
    BY <1>2, <1>9, <2>1, <2>2, RowMerges
  <2>5. /\ Sound(view'.window, ToSet(view'.buffer), history, tail', tailFrom)
        /\ BottomsRise(view.window, view'.window)
        /\ view'.window.attached = view.window.attached /\ Tidy(view', history, head)
    BY <1>2, <1>6, <2>3, <2>4 DEF Merges
  <2>6. view.window.attached = TRUE
    BY <1>2, <2>2 DEF Tidy, Windows
  <2>7. request # NoRequest =>
          SoundAsk(request, view'.window, ToSet(view'.buffer), history, tail', tailFrom)
    <3> SUFFICES ASSUME request # NoRequest
                 PROVE  SoundAsk(request, view'.window, ToSet(view'.buffer), history, tail', tailFrom)
      OBVIOUS
    <3>1. SoundAsk(request, w, bf, history, tail, tailFrom) /\ request \in Requests
      BY <1>3
    <3>2. ASSUME request.start # NoPositions, request.dir = Back, NEW q \in DOMAIN request.start
          PROVE  q \in DOMAIN view'.window.bottom /\ request.start[q] <= view'.window.bottom[q]
      <4>1. q \in DOMAIN w.bottom /\ request.start[q] <= w.bottom[q]
        BY <3>1, <3>2 DEF SoundAsk
      <4>2. q \in DOMAIN view'.window.bottom /\ w.bottom[q] <= view'.window.bottom[q]
        BY <2>5, <4>1 DEF BottomsRise
      <4>3. request.start \in Positions /\ view'.window \in Windows
        BY <2>5, <3>1, <3>2 DEF Requests, Tidy, Views
      <4>4. request.start[q] \in Nat /\ w.bottom[q] \in Nat /\ view'.window.bottom[q] \in Nat
        BY <1>2, <3>2, <4>1, <4>2, <4>3, PositionsFacts DEF Windows
      <4>5. QED
        BY <4>1, <4>2, <4>4
    <3>3. request.start # NoPositions => request.dir # Forward
      BY <2>6, <3>1 DEF SoundAsk
    <3>4. request.step = "served" =>
            SoundAnswer(request, view'.window, ToSet(view'.buffer), history, tail', tailFrom)
      BY <2>5, <2>6, <3>1 DEF SoundAsk, SoundAnswer
    <3>5. QED
      BY <3>2, <3>3, <3>4 DEF SoundAsk
  <2>8. QED
    BY <1>1, <1>6, <2>2, <2>5, <2>7 DEF SoundInv, SoundAt
<1>10. CASE row \in Rows /\ ~Mergeable(view)
  <2>1. view' = Buffered(view, row) /\ history' = [history EXCEPT !.dropped = @ \cup DroppedBy(view)]
    BY <1>1, <1>10
  <2> DEFINE rest == ToSet(view'.buffer)
  <2>2. /\ Keeps(view, view) /\ view'.window = w
        /\ rest \subseteq bf \cup {row} /\ bf \cup {row} \subseteq rest \cup DroppedBy(view)
        /\ DroppedBy(view) \subseteq Rows
    <3> HIDE DEF row
    <3>1. QED
      BY <1>2, <1>10, <2>1, BufferedFacts DEF Tidy, Keeps
  <2>3. more = bf \cup {row} /\ more \in SUBSET Rows /\ rest \in SUBSET more
    BY <1>2, <1>10, <2>2
  <2>4. /\ history' \in Histories /\ history'.origin = history.origin
        /\ history'.known = history.known
        /\ history'.dropped = history.dropped \cup DroppedBy(view)
    BY <1>2, <2>1, <2>2 DEF Histories
  <2>5. more \cup history.dropped \subseteq rest \cup history'.dropped
    BY <2>2, <2>3, <2>4
  <2> HIDE DEF more, rest
  <2>6. Sound(w, rest, history', tail', tailFrom)
    BY <1>2, <1>4, <1>6, <2>3, <2>4, <2>5, DropSound
  <2>7. \A hd : LateKept(bf, history, tail, tailFrom, hd) => LateKept(rest, history', tail', tailFrom, hd)
    BY <1>7, <2>3, <2>5 DEF LateKept
  <2>8. request # NoRequest => SoundAsk(request, w, rest, history', tail', tailFrom)
    BY <1>3, <2>7 DEF SoundAsk, SoundAnswer
  <2>9. QED
    BY <1>1, <1>6, <2>2, <2>6, <2>8 DEF SoundInv, SoundAt, rest
<1>11. QED
  BY <1>8, <1>9, <1>10

\* An answer that leaves no partition out has all the rows between where it
\* began and where it ended.
LEMMA ServedFromSound ==
    ASSUME TidyInv, SoundInv, request # NoRequest,
           NEW from \in Positions, \A p \in DOMAIN from : from[p] <= head[p],
           request.start # NoPositions => from = request.start,
           request.start = NoPositions => DOMAIN from = Partitions,
           request.anchor = "now" => from = head,
           ServedFrom(from, Partitions)
    PROVE  SoundAsk(request', view.window, ToSet(view.buffer), history, tail, tailFrom)
<1>1. /\ head \in [Partitions -> Nat] /\ request \in Requests
      /\ SoundAsk(request, view.window, ToSet(view.buffer), history, tail, tailFrom)
      /\ tail \in Tails /\ \A p \in Partitions : tail[p] # NoOffset => tail[p] <= head[p]
  BY TidyParts, SoundParts DEF TidyInv, World
<1>2. PICK to \in [DOMAIN from \cap Partitions -> UNION {0 .. head[p] : p \in Partitions}] :
        LET start == [p \in DOMAIN to |-> from[p]]
            atEdge == \A p \in DOMAIN to : to[p] = Edge(request.dir, p)
            rows == Crossing(request.dir, start, to)
        IN  /\ \A p \in DOMAIN to : IF request.dir = Back THEN to[p] <= start[p]
                                    ELSE start[p] <= to[p] /\ to[p] <= head[p]
            /\ request' = [request EXCEPT !.step = "served", !.rows = rows, !.heads = head,
                                          !.from = from,
                                          !.cont = IF atEdge THEN NoPositions ELSE to]
  BY DEF ServedFrom
<1> DEFINE start == [p \in DOMAIN to |-> from[p]]
           atEdge == \A p \in DOMAIN to : to[p] = Edge(request.dir, p)
           rows == Crossing(request.dir, start, to)
           cont == IF atEdge THEN NoPositions ELSE to
<1>3. DOMAIN from \subseteq Partitions /\ from \in [DOMAIN from -> Nat]
  BY PositionsFacts
<1>4. DOMAIN to = DOMAIN from /\ start = from /\ rows = Crossing(request.dir, from, to)
  <2>1. DOMAIN to = DOMAIN from
    BY <1>3
  <2>2. start = from
    BY <1>3, <2>1
  <2>3. QED
    BY <2>1, <2>2
<1>5. \A p \in DOMAIN to : to[p] \in Nat
  BY <1>1, <1>3, <1>4
<1>6. to \in Positions /\ to \in [DOMAIN from -> Nat]
  <2>1. to \in [DOMAIN from -> Nat]
    BY <1>4, <1>5
  <2>2. QED
    BY <1>3, <2>1, PositionsIntro
<1>7. Reached(request.dir, from, cont, head) = to
  <2>1. CASE ~atEdge
    <3>1. to # NoPositions
      BY <1>6, EntriesFacts
    <3>2. QED
      BY <2>1, <3>1 DEF Reached
  <2>2. CASE atEdge
    <3>1. \A p \in DOMAIN from : to[p] = IF request.dir = Back THEN 0 ELSE head[p]
      BY <1>4, <2>2 DEF Edge
    <3>2. Reached(request.dir, from, cont, head) =
            [p \in DOMAIN from |-> IF request.dir = Back THEN 0 ELSE head[p]]
      BY <2>2 DEF Reached
    <3> HIDE DEF cont, atEdge
    <3>3. QED
      BY <1>6, <3>1, <3>2
  <2>3. QED
    BY <2>1, <2>2
<1>8. cont = NoPositions \/ (cont \in Positions /\ DOMAIN cont = DOMAIN from)
  BY <1>4, <1>6
<1>9. \A p \in DOMAIN from :
         IF request.dir = Back THEN to[p] <= from[p] ELSE from[p] <= to[p] /\ to[p] <= head[p]
  BY <1>2, <1>4
<1>10. request' = [request EXCEPT !.step = "served", !.rows = rows, !.heads = head,
                                  !.from = from, !.cont = cont]
  BY <1>2
<1> HIDE DEF rows, cont, start, atEdge
<1>11. /\ request'.start = request.start /\ request'.dir = request.dir
       /\ request'.anchor = request.anchor /\ request'.rows = rows /\ request'.heads = head
       /\ request'.from = from /\ request'.cont = cont /\ request'.step = "served"
  BY <1>1, <1>10 DEF Requests
<1>12. ReadPage(request.dir, from, cont, rows, head)
  BY <1>1, <1>4, <1>7, <1>8, <1>9 DEF ReadPage
<1>13. LateKept(ToSet(view.buffer), history, tail, tailFrom, head)
  <2> SUFFICES ASSUME NEW r \in Rows, head[r[1]] <= r[2], Streamed(tail, r) PROVE FALSE
    BY DEF LateKept
  <2>1. r[1] \in Partitions /\ r[2] \in Nat
    BY RowFacts
  <2>2. QED
    BY <1>1, <2>1 DEF Streamed, Tails
<1>14. SoundAnswer(request', view.window, ToSet(view.buffer), history, tail, tailFrom)
  BY <1>11, <1>12, <1>13 DEF SoundAnswer
<1>15. QED
  BY <1>1, <1>11, <1>14 DEF SoundAsk

\* An answer of the backend keeps the second invariant when no partition
\* can be left out.
LEMMA ServeSound ==
    ASSUME ~FlakyListing, TidyInv, SoundInv, Serve
    PROVE  SoundInv'
<1>1. /\ request # NoRequest /\ request.step = "asked" /\ UNCHANGED <<world, view, history>>
  BY DEF Serve
<1>2. TidyAsk(request, view.window, history, head) /\ request.start \in Positions \cup {NoPositions}
  BY <1>1 DEF TidyInv, TidyAsk, Requests
<1>3. SoundAsk(request', view.window, ToSet(view.buffer), history, tail, tailFrom)
  <2>1. CASE request.start # NoPositions
    <3>1. ServedFrom(request.start, Partitions)
      BY <2>1 DEF Serve
    <3>2. /\ request.start \in Positions /\ \A p \in DOMAIN request.start : request.start[p] <= head[p]
          /\ request.anchor # "now"
      BY <1>2, <2>1 DEF TidyAsk
    <3>3. QED
      BY <1>1, <2>1, <3>1, <3>2, ServedFromSound
  <2>2. CASE request.start = NoPositions
    <3>1. PICK from \in [Partitions -> UNION {0 .. head[p] : p \in Partitions}] :
             Anchored(request.anchor, from) /\ ServedFrom(from, Partitions)
      BY <2>2 DEF Serve
    <3>2. /\ from \in [Partitions -> Nat] /\ from \in Positions /\ DOMAIN from = Partitions
          /\ \A p \in Partitions : from[p] <= head[p]
          /\ request.anchor = "now" => from = head
      BY <1>1, <2>2, <3>1, AnchoredFrom
    <3>3. QED
      BY <1>1, <2>2, <3>1, <3>2, ServedFromSound
  <2>3. QED
    BY <2>1, <2>2
<1>4. QED
  BY <1>1, <1>3, SoundParts DEF SoundInv, SoundAt, world

\* A page that fails keeps it.
LEMMA PageFailsSound ==
    ASSUME TidyInv, SoundInv, PageFails
    PROVE  SoundInv'
BY DEF PageFails, SoundInv, SoundAt, world

\* Asking on keeps it.
LEMMA ContinueSound ==
    ASSUME TidyInv, SoundInv, Continue
    PROVE  SoundInv'
<1> DEFINE dir == view.offer
<1>1. /\ dir # NoDirection /\ EdgeFor(view.window, dir) # NoPositions
      /\ request' = Asked(dir, EdgeFor(view.window, dir), "none")
      /\ view' = Loading(view, dir) /\ UNCHANGED <<world, history>>
  BY DEF Continue, Load
<1>2. Tidy(view, history, head) /\ dir \in Direction
  BY <1>1, TidyParts DEF Views
<1> HIDE DEF dir
<1>3. SoundAt(view', request', history, tail, tailFrom)
  BY <1>1, <1>2, SoundParts, LoadSound
<1>4. QED
  BY <1>1, <1>3 DEF SoundInv, world

\* A page that is found stale keeps it: the page is dropped and asked again
\* from the edge.
LEMMA LandStaleSound ==
    ASSUME TidyInv, SoundInv, LandStale
    PROVE  SoundInv'
<1> DEFINE dir == request.dir
           done == (request.cont = NoPositions)
<1>1. PICK d : d = Distrusted(view, dir, done)
  OBVIOUS
<1>2. /\ request # NoRequest /\ UNCHANGED <<world, history>>
      /\ \/ /\ EdgeFor(view.window, dir) # NoPositions
            /\ request' = Asked(dir, EdgeFor(d.window, dir), "none")
            /\ view' = Loading(d, dir)
         \/ view' = [d EXCEPT !.offer = dir] /\ request' = NoRequest
         \/ view' = d /\ request' = NoRequest
  BY <1>1 DEF LandStale, Load, Distrusted
<1>3. /\ Tidy(view, history, head) /\ view \in Views
      /\ dir \in Direction /\ done \in BOOLEAN
  BY <1>2, TidyParts, SoundParts DEF Requests
<1> HIDE DEF dir, done
<1>4. Keeps(view, d)
  BY <1>1, <1>3, DistrustedKeeps
<1>5. Tidy(d, history, head) /\ d.window = view.window /\ d \in Views
  BY <1>3, <1>4, KeepsTidy DEF Keeps
<1>6. SoundAt(d, request, history, tail, tailFrom)
  BY <1>4, SoundParts, KeepsSound
<1>7. SoundAt(view', request', history, tail, tailFrom)
  <2>1. CASE /\ EdgeFor(view.window, dir) # NoPositions
             /\ request' = Asked(dir, EdgeFor(d.window, dir), "none")
             /\ view' = Loading(d, dir)
    BY <1>3, <1>5, <1>6, <2>1, LoadSound
  <2>2. CASE view' = [d EXCEPT !.offer = dir] /\ request' = NoRequest
    <3>1. Keeps(d, view')
      BY <1>3, <1>5, <2>2, OfferKeeps
    <3>2. QED
      BY <1>6, <2>2, <3>1, KeepsSound, UnaskedSound
  <2>3. CASE view' = d /\ request' = NoRequest
    BY <1>6, <2>3, UnaskedSound
  <2>4. QED
    BY <1>2, <2>1, <2>2, <2>3
<1>8. QED
  BY <1>2, <1>7, SoundParts DEF SoundInv, world

\* A decision of the pause machine keeps it.
LEMMA DecidedSound ==
    ASSUME TidyInv, SoundInv, NEW v, v \in Views, Tidy(v, history, head),
           SoundAt(v, request, history, tail, tailFrom),
           NEW d, d.pause \in Pauses, d.flush \in BOOLEAN, d.flush => v.attached,
           NEW x \in Decided(v, d)
    PROVE  SoundAt(x, request, history, tail, tailFrom)
<1>1. Settles(v, x, history, head)
  BY TidyParts, DecidedSettles
<1>2. QED
  BY <1>1, TidyParts, SoundParts, SettledSound

\* Expanding a row keeps it.
LEMMA ExpandSound ==
    ASSUME TidyInv, SoundInv, NEW row \in Rows, Expand(row)
    PROVE  SoundInv'
<1>1. view' = [view EXCEPT !.expanded = row] /\ UNCHANGED <<world, request, history>>
  BY DEF Expand
<1>2. view'.window = view.window /\ view'.buffer = view.buffer
  BY <1>1, TidyParts DEF Views
<1>3. QED
  BY <1>1, <1>2 DEF SoundInv, SoundAt, world

\* Collapsing the row keeps it.
LEMMA CollapseSound ==
    ASSUME TidyInv, SoundInv, Collapse
    PROVE  SoundInv'
<1> DEFINE closed == [view EXCEPT !.expanded = NoRow]
           d == NextPause(closed, "lastInspectionClosed")
<1>1. /\ view' \in IF view.pinned THEN Decided(closed, d) ELSE {closed}
      /\ UNCHANGED <<world, request, history>>
  BY DEF Collapse
<1>2. /\ closed \in Views /\ closed.window = view.window /\ closed.attached = view.attached
      /\ closed.buffer = view.buffer
      /\ closed.exhausted = view.exhausted /\ closed.trimmed = view.trimmed
  BY TidyParts DEF Views
<1> HIDE DEF closed
<1>3. Tidy(closed, history, head)
  BY <1>2, TidyParts DEF Tidy, TopKnown, MayGoOn
<1>4. SoundAt(closed, request, history, tail, tailFrom)
  BY <1>2, SoundParts DEF SoundAt
<1>5. d.pause \in Pauses /\ d.flush \in BOOLEAN /\ (d.flush => closed.attached)
  BY <1>2, NextPauseFacts
<1> HIDE DEF d
<1>6. SoundAt(view', request, history, tail, tailFrom)
  <2>1. CASE view' = closed
    BY <1>4, <2>1
  <2>2. CASE view' \in Decided(closed, d)
    BY <1>2, <1>3, <1>4, <1>5, <2>2, DecidedSound
  <2>3. QED
    BY <1>1, <2>1, <2>2
<1>7. QED
  BY <1>1, <1>6, SoundParts DEF SoundInv, world

\* A jump keeps it: nothing of the old window remains.
LEMMA RestartSoundInv ==
    ASSUME TidyInv, SoundInv, NEW v \in Views, NEW dir \in Direction, NEW anchor, Restart(v, dir, anchor)
    PROVE  SoundInv'
<1>1. /\ view' = Loading(Cleared(v), dir)
      /\ request' = Asked(dir, NoPositions, anchor)
      /\ history' = NoHistory /\ UNCHANGED world
  BY DEF Restart
<1>2. view'.window = EmptyWindow /\ view'.buffer = <<>>
  BY <1>1, RestartTidy
<1>3. SoundAt(view', request', history', tail, tailFrom)
  BY <1>1, <1>2, RestartSound
<1>4. QED
  BY <1>1, <1>3, SoundParts DEF SoundInv, world

\* Each of the jumps, and a new filter, keeps it.
LEMMA JumpsSound ==
    ASSUME TidyInv, SoundInv,
           JumpToNow(view) \/ (\E anchor \in {"beginning", "elsewhere"} : JumpBack(anchor)) \/ Refilter
    PROVE  SoundInv'
<1>1. view \in Views /\ "none" \in Pauses /\ "auto" \in Pauses
  BY TidyParts DEF Pauses
<1>0. Back \in Direction /\ Forward \in Direction
  BY DEF Direction
<1>2. CASE JumpToNow(view)
  <2>1. PICK v : v = [view EXCEPT !.pause = PauseAfterJump(view, "none"), !.fromBeginning = FALSE]
    OBVIOUS
  <2>2. v \in Views
    BY <1>1, <2>1, PauseFacts DEF Views
  <2>3. Restart(v, Back, "now")
    BY <1>2, <2>1 DEF JumpToNow
  <2>4. QED
    BY <1>0, <2>2, <2>3, RestartSoundInv
<1>3. ASSUME NEW anchor \in {"beginning", "elsewhere"}, JumpBack(anchor)
      PROVE  SoundInv'
  <2>1. PICK v : v = [view EXCEPT !.pause = PauseAfterJump(view, "auto"),
                                  !.fromBeginning = anchor = "beginning"]
    OBVIOUS
  <2>2. v \in Views
    BY <1>1, <2>1, PauseFacts DEF Views
  <2>3. Restart(v, Forward, anchor)
    BY <1>3, <2>1 DEF JumpBack
  <2>4. QED
    BY <1>0, <2>2, <2>3, RestartSoundInv
<1>4. CASE Refilter
  <2>1. PICK v : v = view
    OBVIOUS
  <2>2. Restart(v, Forward, "beginning") \/ Restart(v, Back, "now")
    BY <1>4, <2>1 DEF Refilter
  <2>3. QED
    BY <1>0, <1>1, <2>1, <2>2, RestartSoundInv
<1>5. QED
  BY <1>2, <1>3, <1>4

\* A scroll keeps it.
LEMMA ScrollSound ==
    ASSUME TidyInv, SoundInv, NEW pinned \in BOOLEAN, NEW nearBottom \in BOOLEAN,
           Scroll(pinned, nearBottom)
    PROVE  SoundInv'
<1>1. PICK u, d : /\ u = [view EXCEPT !.pinned = pinned]
                  /\ d = NextPause(view, ScrollEvent(pinned))
  OBVIOUS
<1>2. /\ Keeps(view, u) /\ d.pause \in Pauses /\ d.flush \in BOOLEAN
      /\ d.flush => u.attached
  BY <1>1, ScrollFacts
<1>3. /\ u \in Views /\ Tidy(u, history, head)
      /\ SoundAt(u, request, history, tail, tailFrom)
  BY <1>2, TidyParts, SoundParts, KeepsTidy, KeepsSound DEF Keeps
<1>4. ASSUME NEW v \in Decided(u, d)
      PROVE  /\ Tidy(v, history, head) /\ v \in Views
             /\ SoundAt(v, request, history, tail, tailFrom)
  BY <1>2, <1>3, DecidedHolds, DecidedSound DEF Tidy
<1>5. UNCHANGED <<world, history>> /\ \E v \in Decided(u, d) : ScrollsTo(v, view')
  BY <1>1, <1>4, ScrollIs
<1>6. PICK v \in Decided(u, d) : ScrollsTo(v, view')
  BY <1>5
<1>7. /\ Tidy(v, history, head) /\ v \in Views
      /\ SoundAt(v, request, history, tail, tailFrom)
  BY <1>4
<1>8. SoundAt(view', request', history, tail, tailFrom)
  <2>1. CASE view' = v /\ UNCHANGED request
    BY <1>7, <2>1
  <2>2. ASSUME NEW y, NEW dir \in Direction,
               Keeps(v, y), EdgeFor(v.window, dir) # NoPositions,
               view' = Loading(y, dir),
               request' = Asked(dir, EdgeFor(y.window, dir), "none")
        PROVE  SoundAt(view', request', history, tail, tailFrom)
    <3>1. /\ Tidy(y, history, head) /\ EdgeFor(y.window, dir) # NoPositions
          /\ SoundAt(y, request, history, tail, tailFrom)
      BY <1>7, <2>2, KeepsTidy, KeepsSound DEF Keeps
    <3>2. QED
      BY <2>2, <3>1, LoadSound
  <2>3. QED
    BY <1>6, <2>1, <2>2 DEF ScrollsTo
<1>9. QED
  BY <1>5, <1>8, SoundParts DEF SoundInv, world

\* A click keeps it.
LEMMA ClickSound ==
    ASSUME TidyInv, SoundInv, NEW event \in {"pillClick", "toggleClick"}, Click(event)
    PROVE  SoundInv'
<1>1. PICK d : d = NextPause(view, event)
  OBVIOUS
<1>2. d.pause \in Pauses /\ d.flush \in BOOLEAN /\ (d.flush => view.attached)
  BY <1>1, TidyParts, NextPauseFacts
<1>3. CASE d.jump
  BY <1>1, <1>3, JumpsSound DEF Click
<1>4. CASE ~d.jump
  <2>1. view' \in Decided(view, d) /\ UNCHANGED <<world, request, history>>
    BY <1>1, <1>4 DEF Click
  <2>2. SoundAt(view', request, history, tail, tailFrom)
    BY <1>2, <2>1, TidyParts, SoundParts, DecidedSound
  <2>3. QED
    BY <2>1, <2>2, SoundParts DEF SoundInv, world
<1>5. QED
  BY <1>3, <1>4

\* A page that lands leaves a sound window behind, before anything is flushed.
LEMMA LandedSound ==
    ASSUME TidyInv, SoundInv, request # NoRequest, request.step = "served",
           NEW o \in InsertPage(view.window, Page), ~o.stale
    PROVE  Sound(o.window, ToSet(view.buffer), Recorded(o.window.attached), tail, tailFrom)
<1> DEFINE w == view.window
           bf == ToSet(view.buffer)
           x == PageMerged(w, Page)
           k == Recorded(o.window.attached)
           dir == request.dir
           hd == request.heads
<1>1. /\ head \in [Partitions -> Nat] /\ history \in Histories
      /\ tail \in Tails /\ tailFrom \in Tails
      /\ w \in Windows /\ bf \in SUBSET Rows /\ WithinHeads(w, head)
      /\ Tidy(view, history, head)
  BY TidyParts
<1>2. /\ TidyAsk(request, w, history, head) /\ TidyAnswer(request, history, head)
      /\ Page.dir = dir /\ Page.start = request.start /\ Page.rows = request.rows
      /\ Page.cont = request.cont /\ Page.attach = (request.anchor = "now")
      /\ dir \in Direction /\ request \in Requests
  BY PageFacts
<1>3. Back # Forward /\ (dir = Back \/ dir = Forward)
  BY <1>2 DEF Back, Forward, Direction
<1>4. /\ ~IsStale(w, dir, request.start) /\ o \in EnforceCap(x, dir)
      /\ o.window.attached => w.attached \/ Attaches(Page)
  BY <1>2, LandedTidy DEF Landed
<1>5. /\ Sound(w, bf, history, tail, tailFrom)
      /\ SoundAsk(request, w, bf, history, tail, tailFrom)
      /\ SoundAnswer(request, w, bf, history, tail, tailFrom)
  BY SoundParts DEF SoundAsk
<1>6. /\ hd \in [Partitions -> Nat] /\ \A p \in Partitions : hd[p] <= head[p]
      /\ history.known # NoHeads => \A p \in Partitions : history.known[p] <= hd[p]
      /\ Cardinality(request.rows) <= Limit
      /\ request.start = NoPositions => request.from \in [Partitions -> Nat]
  BY <1>2 DEF TidyAnswer, NoMore
<1>7. k = [history EXCEPT
             !.origin = IF request.start = NoPositions THEN request.from ELSE history.origin,
             !.known = IF o.window.attached /\ history.known = NoHeads THEN hd ELSE history.known]
  BY <1>1 DEF Recorded, Histories
<1>8. ~w.attached => LateKept(bf, history, tail, tailFrom, hd)
  BY <1>5 DEF SoundAnswer
<1>9. /\ w.attached => history.known # NoHeads
      /\ history.origin = NoHeads => w = EmptyWindow
      /\ history.origin = NoHeads => history.known = NoHeads
  BY <1>1 DEF Tidy, TidyInv, World
<1> HIDE DEF w, bf, x, k, dir, hd
<1>10. CASE request.start # NoPositions /\ dir = Back
  <2>1. history.origin # NoHeads /\ ~Attaches(Page)
    BY <1>2, <1>3, <1>10 DEF TidyAsk, Attaches
  <2>2. /\ ReadPage(Back, Page.start, Page.cont, Page.rows, hd)
        /\ DOMAIN Page.start \subseteq DOMAIN w.bottom
        /\ \A p \in DOMAIN Page.start : Page.start[p] <= w.bottom[p]
    BY <1>2, <1>5, <1>10 DEF SoundAnswer, SoundAsk, dir, hd
  <2>3. ~IsStale(w, Back, Page.start) /\ Page.dir = Back /\ Page.start # NoPositions
    BY <1>2, <1>4, <1>10
  <2>4. x \in Windows /\ Sound(x, bf, history, tail, tailFrom)
    BY <1>1, <1>5, <2>1, <2>2, <2>3, BackPageSound DEF x
  <2>5. Sound(o.window, bf, history, tail, tailFrom)
    BY <1>1, <1>2, <1>4, <2>1, <2>4, CapKeepsSound
  <2>6. o.window.attached => history.known # NoHeads
    BY <1>4, <1>9, <2>1
  <2>7. k = history
    BY <1>1, <1>7, <1>10, <2>6 DEF Histories
  <2>8. QED
    BY <2>5, <2>7 DEF bf, k
<1>11. CASE request.start # NoPositions /\ dir = Forward
  <2>1. history.origin # NoHeads
    BY <1>2, <1>11 DEF TidyAsk
  <2>2. ~w.attached /\ Page.start = w.top /\ Page.dir = Forward /\ Page.start # NoPositions
    BY <1>2, <1>5, <1>11 DEF SoundAsk, dir
  <2>3. ReadPage(Forward, Page.start, Page.cont, Page.rows, hd)
    BY <1>2, <1>5, <1>11 DEF SoundAnswer, dir, hd
  <2> DEFINE g == Recording(history, history.origin, hd, x.attached)
  <2>4. x \in Windows /\ Sound(x, bf, g, tail, tailFrom) /\ WithinHeads(x, head)
    BY <1>1, <1>5, <1>6, <1>8, <2>1, <2>2, <2>3, ForwardPageSound DEF x
  <2>5. o.window.attached = x.attached
    BY <1>1, <1>2, <1>3, <1>4, <1>11, <2>4, CapKeepsHeads
  <2>6. g \in Histories /\ g.origin # NoHeads
    <3>1. history.origin \in [Partitions -> Nat]
      BY <1>1, <2>1 DEF Histories
    <3>2. \A from \in [Partitions -> Nat] :
            LET n == Recording(history, from, hd, x.attached) IN n \in Histories /\ n.origin # NoHeads
      BY <1>1, <1>6, RecordingFacts
    <3>3. QED
      BY <3>1, <3>2
  <2>7. g = k
    BY <1>1, <1>7, <1>11, <2>5 DEF Recording, Histories
  <2> HIDE DEF g
  <2>8. Sound(o.window, bf, g, tail, tailFrom)
    BY <1>1, <1>2, <1>4, <2>4, <2>6, CapKeepsSound
  <2>9. QED
    BY <2>7, <2>8 DEF bf, k
<1>12. CASE request.start = NoPositions
  <2> DEFINE from == request.from
             g == Recording(history, from, hd, x.attached)
  <2>1. history.origin = NoHeads /\ w = EmptyWindow /\ history.known = NoHeads
    BY <1>2, <1>9, <1>12 DEF TidyAsk
  <2>2. /\ from \in [Partitions -> Nat] /\ DOMAIN from = Partitions
        /\ ReadPage(dir, from, Page.cont, Page.rows, hd)
        /\ request.anchor = "now" => from = hd
    BY <1>2, <1>5, <1>6, <1>12 DEF SoundAnswer, dir, hd
  <2>3. LateKept(bf, history, tail, tailFrom, hd)
    BY <1>8, <2>1, EmptyWindowFacts
  <2>4. Sound(EmptyWindow, bf, history, tail, tailFrom)
    BY <1>5, <2>1
  <2>5. g \in Histories /\ g.origin # NoHeads
    BY <1>1, <1>6, <2>2, RecordingFacts
  <2> HIDE DEF from, g
  <2>6. CASE dir = Back
    <3>1. Page.attach = TRUE /\ from = hd
      BY <1>2, <1>3, <1>12, <2>2, <2>6 DEF TidyAsk, dir
    <3>2. /\ x \in Windows /\ x.attached
          /\ \E lo \in [Partitions -> Nat] : AnchorWindow(x, lo, from, from, hd)
      BY <1>2, <1>12, <2>1, <2>2, <2>6, <3>1, BackAnchor DEF x
    <3>3. PICK lo \in [Partitions -> Nat] : AnchorWindow(x, lo, from, from, hd)
      BY <3>2
    <3>4. Sound(x, bf, g, tail, tailFrom)
      BY <1>1, <1>6, <2>1, <2>2, <2>3, <2>4, <3>2, <3>3, AnchorSound DEF g
    <3>5. x.rows = request.rows /\ request.rows \subseteq Rows
      <4>1. x.rows = Page.rows
        BY <2>1, AnchorRows DEF x, PageMerged
      <4>2. QED
        BY <1>2, <4>1 DEF Requests
    <3>6. Excess(x.rows) <= 0
      <4>1. IsFiniteSet(x.rows)
        BY <3>5, RowsFinite, FS_Subset
      <4>2. Cardinality(x.rows) \in Nat
        BY <4>1, FS_CardinalityType
      <4>3. QED
        BY <1>6, <3>5, <4>2, ViewAssumption, CapAssumption DEF Excess
    <3>7. o.window = x
      <4>1. Excess(x.rows) \in Int
        BY <3>5, RowsFinite, FS_Subset, FS_CardinalityType, CapAssumption DEF Excess
      <4>2. Excess(x.rows) <= 0 /\ ~(Excess(x.rows) > 0)
        BY <3>6, <4>1
      <4>3. o = Outcome(x, FALSE, FALSE)
        BY <1>4, <4>2 DEF EnforceCap
      <4>4. QED
        BY <4>3 DEF Outcome
    <3>8. g = k
      BY <1>1, <1>7, <1>12, <3>7 DEF Recording, Histories, g, from
    <3>9. QED
      BY <3>4, <3>7, <3>8 DEF bf, k
  <2>7. CASE dir = Forward
    <3>1. /\ x \in Windows
          /\ \E hi \in [Partitions -> Nat] : AnchorWindow(x, from, hi, from, hd)
      BY <1>2, <1>12, <2>1, <2>2, <2>7, ForwardAnchor DEF x
    <3>2. PICK hi \in [Partitions -> Nat] : AnchorWindow(x, from, hi, from, hd)
      BY <3>1
    <3>3. Sound(x, bf, g, tail, tailFrom) /\ WithinHeads(x, head)
      BY <1>1, <1>6, <2>1, <2>2, <2>3, <2>4, <3>1, <3>2, AnchorSound DEF g
    <3>4. o.window.attached = x.attached
      BY <1>1, <1>2, <1>3, <1>4, <2>7, <3>1, <3>3, CapKeepsHeads
    <3>5. g = k
      BY <1>1, <1>7, <1>12, <3>4 DEF Recording, Histories, g, from
    <3>6. Sound(o.window, bf, g, tail, tailFrom)
      BY <1>1, <1>2, <1>4, <2>5, <3>1, <3>3, CapKeepsSound
    <3>7. QED
      BY <3>5, <3>6 DEF bf, k
  <2>8. QED
    BY <1>3, <2>6, <2>7
<1>13. QED
  BY <1>3, <1>10, <1>11, <1>12

\* A page that lands keeps it.
LEMMA LandSound ==
    ASSUME TidyInv, SoundInv, Land
    PROVE  SoundInv'
<1>1. PICK o \in InsertPage(view.window, Page) :
        /\ ~o.stale
        /\ \E v \in Committed(view, Page, o) :
             \E offer \in Offers(v) : view' = [v EXCEPT !.offer = offer]
        /\ history' = Recorded(o.window.attached)
  BY DEF Land
<1>2. request # NoRequest /\ request.step = "served" /\ request' = NoRequest /\ UNCHANGED world
  BY DEF Land
<1>3. PICK v \in Committed(view, Page, o) :
        \E offer \in Offers(v) : view' = [v EXCEPT !.offer = offer]
  BY <1>1
<1>4. PICK offer \in Offers(v) : view' = [v EXCEPT !.offer = offer]
  BY <1>3
<1>5. Landed(o) /\ Sound(o.window, ToSet(view.buffer), history', tail, tailFrom)
  BY <1>1, <1>2, LandedTidy, LandedSound
<1>6. Page.dir \in Direction
  BY <1>2, PageFacts
<1>7. head \in [Partitions -> Nat] /\ view \in Views /\ history' \in Histories
      /\ tail \in Tails /\ tailFrom \in Tails
  BY <1>1, <1>5, TidyParts DEF Landed, World
<1>8. Tidy(v, history', head) /\ Sound(v.window, ToSet(v.buffer), history', tail, tailFrom)
  BY <1>1, <1>5, <1>6, <1>7, CommittedRemains DEF Landed
<1>9. view'.window = v.window /\ view'.buffer = v.buffer
  BY <1>4, <1>8 DEF Tidy, Views
<1>10. QED
  BY <1>2, <1>8, <1>9, SoundParts DEF SoundInv, SoundAt, world

\* Every step keeps it when no partition can be left out.
LEMMA NextSound ==
    ASSUME ~FlakyListing, TidyInv, SoundInv, [Next]_vars
    PROVE  SoundInv'
<1>1. CASE UNCHANGED vars
  BY <1>1 DEF vars, SoundInv
<1>2. CASE \E p \in Partitions : Produce(p) \/ StartTail(p) \/ Deliver(p)
  BY <1>2, ProduceSound, StartTailSound, DeliverSound
<1>3. CASE Serve \/ PageFails \/ Land \/ LandStale \/ Continue
  BY <1>3, ServeSound, PageFailsSound, LandSound, LandStaleSound, ContinueSound
<1>4. CASE \E pinned \in BOOLEAN, nearBottom \in BOOLEAN : Scroll(pinned, nearBottom)
  BY <1>4, ScrollSound
<1>5. CASE (\E row \in Rows : Expand(row)) \/ Collapse
  BY <1>5, ExpandSound, CollapseSound
<1>6. CASE \E event \in {"pillClick", "toggleClick"} : Click(event)
  BY <1>6, ClickSound
<1>7. CASE JumpToNow(view) \/ (\E anchor \in {"beginning", "elsewhere"} : JumpBack(anchor)) \/ Refilter
  BY <1>7, JumpsSound
<1>8. QED
  BY <1>1, <1>2, <1>3, <1>4, <1>5, <1>6, <1>7 DEF Next

\* The second invariant holds in every state of every behaviour in which
\* the brokers list the offsets of every partition.
THEOREM SoundAlways == ASSUME ~FlakyListing PROVE Spec => []SoundInv
<1>1. TidyInv /\ SoundInv /\ [Next]_vars => SoundInv'
  BY NextSound
<1>2. QED
  BY <1>1, InitSound, TidyAlways, PTL DEF Spec

\* A row within the edges the properties speak of is inside of the window, and
\* above its top if it is beyond the one they speak of.
LEMMA EdgesAgree ==
    ASSUME TidyInv, SoundInv, history.origin # NoHeads, NEW r \in Rows
    PROVE  /\ Within(r) => Inside(view.window, history, r)
           /\ r[2] >= TopOf(r[1]) =>
                Inside(view.window, history, r) \/ ~UnderTop(view.window, history, r)
<1> DEFINE w == view.window
           p == r[1]
           rows == w.rows
<1>1. w \in Windows /\ history \in Histories /\ SoundWindow(w, ToSet(view.buffer), history, tail, tailFrom)
  BY TidyParts, SoundParts DEF Sound
<1>2. /\ p \in Partitions /\ r[2] \in Nat /\ history.origin[p] \in Nat
      /\ p \in DOMAIN w.bottom => w.bottom[p] \in Nat
      /\ p \in DOMAIN w.top => w.top[p] \in Nat
      /\ rows \subseteq Rows
  BY <1>1, RowFacts, PositionsFacts DEF Windows, Histories
<1>3. \A s \in rows : s[2] \in Nat /\ Inside(w, history, s)
  BY <1>1, <1>2, RowFacts DEF SoundWindow, RowsInside
<1>4. p \in PartitionsOf(rows) =>
        /\ \E s \in rows : s[1] = p /\ s[2] = Lowest(rows)[p]
        /\ \E s \in rows : s[1] = p /\ PastHighest(rows)[p] = s[2] + 1
  BY <1>2, LowestFacts, PastHighestFacts
<1>5. BottomOf(p) <= r[2] => AtLeastBottom(w, history, r)
  BY <1>2, <1>4 DEF BottomOf, AtLeastBottom
<1>6. r[2] < TopOf(p) => UnderTop(w, history, r)
  <2>1. CASE p \in DOMAIN w.top \/ p \notin PartitionsOf(rows)
    BY <2>1 DEF TopOf, UnderTop
  <2>2. CASE p \notin DOMAIN w.top /\ p \in PartitionsOf(rows)
    <3>1. PICK s \in rows : s[1] = p /\ PastHighest(rows)[p] = s[2] + 1
      BY <1>4, <2>2
    <3>2. s[2] \in Nat /\ s[2] < history.origin[p]
      BY <1>3, <2>2, <3>1 DEF Inside, UnderTop
    <3>3. r[2] < TopOf(p) => r[2] < s[2] + 1
      BY <2>2, <3>1 DEF TopOf
    <3>4. QED
      BY <1>2, <2>2, <3>2, <3>3 DEF UnderTop
  <2>3. QED
    BY <2>1, <2>2
<1>7. ASSUME r[2] >= TopOf(p), UnderTop(w, history, r)
      PROVE  Inside(w, history, r)
  <2>1. p \notin DOMAIN w.top /\ p \in PartitionsOf(rows)
    BY <1>2, <1>7 DEF TopOf, UnderTop
  <2>2. PICK s \in rows : s[1] = p /\ PastHighest(rows)[p] = s[2] + 1
    BY <1>4, <2>1
  <2>3. s[2] \in Nat /\ Inside(w, history, s) /\ s[2] <= r[2]
    BY <1>2, <1>3, <1>7, <2>1, <2>2 DEF TopOf
  <2>4. AtLeastBottom(w, history, r)
    BY <1>2, <2>2, <2>3 DEF Inside, AtLeastBottom
  <2>5. QED
    BY <1>7, <2>4 DEF Inside
<1>8. QED
  BY <1>5, <1>6, <1>7 DEF Within, Inside

\* The sets the invariant speaks of are those the properties speak of.
LEMMA AccountedIs ==
    /\ Accounted(view.window, ToSet(view.buffer), history, tailFrom)
         = Held \cup Unseen \cup history.dropped
    /\ ToCome(history, tail) = Awaited
    /\ \A r : Streamed(tail, r) <=> Delivered(r)
<1>1. NeverStreamed(history, tailFrom) = Unseen
  BY DEF NeverStreamed, Unseen
<1>2. QED
  BY <1>1 DEF Accounted, Held, ToCome, Awaited, Streamed, Delivered

\* While the brokers list every partition's offsets, no row inside the
\* window is missing from it: each is shown, is buffered, was dropped from
\* the full buffer, was never streamed, or is still to come on a lagging
\* stream (timelineStore.ts).
THEOREM ViewWindowIsWhole == ASSUME ~FlakyListing PROVE Spec => []WindowIsWhole
<1>1. TidyInv /\ SoundInv => WindowIsWhole
  <2> SUFFICES ASSUME TidyInv, SoundInv, history.origin # NoHeads, NEW r \in Rows, Within(r)
               PROVE  r \in Held \cup Unseen \cup history.dropped \cup Awaited
    BY DEF WindowIsWhole
  <2>1. Inside(view.window, history, r)
    BY EdgesAgree
  <2>2. WholeInside(view.window, ToSet(view.buffer), history, tail, tailFrom)
    BY SoundParts DEF Sound, SoundWindow
  <2>3. QED
    BY <2>1, <2>2, AccountedIs DEF WholeInside
<1>2. QED
  BY <1>1, TidyAlways, SoundAlways, PTL

\* While the brokers list every partition's offsets, whatever the live
\* stream delivered above the top edge of an attached window is in the
\* buffer, was dropped from the full buffer, or came before the stream of
\* its partition began: the page that attached the window and the stream
\* leave no gap between them (timelineStore.ts).
THEOREM ViewAttachedIsCaughtUp == ASSUME ~FlakyListing PROVE Spec => []AttachedIsCaughtUp
<1>1. TidyInv /\ SoundInv => AttachedIsCaughtUp
  <2> SUFFICES ASSUME TidyInv, SoundInv, view.window.attached,
                      NEW r \in Rows, r[2] >= TopOf(r[1]), Delivered(r)
               PROVE  r \in Held \cup Unseen \cup history.dropped
    BY DEF AttachedIsCaughtUp
  <2>1. history.origin # NoHeads
    BY TidyParts, EmptyWindowFacts DEF Tidy
  <2>2. Inside(view.window, history, r) \/ ~UnderTop(view.window, history, r)
    BY <2>1, EdgesAgree
  <2>3. /\ WholeInside(view.window, ToSet(view.buffer), history, tail, tailFrom)
        /\ AboveTop(view.window, ToSet(view.buffer), history, tail, tailFrom)
    BY <2>1, SoundParts DEF Sound, SoundWindow
  <2>4. Streamed(tail, r)
    BY AccountedIs
  <2>5. r \in Accounted(view.window, ToSet(view.buffer), history, tailFrom) \cup ToCome(history, tail)
    BY <2>2, <2>3, <2>4 DEF WholeInside, AboveTop
  <2>6. r \notin ToCome(history, tail)
    <3>1. r[1] \in Partitions /\ r[2] \in Nat /\ tail \in Tails
      BY RowFacts, TidyParts
    <3>2. tail[r[1]] \in Nat /\ r[2] < tail[r[1]]
      BY <2>4, <3>1 DEF Streamed, Tails
    <3>3. QED
      BY <3>1, <3>2 DEF ToCome
  <2>7. QED
    BY <2>5, <2>6, AccountedIs
<1>2. QED
  BY <1>1, TidyAlways, SoundAlways, PTL

=============================================================================
