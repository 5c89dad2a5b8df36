--------------------------- MODULE ClusterProofs ---------------------------
(***************************************************************************)
(* Proofs about the parts that answer for the cluster, its topics and its  *)
(* groups: the topic's page, a group's lag and its total, the calls that   *)
(* go to the native client, and what the pages say of a group; each for    *)
(* itself, and all of them for ClusterSpec, which the run checks.          *)
(***************************************************************************)
EXTENDS MCClusterViews, SharedHeadsProofs, FiniteSetTheorems, WellFoundedInduction

-----------------------------------------------------------------------------
(* The topic's page (TopicDetail).                                           *)

\* What the page shows was on offer when it was stored.
PageTypes ==
    page # NoPage =>
        page.ends \in [Partitions -> Offsets \cup {NoOffset}] /\ page.asOf \in 0 .. now

DInv == WInv /\ PageTypes /\ PageIsAsOldAsItSays

\* At first nothing is cached and there is no page.
LEMMA DetailInitInv == DetailInit => DInv
  BY HeadsInitInv DEF DetailInit, DInv, PageTypes, PageIsAsOldAsItSays

\* A reader of the watermarks changes neither the heads nor the page.
LEMMA ReaderInv ==
    ASSUME DInv, NEW r \in Askers, Reads(r), UNCHANGED page
    PROVE  DInv'
<1>1. WInv'
  BY ReadsInv DEF DInv
<1>2. UNCHANGED headVars
  BY DEF Reads, Ask, Ensure, ListHeads, InsertHeads, Fail, Use
<1>3. PageTypes' /\ PageIsAsOldAsItSays'
  BY <1>2 DEF DInv, PageTypes, PageIsAsOldAsItSays, HonestHead, headVars
<1>4. QED
  BY <1>1, <1>3 DEF DInv

\* A step of the page's flight alone.
LEMMA FlightInv ==
    ASSUME DInv, UNCHANGED <<headVars, cacheVars, ask, page>>
    PROVE  DInv'
<1>1. WInv'
  BY HeadsStutterInv DEF DInv
<1>2. PageTypes' /\ PageIsAsOldAsItSays'
  BY DEF DInv, PageTypes, PageIsAsOldAsItSays, HonestHead, headVars
<1>3. QED
  BY <1>1, <1>2 DEF DInv

\* The page takes over the age of the call that validated its heads.
LEMMA StorePageInv ==
    ASSUME DInv, NEW c \in Callers, StorePage(c)
    PROVE  DInv'
<1>1. c \in Askers
  BY TopicDetailAssumption
<1>2. /\ ask[c].heads \in [Partitions -> Offsets \cup {NoOffset}]
      /\ ask[c].asOf \in 0 .. now /\ now \in Nat
  BY <1>1 DEF DInv, WInv, WatermarksTypeOK, Times
<1>3. AsOf(c) = ask[c].asOf
  BY <1>2 DEF AsOf
<1>4. page'.ends = ask[c].heads /\ page'.asOf = ask[c].asOf
  BY <1>3 DEF StorePage
<1>5. UNCHANGED <<headVars, cacheVars>> /\ EndAsk(c)
  BY DEF StorePage, LeavePage
<1>6. WInv'
  BY <1>1, <1>5, EndAskInv DEF DInv
<1>7. \A p \in Partitions : HonestHead(p, ask[c].heads[p], ask[c].asOf)
  BY <1>1, HonestFromInv DEF DInv, HeadsAreHonest, StorePage
<1>8. PageTypes' /\ PageIsAsOldAsItSays'
  BY <1>2, <1>4, <1>5, <1>7 DEF PageTypes, PageIsAsOldAsItSays, HonestHead, headVars
<1>9. QED
  BY <1>6, <1>8 DEF DInv

\* A head only rises, so the page shows none that has not been reached.
LEMMA ProduceDetailInv ==
    ASSUME DInv, NEW q \in Partitions, Produce(q), UNCHANGED page
    PROVE  DInv'
<1>1. WInv'
  BY ProduceInv DEF DInv
<1>2. now' = now /\ headAt' = headAt /\ head' = [head EXCEPT ![q] = @ + 1]
  BY DEF Produce
<1>3. head \in [Partitions -> Nat]
  BY WatermarksAssumption DEF DInv, WInv, WatermarksTypeOK, Offsets
<1>4. ASSUME page # NoPage, NEW p \in Partitions, page.ends[p] # NoOffset
      PROVE  headAt[page.asOf][p] <= page.ends[p] /\ page.ends[p] <= head'[p]
  <2>1. headAt[page.asOf][p] <= page.ends[p] /\ page.ends[p] <= head[p]
    BY <1>4 DEF DInv, PageIsAsOldAsItSays, HonestHead
  <2>2. page.ends[p] \in Nat
    BY <1>4, WatermarksAssumption DEF DInv, PageTypes, Offsets
  <2>3. QED
    BY <2>1, <2>2, <1>2, <1>3
<1>5. PageTypes' /\ PageIsAsOldAsItSays'
  BY <1>2, <1>4 DEF DInv, PageTypes, PageIsAsOldAsItSays, HonestHead
<1>6. QED
  BY <1>1, <1>5 DEF DInv

\* What the heads were at a moment that has passed does not change.
LEMMA TickDetailInv ==
    ASSUME DInv, TickDetail
    PROVE  DInv'
<1>1. AdvanceClock /\ UNCHANGED <<head, cacheVars, ask, page>>
  BY DEF TickDetail
<1>2. WInv'
  BY <1>1, ClockInv DEF DInv
<1>3. now \in Nat /\ now' = now + 1
  BY <1>1, WatermarksAssumption DEF AdvanceClock, DInv, WInv, WatermarksTypeOK, Times
<1>4. \A t \in 0 .. now : headAt'[t] = headAt[t]
  BY <1>1, <1>3 DEF AdvanceClock
<1>5. PageTypes' /\ PageIsAsOldAsItSays'
  BY <1>1, <1>3, <1>4 DEF DInv, PageTypes, PageIsAsOldAsItSays, HonestHead
<1>6. QED
  BY <1>2, <1>5 DEF DInv

\* Every step keeps the page honest about its heads.
LEMMA DetailNextInv == DInv /\ [DetailNext]_detailVars => DInv'
<1> SUFFICES ASSUME DInv, [DetailNext]_detailVars PROVE DInv'
  OBVIOUS
<1>1. CASE UNCHANGED detailVars
  BY <1>1, FlightInv DEF detailVars
<1>2. ASSUME NEW c \in Callers,
             RequestPage(c) \/ BeginPage(c) \/ WakePage(c) \/ RereadPage(c)
      PROVE  DInv'
  BY <1>2, FlightInv DEF RequestPage, BeginPage, WakePage, RereadPage
<1>3. ASSUME NEW c \in Callers, AskPageHeads(c)
      PROVE  DInv'
  <2>1. c \in Askers /\ Ensure(c, Partitions, TtlOf[c]) /\ UNCHANGED page
    BY <1>3, TopicDetailAssumption DEF AskPageHeads
  <2>2. WInv'
    BY <2>1, EnsureInv DEF DInv
  <2>3. PageTypes' /\ PageIsAsOldAsItSays'
    BY <2>1 DEF Ensure, DInv, PageTypes, PageIsAsOldAsItSays, HonestHead, headVars
  <2>4. QED
    BY <2>2, <2>3 DEF DInv
<1>4. ASSUME NEW c \in Callers, PageFails(c) \/ StorePage(c)
      PROVE  DInv'
  <2>1. c \in Askers
    BY TopicDetailAssumption
  <2>2. CASE PageFails(c)
    <3>1. EndAsk(c) /\ UNCHANGED <<headVars, cacheVars, page>>
      BY <2>2 DEF PageFails, LeavePage
    <3>2. WInv'
      BY <2>1, <3>1, EndAskInv DEF DInv
    <3>3. PageTypes' /\ PageIsAsOldAsItSays'
      BY <3>1 DEF DInv, PageTypes, PageIsAsOldAsItSays, HonestHead, headVars
    <3>4. QED
      BY <3>2, <3>3 DEF DInv
  <2>3. CASE StorePage(c)
    BY <2>3, StorePageInv
  <2>4. QED
    BY <1>4, <2>2, <2>3
<1>5. ASSUME NEW c \in Callers, ListHeads(c) \/ InsertHeads(c), UNCHANGED page
      PROVE  DInv'
  <2>1. c \in Askers /\ Reads(c)
    BY <1>5, TopicDetailAssumption DEF Reads
  <2>2. QED
    BY <1>5, <2>1, ReaderInv
<1>6. ASSUME NEW r \in Askers \ Callers, Reads(r), UNCHANGED page
      PROVE  DInv'
  BY <1>6, ReaderInv
<1>7. ASSUME NEW p \in Partitions, Produce(p), UNCHANGED page
      PROVE  DInv'
  BY <1>7, ProduceDetailInv
<1>8. CASE TickDetail
  BY <1>8, TickDetailInv
<1>9. QED
  BY <1>1, <1>2, <1>3, <1>4, <1>5, <1>6, <1>7, <1>8 DEF DetailNext

\* The inductive invariant of the topic's page and the watermarks it shares.
THEOREM DetailInvariant == DetailSpec => []DInv
  BY DetailInitInv, DetailNextInv, PTL DEF DetailSpec

\* topic_detail: the page is no fresher than it says about any head it shows,
\* however its readers, their waits and the other pages interleave.
THEOREM PageIsAsOldAsItSaysHolds == DetailSpec => []PageIsAsOldAsItSays
<1>1. DInv => PageIsAsOldAsItSays
  BY DEF DInv
<1>2. QED
  BY <1>1, DetailInvariant, PTL

-----------------------------------------------------------------------------
(* Sums of lags.  A sum is the fold of the community modules, a recursive    *)
(* function on the subsets; what it computes follows by taking a smallest    *)
(* subset of which it would not hold.                                        *)

\* The partition the fold takes next, and one partition's lag.
Pick(s) == CHOOSE p \in s : TRUE

LagOf(offsets, heads, p) == IF heads[p] > offsets[p] THEN heads[p] - offsets[p] ELSE 0

\* The recursive function that sums the lags.
IsSum(f, known, offsets, heads) ==
    f = [s \in SUBSET known |->
           IF s = {} THEN 0 ELSE LagOf(offsets, heads, Pick(s)) + f[s \ {Pick(s)}]]

\* A set of natural numbers that is not empty has a least one.
LEMMA LeastNumber ==
    ASSUME NEW T, T \subseteq Nat, T # {}
    PROVE  \E x \in T : \A y \in T : x <= y
<1> DEFINE R == OpToRel(<, Nat)
<1>1. IsWellFoundedOn(R, Nat)
  BY NatLessThanWellFounded
<1> HIDE DEF R
<1>2. PICK x \in T : \A y \in T : ~ (<<y, x>> \in R)
  BY <1>1, WFMin
<1>3. \A y \in T : ~(y < x)
  BY <1>2 DEF R, OpToRel
<1>4. QED
  BY <1>3

\* The fold is that function's value.
LEMMA LagOverIs ==
    ASSUME NEW known, NEW offsets, NEW heads
    PROVE  LagOver(known, offsets, heads) = (CHOOSE f : IsSum(f, known, offsets, heads))[known]
  BY DEF LagOver, MapThenSumSet, MapThenFoldSet, IsSum, Pick, LagOf

\* A subset without the partition taken next is a smaller subset.
LEMMA PickFacts ==
    ASSUME NEW known, IsFiniteSet(known), NEW s \in SUBSET known
    PROVE  /\ Cardinality(s) \in Nat /\ Cardinality(s) <= Cardinality(known)
           /\ Cardinality(known) \in Nat
           /\ s # {} => /\ Pick(s) \in s
                        /\ s \ {Pick(s)} \in SUBSET known
                        /\ Cardinality(s \ {Pick(s)}) = Cardinality(s) - 1
<1>1. IsFiniteSet(s) /\ Cardinality(s) \in Nat /\ Cardinality(s) <= Cardinality(known) /\ Cardinality(known) \in Nat
  BY FS_Subset, FS_CardinalityType
<1>2. ASSUME s # {}
      PROVE  Pick(s) \in s
  BY <1>2 DEF Pick
<1>3. ASSUME s # {}
      PROVE  Cardinality(s \ {Pick(s)}) = Cardinality(s) - 1
  BY <1>1, <1>2, <1>3, FS_RemoveElement
<1>4. QED
  BY <1>1, <1>2, <1>3

\* There is such a function, on the subsets up to any size.
LEMMA SumExists ==
    ASSUME NEW known, IsFiniteSet(known), NEW offsets, NEW heads
    PROVE  \E f : IsSum(f, known, offsets, heads)
<1> DEFINE Small(n) == {s \in SUBSET known : Cardinality(s) <= n}
           Step(f, s) == IF s = {} THEN 0 ELSE LagOf(offsets, heads, Pick(s)) + f[s \ {Pick(s)}]
           Upto(n, f) == f = [s \in Small(n) |-> Step(f, s)]
           Bad == {n \in Nat : ~\E f : Upto(n, f)}
<1>1. \A s \in SUBSET known :
        /\ Cardinality(s) \in Nat /\ Cardinality(s) <= Cardinality(known)
        /\ s # {} => s \ {Pick(s)} \in SUBSET known /\ Cardinality(s \ {Pick(s)}) = Cardinality(s) - 1
  BY PickFacts
<1>2. Bad = {}
  <2>1. SUFFICES ASSUME Bad # {} PROVE FALSE
    OBVIOUS
  <2>2. PICK n \in Bad : \A m \in Bad : n <= m
    <3>1. Bad \subseteq Nat
      OBVIOUS
    <3> HIDE DEF Bad
    <3>2. QED
      BY <2>1, <3>1, LeastNumber
  <2>3. n \in Nat /\ ~\E f : Upto(n, f)
    OBVIOUS
  <2>4. CASE n = 0
    <3> DEFINE f == [s \in Small(n) |-> 0]
    <3>1. \A s \in Small(n) : s = {}
      <4>1. SUFFICES ASSUME NEW s \in Small(n), s # {} PROVE FALSE
        OBVIOUS
      <4>2. Cardinality(s \ {Pick(s)}) = Cardinality(s) - 1 /\ s \ {Pick(s)} \in SUBSET known
            /\ Cardinality(s) <= 0
        BY <4>1, <1>1, <2>4
      <4>3. Cardinality(s \ {Pick(s)}) \in Nat /\ Cardinality(s) \in Nat
        BY <4>1, <4>2, <1>1
      <4>4. QED
        BY <4>2, <4>3
    <3>2. \A s \in Small(n) : Step(f, s) = 0
      BY <3>1
    <3>3. f = [s \in Small(n) |-> Step(f, s)]
      BY <3>2, Zenon
    <3>4. QED
      BY <2>3, <3>3
  <2>5. CASE n # 0
    <3>1. n - 1 \in Nat /\ n - 1 \notin Bad
      <4>1. n - 1 \in Nat /\ ~(n <= n - 1)
        BY <2>3, <2>5
      <4> HIDE DEF Bad
      <4>2. QED
        BY <2>2, <4>1
    <3>2. PICK g : Upto(n - 1, g)
      BY <3>1
    <3> DEFINE f == [s \in Small(n) |-> Step(g, s)]
    <3>3. ASSUME NEW s \in Small(n)
          PROVE  Step(g, s) = Step(f, s)
      <4>1. CASE s = {}
        BY <4>1
      <4>2. CASE s # {}
        <5> DEFINE t == s \ {Pick(s)}
        <5>1. t \in SUBSET known /\ Cardinality(t) = Cardinality(s) - 1 /\ Cardinality(s) <= n /\ Cardinality(s) \in Nat
          BY <1>1, <3>3, <4>2
        <5>2. t \in Small(n - 1) /\ t \in Small(n)
          BY <5>1, <2>3
        <5>3. g[t] = Step(g, t) /\ f[t] = Step(g, t)
          <6> HIDE DEF t, Step, Small
          <6>1. QED
            BY <3>2, <5>2
        <5>4. QED
          BY <4>2, <5>3
      <4>3. QED
        BY <4>1, <4>2
    <3>4. f = [s \in Small(n) |-> Step(f, s)]
      <4> HIDE DEF Step, Small
      <4>1. QED
        BY <3>3
    <3>5. QED
      BY <2>3, <3>4
  <2>6. QED
    BY <2>4, <2>5
<1>3. Cardinality(known) \in Nat
  BY FS_CardinalityType
<1>4. PICK f : Upto(Cardinality(known), f)
  BY <1>2, <1>3
<1>5. Small(Cardinality(known)) = SUBSET known
  BY <1>1
<1>6. IsSum(f, known, offsets, heads)
  BY <1>4, <1>5 DEF IsSum
<1>7. QED
  BY <1>6

\* So the fold obeys the recursion.
LEMMA LagOverSum ==
    ASSUME NEW known, IsFiniteSet(known), NEW offsets, NEW heads
    PROVE  \E f : IsSum(f, known, offsets, heads) /\ LagOver(known, offsets, heads) = f[known]
<1>1. IsSum(CHOOSE f : IsSum(f, known, offsets, heads), known, offsets, heads)
  BY SumExists
<1>2. QED
  BY <1>1, LagOverIs

\* A sum of natural numbers is one, and is no greater than a sum of greater
\* ones.
LEMMA LagOverMonotone ==
    ASSUME NEW known, IsFiniteSet(known), NEW o, NEW h, NEW o2, NEW h2,
           \A p \in known : /\ LagOf(o, h, p) \in Nat /\ LagOf(o2, h2, p) \in Nat
                            /\ LagOf(o, h, p) <= LagOf(o2, h2, p)
    PROVE  /\ LagOver(known, o, h) \in Nat /\ LagOver(known, o2, h2) \in Nat
           /\ LagOver(known, o, h) <= LagOver(known, o2, h2)
<1>1. PICK f : IsSum(f, known, o, h) /\ LagOver(known, o, h) = f[known]
  BY LagOverSum
<1>2. PICK g : IsSum(g, known, o2, h2) /\ LagOver(known, o2, h2) = g[known]
  BY LagOverSum
<1> DEFINE Ok(s) == f[s] \in Nat /\ g[s] \in Nat /\ f[s] <= g[s]
           Bad == {n \in Nat : \E s \in SUBSET known : Cardinality(s) = n /\ ~Ok(s)}
<1>3. ASSUME NEW s \in SUBSET known
      PROVE  /\ f[s] = IF s = {} THEN 0 ELSE LagOf(o, h, Pick(s)) + f[s \ {Pick(s)}]
             /\ g[s] = IF s = {} THEN 0 ELSE LagOf(o2, h2, Pick(s)) + g[s \ {Pick(s)}]
  BY <1>1, <1>2 DEF IsSum
<1>4. Bad = {}
  <2>1. SUFFICES ASSUME Bad # {} PROVE FALSE
    OBVIOUS
  <2>2. PICK n \in Bad : \A m \in Bad : n <= m
    <3>1. Bad \subseteq Nat
      OBVIOUS
    <3> HIDE DEF Bad
    <3>2. QED
      BY <2>1, <3>1, LeastNumber
  <2>3. PICK s \in SUBSET known : Cardinality(s) = n /\ ~Ok(s)
    OBVIOUS
  <2>4. CASE s = {}
    <3>1. f[s] = 0 /\ g[s] = 0
      BY <2>4, <1>3
    <3>2. QED
      BY <2>3, <3>1
  <2>5. CASE s # {}
    <3> DEFINE t == s \ {Pick(s)}
    <3>1. Pick(s) \in s /\ t \in SUBSET known /\ Cardinality(t) = n - 1 /\ n \in Nat /\ Cardinality(t) \in Nat
      BY <2>3, <2>5, PickFacts
    <3>2. Ok(t)
      BY <2>2, <3>1
    <3>3. f[s] = LagOf(o, h, Pick(s)) + f[t] /\ g[s] = LagOf(o2, h2, Pick(s)) + g[t]
      BY <2>5, <1>3
    <3>4. /\ LagOf(o, h, Pick(s)) \in Nat /\ LagOf(o2, h2, Pick(s)) \in Nat
          /\ LagOf(o, h, Pick(s)) <= LagOf(o2, h2, Pick(s))
      BY <3>1
    <3> HIDE DEF t
    <3>5. Ok(s)
      BY <3>2, <3>3, <3>4
    <3>6. QED
      BY <2>3, <3>5
  <2>6. QED
    BY <2>4, <2>5
<1>5. Ok(known)
  BY <1>4, FS_CardinalityType
<1>6. QED
  BY <1>1, <1>2, <1>5

\* A lag is a natural number, and no less against higher heads.
LEMMA LagOfFacts ==
    /\ \A o \in Nat, h \in Nat : \A offsets, heads, p :
         offsets[p] = o /\ heads[p] = h => LagOf(offsets, heads, p) \in Nat
    /\ \A o \in Nat, h \in Nat, h2 \in Nat : \A offsets, offsets2, heads, heads2, p :
         /\ offsets[p] = o /\ offsets2[p] = o /\ heads[p] = h /\ heads2[p] = h2 /\ h <= h2
         => LagOf(offsets, heads, p) <= LagOf(offsets2, heads2, p)
  BY DEF LagOf

\* The lag of the same commits is no less against higher heads.
LEMMA LagRises ==
    ASSUME NEW offsets, NEW offsets2, NEW heads, NEW heads2, NEW known \in SUBSET Partitions,
           \A p \in known : /\ offsets[p] \in Nat /\ offsets2[p] = offsets[p]
                            /\ heads[p] \in Nat /\ heads2[p] \in Nat /\ heads[p] <= heads2[p]
    PROVE  /\ LagOver(known, offsets, heads) \in Nat /\ LagOver(known, offsets2, heads2) \in Nat
           /\ LagOver(known, offsets, heads) <= LagOver(known, offsets2, heads2)
<1>1. IsFiniteSet(known)
  BY GroupLagAssumption, FS_Subset
<1>2. \A p \in known : /\ LagOf(offsets, heads, p) \in Nat /\ LagOf(offsets2, heads2, p) \in Nat
                       /\ LagOf(offsets, heads, p) <= LagOf(offsets2, heads2, p)
  BY LagOfFacts
<1>3. QED
  BY <1>1, <1>2, LagOverMonotone

\* Where there are no partitions there is no lag.
LEMMA NoLag == \A offsets, heads : LagOver({}, offsets, heads) = 0
<1>1. SUFFICES ASSUME NEW offsets, NEW heads
               PROVE  LagOver({}, offsets, heads) = 0
  OBVIOUS
<1>2. IsFiniteSet({})
  BY FS_EmptySet
<1>3. PICK f : IsSum(f, {}, offsets, heads) /\ LagOver({}, offsets, heads) = f[{}]
  BY <1>2, LagOverSum
<1>4. QED
  BY <1>3 DEF IsSum

-----------------------------------------------------------------------------
(* A group's lag (GroupLag).                                                 *)

OptionalOffsets == [Partitions -> Offsets \cup {NoOffset}]

LagTypes ==
    /\ committed \in OptionalOffsets
    /\ commits \in [Callers -> OptionalOffsets]
    /\ truth \in [Callers -> Truths]
    /\ entry # NoEntry => entry.rows \in OptionalOffsets /\ entry.ends \in OptionalOffsets

\* A commit that was not ahead of its head when it was read is not ahead of a
\* head that is listed after it.
SamplesAreOrdered ==
    /\ \A c \in Callers : \A p \in Held(commits[c]) \ truth[c].ahead :
         /\ commits[c][p] <= head[p]
         /\ ask[c].heads[p] # NoOffset => commits[c][p] <= ask[c].heads[p]
    /\ \A c \in Callers : ask[c].step = "off" =>
         \A p \in Partitions : ask[c].heads[p] = NoOffset

LInv == WInv /\ LagTypes /\ SamplesAreOrdered /\ PairIsPossible

\* An offset is a natural number, or there is none.
LEMMA OffsetsAreIntegers ==
    /\ Offsets \subseteq Nat /\ NoOffset \notin Offsets
    /\ \A f \in OptionalOffsets, p \in Partitions : f[p] # NoOffset => f[p] \in Nat
  BY WatermarksAssumption DEF Offsets, OptionalOffsets

\* At first nothing has been read.
LEMMA LagInitInv == LagInit => LInv
<1> SUFFICES ASSUME LagInit PROVE LInv
  OBVIOUS
<1>1. WInv
  BY HeadsInitInv DEF LagInit
<1>2. LagTypes
  BY WatermarksAssumption DEF LagInit, LagTypes, OptionalOffsets, Offsets, NoCommits, Truths, NoTruth
<1>3. SamplesAreOrdered
  BY GroupLagAssumption, WatermarksAssumption
  DEF LagInit, WatermarksInit, SamplesAreOrdered, Held, NoCommits, NoAsk
<1>4. PairIsPossible
  BY DEF LagInit, PairIsPossible
<1>5. QED
  BY <1>1, <1>2, <1>3, <1>4 DEF LInv

\* A step that touches neither the heads nor what was read.
LEMMA QuietInv ==
    ASSUME LInv, UNCHANGED <<headVars, cacheVars, ask, groupVars, truth>>
    PROVE  LInv'
<1>1. WInv'
  BY HeadsStutterInv DEF LInv
<1>2. head' = head /\ ask' = ask /\ UNCHANGED <<committed, commits, entry, truth>>
  BY DEF headVars, groupVars
<1>3. LagTypes' /\ SamplesAreOrdered' /\ PairIsPossible'
  BY <1>2 DEF LInv, LagTypes, SamplesAreOrdered, PairIsPossible, Held
<1>4. QED
  BY <1>1, <1>3 DEF LInv

\* A sampler that leaves forgets what it read.
LEMMA LeaveInv ==
    ASSUME LInv, NEW c \in Callers, Leave(c), UNCHANGED <<headVars, cacheVars, committed>>,
           LagTypes', PairIsPossible'
    PROVE  LInv'
<1>1. c \in Askers
  BY GroupLagAssumption
<1>2. /\ EndAsk(c) /\ commits' = [commits EXCEPT ![c] = NoCommits]
      /\ truth' = [truth EXCEPT ![c] = NoTruth]
  BY DEF Leave
<1>3. WInv'
  BY <1>1, <1>2, EndAskInv DEF LInv
<1>4. /\ ask'[c] = NoAsk /\ commits'[c] = NoCommits
      /\ \A d \in Callers : d # c =>
           ask'[d] = ask[d] /\ commits'[d] = commits[d] /\ truth'[d] = truth[d]
  BY <1>1, <1>2, GroupLagAssumption DEF EndAsk, LInv, WInv, WatermarksTypeOK, LagTypes
<1>5. head' = head
  BY DEF headVars
<1>6. \A p \in Partitions : NoCommits[p] = NoOffset /\ NoAsk.heads[p] = NoOffset
  BY DEF NoCommits, NoAsk
<1>7. SamplesAreOrdered'
  BY <1>4, <1>5, <1>6 DEF LInv, SamplesAreOrdered, Held
<1>8. QED
  BY <1>3, <1>7 DEF LInv

\* The truth of a moment is one: the partitions are finitely many.
LEMMA TruthIsTyped ==
    ASSUME LInv, NEW read \in SUBSET Held(committed)
    PROVE  TruthOf(read) \in Truths
<1>1. \A p \in read : p \in Partitions /\ committed[p] \in Nat /\ head[p] \in Nat
  BY OffsetsAreIntegers, WatermarksAssumption
  DEF Held, LInv, LagTypes, WInv, WatermarksTypeOK, Offsets
<1>2. read \in SUBSET Partitions /\ Held(committed) \in SUBSET Partitions
  BY DEF Held
<1>3. LagOver(read, committed, head) \in Nat
  BY <1>1, <1>2, LagRises
<1>4. {p \in read : committed[p] > head[p]} \in SUBSET Partitions
  BY <1>2
<1>5. QED
  BY <1>2, <1>3, <1>4 DEF TruthOf, Truths

\* What a sampler reads, and what is true then.
LEMMA ReadCommitsFacts ==
    ASSUME LInv, NEW c \in Callers, ReadCommits(c)
    PROVE  \E read \in SUBSET Held(committed) :
             /\ commits'[c] \in OptionalOffsets /\ Held(commits'[c]) = read
             /\ \A p \in read : commits'[c][p] = committed[p]
             /\ truth'[c] = TruthOf(read) /\ TruthOf(read) \in Truths
             /\ \A d \in Callers : d # c => commits'[d] = commits[d] /\ truth'[d] = truth[d]
             /\ commits' \in [Callers -> OptionalOffsets] /\ truth' \in [Callers -> Truths]
<1>1. PICK read \in SUBSET Held(committed) :
        /\ commits' = [commits EXCEPT ![c] = [p \in Partitions |->
                         IF p \in read THEN committed[p] ELSE NoOffset]]
        /\ truth' = [truth EXCEPT ![c] = TruthOf(read)]
  BY DEF ReadCommits
<1> DEFINE kept == [p \in Partitions |-> IF p \in read THEN committed[p] ELSE NoOffset]
<1>2. TruthOf(read) \in Truths
  BY TruthIsTyped
<1>3. kept \in OptionalOffsets
  BY DEF LInv, LagTypes, OptionalOffsets
<1>4. Held(kept) = read /\ \A p \in read : kept[p] = committed[p]
  BY DEF Held
<1>5. commits' = [commits EXCEPT ![c] = kept]
  BY <1>1
<1> HIDE DEF kept
<1>6. /\ commits'[c] = kept /\ truth'[c] = TruthOf(read)
      /\ \A d \in Callers : d # c => commits'[d] = commits[d] /\ truth'[d] = truth[d]
      /\ commits' \in [Callers -> OptionalOffsets] /\ truth' \in [Callers -> Truths]
  BY <1>1, <1>2, <1>3, <1>5 DEF LInv, LagTypes
<1>7. QED
  BY <1>2, <1>3, <1>4, <1>6

\* What is read is ahead of the heads of that moment only where it is known to
\* be.
LEMMA ReadCommitsInv ==
    ASSUME LInv, NEW c \in Callers, ReadCommits(c)
    PROVE  LInv'
<1>1. /\ UNCHANGED <<headVars, cacheVars, ask>> /\ UNCHANGED <<committed, entry>>
      /\ ask[c].step = "off"
  BY DEF ReadCommits
<1>2. WInv'
  BY <1>1, HeadsStutterInv DEF LInv
<1>3. PICK read \in SUBSET Held(committed) :
             /\ commits'[c] \in OptionalOffsets /\ Held(commits'[c]) = read
             /\ \A p \in read : commits'[c][p] = committed[p]
             /\ truth'[c] = TruthOf(read)
             /\ \A d \in Callers : d # c => commits'[d] = commits[d] /\ truth'[d] = truth[d]
             /\ commits' \in [Callers -> OptionalOffsets] /\ truth' \in [Callers -> Truths]
  BY ReadCommitsFacts
<1>4. LagTypes' /\ PairIsPossible'
  BY <1>1, <1>3 DEF LInv, LagTypes, PairIsPossible, Held, headVars
<1>5. \A p \in Partitions : ask[c].heads[p] = NoOffset
  BY <1>1 DEF LInv, SamplesAreOrdered
<1>6. \A p \in read \ truth'[c].ahead : commits'[c][p] <= head[p]
  <2>1. \A p \in read : committed[p] \in Nat /\ head[p] \in Nat
    BY OffsetsAreIntegers, WatermarksAssumption
    DEF Held, LInv, LagTypes, WInv, WatermarksTypeOK, Offsets
  <2>2. truth'[c].ahead = {p \in read : committed[p] > head[p]}
    BY <1>3 DEF TruthOf
  <2>3. QED
    BY <1>3, <2>1, <2>2
<1>7. SamplesAreOrdered'
  <2>1. head' = head /\ ask' = ask
    BY <1>1 DEF headVars
  <2>2. ASSUME NEW d \in Callers, NEW p \in Held(commits'[d]) \ truth'[d].ahead
        PROVE  /\ commits'[d][p] <= head'[p]
               /\ ask'[d].heads[p] # NoOffset => commits'[d][p] <= ask'[d].heads[p]
    <3>1. CASE d = c
      <4>1. p \in read \ truth'[c].ahead /\ p \in Partitions
        BY <1>3, <2>2, <3>1 DEF Held
      <4>2. QED
        BY <1>5, <1>6, <2>1, <3>1, <4>1
    <3>2. CASE d # c
      BY <1>3, <2>1, <2>2, <3>2 DEF LInv, SamplesAreOrdered, Held
    <3>3. QED
      BY <3>1, <3>2
  <2>3. QED
    BY <2>1, <2>2 DEF LInv, SamplesAreOrdered, Held
<1>8. QED
  BY <1>2, <1>4, <1>7 DEF LInv

\* A sampler accepts no cached head.
LEMMA AskHeadsInv ==
    ASSUME LInv, NEW c \in Callers, AskHeads(c)
    PROVE  LInv'
<1>1. c \in Askers /\ Held(commits[c]) \in SUBSET Partitions
  BY GroupLagAssumption DEF Held
<1>2. Ensure(c, Held(commits[c]), 0) /\ UNCHANGED <<groupVars, truth>>
  BY DEF AskHeads, HeadsOf
<1>3. WInv'
  BY <1>1, <1>2, EnsureInv DEF LInv
<1>4. UNCHANGED <<headVars, cacheVars>> /\ UNCHANGED <<committed, commits, entry, truth>>
  BY <1>2 DEF Ensure, groupVars
<1>5. Usable(Held(commits[c]), 0) = {}
  BY DEF Usable
<1>6. /\ \A p \in Partitions : ask'[c].heads[p] = NoOffset
      /\ \A d \in Callers : d # c => ask'[d] = ask[d]
  BY <1>1, <1>2, <1>5, GroupLagAssumption DEF Ensure, LInv, WInv, WatermarksTypeOK
<1>7. LagTypes' /\ PairIsPossible'
  BY <1>4 DEF LInv, LagTypes, PairIsPossible, Held, headVars
<1>8. SamplesAreOrdered'
  BY <1>4, <1>6 DEF LInv, SamplesAreOrdered, Held, headVars
<1>9. QED
  BY <1>3, <1>7, <1>8 DEF LInv

\* The heads are listed after the commits, so they are not behind them.
LEMMA ListInv ==
    ASSUME LInv, NEW c \in Callers, List(c)
    PROVE  LInv'
<1>1. c \in Askers /\ ListHeads(c) /\ UNCHANGED <<committed, commits, entry, truth>>
  BY GroupLagAssumption DEF List, groupVars
<1>2. WInv'
  BY <1>1, ListHeadsInv DEF LInv
<1>3. head' = head
  BY <1>1 DEF ListHeads, headVars
<1>4. /\ ask'[c].step = "insert"
      /\ \A p \in Partitions : ask'[c].heads[p] \in {NoOffset, head[p], ask[c].heads[p]}
      /\ \A d \in Callers : d # c => ask'[d] = ask[d]
  BY <1>1, GroupLagAssumption DEF ListHeads, FailedHead, LInv, WInv, WatermarksTypeOK
<1>5. LagTypes' /\ PairIsPossible'
  BY <1>1, <1>3 DEF LInv, LagTypes, PairIsPossible, Held
<1>6. SamplesAreOrdered'
  <2>1. ASSUME NEW p \in Held(commits[c]) \ truth[c].ahead, ask'[c].heads[p] # NoOffset
        PROVE  commits[c][p] <= ask'[c].heads[p]
    BY <2>1, <1>4 DEF LInv, SamplesAreOrdered, Held
  <2>2. QED
    BY <2>1, <1>1, <1>3, <1>4 DEF LInv, SamplesAreOrdered, Held
<1>7. QED
  BY <1>2, <1>5, <1>6 DEF LInv

\* Entering the heads into the cache changes no answer.
LEMMA InsertInv ==
    ASSUME LInv, NEW c \in Callers, Insert(c)
    PROVE  LInv'
<1>1. c \in Askers /\ InsertHeads(c) /\ UNCHANGED <<committed, commits, entry, truth>>
  BY GroupLagAssumption DEF Insert, groupVars
<1>2. WInv'
  BY <1>1, InsertHeadsInv DEF LInv
<1>3. head' = head
  BY <1>1 DEF InsertHeads, headVars
<1>4. ask[c] \in [step : {"off", "list", "insert", "done"}, missing : SUBSET Partitions,
          heads : [Partitions -> Offsets \cup {NoOffset}],
          fetchedAt : 0 .. now, asOf : 0 .. now]
  BY <1>1 DEF LInv, WInv, WatermarksTypeOK
<1>5. /\ ask' = [ask EXCEPT ![c].step = "done", ![c].missing = {}, ![c].fetchedAt = 0]
  BY <1>1 DEF InsertHeads
<1>6. /\ ask'[c].step = "done" /\ ask'[c].heads = ask[c].heads
      /\ \A d \in Callers : d # c => ask'[d] = ask[d]
  BY <1>1, <1>4, <1>5, GroupLagAssumption DEF LInv, WInv, WatermarksTypeOK
<1>7. LagTypes' /\ PairIsPossible'
  BY <1>1, <1>3 DEF LInv, LagTypes, PairIsPossible, Held
<1>8. SamplesAreOrdered'
  BY <1>1, <1>3, <1>6 DEF LInv, SamplesAreOrdered, Held
<1>9. QED
  BY <1>2, <1>7, <1>8 DEF LInv

\* The pair that is stored: each row's end was listed after its commit.
LEMMA StorePairInv ==
    ASSUME LInv, NEW c \in Callers, StorePair(c)
    PROVE  LInv'
<1> DEFINE rows == {p \in Held(commits[c]) : ask[c].heads[p] # NoOffset}
<1>1. /\ entry'.rows = [p \in Partitions |-> IF p \in rows THEN commits[c][p] ELSE NoOffset]
      /\ entry'.ends = [p \in Partitions |-> IF p \in rows THEN ask[c].heads[p] ELSE NoOffset]
      /\ entry'.truth = truth[c]
      /\ Leave(c) /\ UNCHANGED <<headVars, cacheVars, committed>>
  BY DEF StorePair
<1>2. commits[c] \in OptionalOffsets /\ ask[c].heads \in OptionalOffsets
  BY GroupLagAssumption DEF LInv, LagTypes, WInv, WatermarksTypeOK, OptionalOffsets
<1>3. LagTypes'
  <2>1. /\ commits' = [commits EXCEPT ![c] = NoCommits] /\ NoCommits \in OptionalOffsets
        /\ truth' = [truth EXCEPT ![c] = NoTruth] /\ NoTruth \in Truths
    BY <1>1 DEF Leave, NoCommits, OptionalOffsets, NoTruth, Truths
  <2>2. entry'.rows \in OptionalOffsets /\ entry'.ends \in OptionalOffsets
    BY <1>1, <1>2 DEF OptionalOffsets
  <2>3. QED
    BY <2>1, <2>2, <1>1 DEF LInv, LagTypes
<1>4. PairIsPossible'
  <2>1. ASSUME NEW p \in Partitions, entry'.rows[p] # NoOffset
        PROVE  /\ p \in rows /\ entry'.rows[p] = commits[c][p]
               /\ entry'.ends[p] = ask[c].heads[p]
    BY <2>1, <1>1
  <2>2. \A p \in rows : /\ ask[c].heads[p] # NoOffset
                        /\ p \notin truth[c].ahead => commits[c][p] <= ask[c].heads[p]
                        /\ ask[c].heads[p] <= head[p]
    <3>1. ASSUME NEW p \in rows
          PROVE  /\ p \in Held(commits[c]) /\ p \in Partitions
                 /\ ask[c].heads[p] # NoOffset /\ c \in Askers
      BY GroupLagAssumption DEF Held
    <3>2. QED
      BY <3>1 DEF LInv, SamplesAreOrdered, WInv, AsksAreHonest, HonestHead
  <2>3. head' = head
    BY <1>1 DEF headVars
  <2>4. ASSUME NEW p \in Partitions, entry'.rows[p] # NoOffset
        PROVE  /\ entry'.ends[p] # NoOffset /\ entry'.ends[p] <= head'[p]
               /\ entry'.rows[p] > entry'.ends[p] => p \in entry'.truth.ahead
    <3>1. /\ p \in rows /\ entry'.rows[p] = commits[c][p] /\ entry'.ends[p] = ask[c].heads[p]
      BY <2>1, <2>4
    <3>2. commits[c][p] \in Nat /\ ask[c].heads[p] \in Nat
      BY <1>2, <2>2, <2>4, <3>1, OffsetsAreIntegers DEF Held
    <3>3. entry'.truth.ahead = truth[c].ahead
      BY <1>1
    <3> HIDE DEF rows
    <3>4. ask[c].heads[p] # NoOffset /\ ask[c].heads[p] <= head'[p]
      BY <2>2, <2>3, <3>1
    <3>5. p \notin truth[c].ahead => commits[c][p] <= ask[c].heads[p]
      BY <2>2, <3>1
    <3>6. QED
      BY <3>1, <3>2, <3>3, <3>4, <3>5
  <2>5. QED
    BY <2>4 DEF PairIsPossible, Held
<1>5. QED
  BY <1>1, <1>3, <1>4, LeaveInv

\* A group without commits has no rows.
LEMMA ReadNothingInv ==
    ASSUME LInv, NEW c \in Callers, ReadNothing(c)
    PROVE  LInv'
<1>1. /\ entry'.rows = NoCommits /\ entry'.ends = NoCommits
      /\ Leave(c) /\ UNCHANGED <<headVars, cacheVars, committed>>
  BY DEF ReadNothing
<1>2. NoCommits \in OptionalOffsets /\ Held(NoCommits) = {} /\ NoTruth \in Truths
  BY DEF NoCommits, OptionalOffsets, Held, NoTruth, Truths
<1>3. LagTypes'
  BY <1>1, <1>2 DEF Leave, LInv, LagTypes
<1>4. PairIsPossible'
  BY <1>1, <1>2 DEF PairIsPossible
<1>5. QED
  BY <1>1, <1>3, <1>4, LeaveInv

\* A sampler that fails stores nothing.
LEMMA SampleFailsInv ==
    ASSUME LInv, NEW c \in Callers, SampleFails(c)
    PROVE  LInv'
<1>1. Leave(c) /\ UNCHANGED <<headVars, cacheVars, committed>> /\ entry' = entry
  BY DEF SampleFails
<1>2. NoCommits \in OptionalOffsets /\ NoTruth \in Truths
  BY DEF NoCommits, OptionalOffsets, NoTruth, Truths
<1>3. LagTypes'
  BY <1>1, <1>2 DEF Leave, LInv, LagTypes
<1>4. PairIsPossible'
  BY <1>1 DEF LInv, PairIsPossible, headVars
<1>5. QED
  BY <1>1, <1>3, <1>4, LeaveInv

\* Wherever the group is moved, no sample changes.
LEMMA CommitInv ==
    ASSUME LInv, NEW q \in Partitions, Commit(q)
    PROVE  LInv'
<1>1. PICK offset \in Offsets : committed' = [committed EXCEPT ![q] = offset]
  BY DEF Commit
<1>2. UNCHANGED <<headVars, cacheVars, ask>> /\ UNCHANGED <<commits, entry, truth>>
  BY DEF Commit
<1>3. WInv'
  BY <1>2, HeadsStutterInv DEF LInv
<1>4. LagTypes' /\ PairIsPossible' /\ SamplesAreOrdered'
  BY <1>1, <1>2
  DEF LInv, LagTypes, PairIsPossible, SamplesAreOrdered, Held, OptionalOffsets, headVars
<1>5. QED
  BY <1>3, <1>4 DEF LInv

\* The heads only rise.
LEMMA AppendInv ==
    ASSUME LInv, NEW q \in Partitions, Append(q)
    PROVE  LInv'
<1>1. Produce(q) /\ UNCHANGED <<committed, commits, entry, truth>>
  BY DEF Append, groupVars
<1>2. WInv'
  BY <1>1, ProduceInv DEF LInv
<1>3. ask' = ask
  BY <1>1 DEF Produce
<1>4. \A p \in Partitions : head[p] \in Nat /\ head'[p] \in Nat /\ head[p] <= head'[p]
  BY <1>1, WatermarksAssumption DEF Produce, LInv, WInv, WatermarksTypeOK, Offsets
<1>5. LagTypes'
  BY <1>1 DEF LInv, LagTypes
<1>6. PairIsPossible'
  <2>1. ASSUME entry # NoEntry, NEW p \in Held(entry.rows)
        PROVE  /\ entry.ends[p] # NoOffset /\ entry.ends[p] <= head'[p]
               /\ entry.rows[p] > entry.ends[p] => p \in entry.truth.ahead
    <3>1. /\ p \in Partitions /\ entry.ends[p] # NoOffset /\ entry.ends[p] <= head[p]
          /\ entry.rows[p] > entry.ends[p] => p \in entry.truth.ahead
      BY <2>1 DEF LInv, PairIsPossible, Held
    <3>2. entry.ends[p] \in Nat
      BY <2>1, <3>1, OffsetsAreIntegers DEF LInv, LagTypes
    <3>3. QED
      BY <3>1, <3>2, <1>4
  <2>2. entry' = entry
    BY <1>1
  <2>3. Held(entry.rows)' = Held(entry.rows)
    BY <2>2 DEF Held
  <2>4. QED
    BY <2>1, <2>2, <2>3 DEF PairIsPossible
<1>7. SamplesAreOrdered'
  <2>1. ASSUME NEW c \in Callers, NEW p \in Held(commits[c]) \ truth[c].ahead
        PROVE  commits[c][p] <= head'[p]
    <3>1. p \in Partitions /\ commits[c][p] <= head[p] /\ commits[c][p] # NoOffset
      BY DEF Held, LInv, SamplesAreOrdered
    <3>2. commits[c][p] \in Nat
      BY <3>1, OffsetsAreIntegers DEF LInv, LagTypes
    <3>3. QED
      BY <3>1, <3>2, <1>4
  <2>2. QED
    BY <2>1, <1>1, <1>3 DEF LInv, SamplesAreOrdered, Held
<1>8. QED
  BY <1>2, <1>5, <1>6, <1>7 DEF LInv

\* Time passes.
LEMMA TickInv ==
    ASSUME LInv, TickLag
    PROVE  LInv'
<1>1. AdvanceClock /\ UNCHANGED <<head, cacheVars, ask>> /\ UNCHANGED <<committed, commits, entry, truth>>
  BY DEF TickLag, groupVars
<1>2. WInv'
  BY <1>1, ClockInv DEF LInv
<1>3. LagTypes' /\ SamplesAreOrdered' /\ PairIsPossible'
  BY <1>1 DEF LInv, LagTypes, SamplesAreOrdered, PairIsPossible, Held
<1>4. QED
  BY <1>2, <1>3 DEF LInv

\* Another view may fill the shared watermarks; no sampler takes a head from
\* there.
LEMMA OtherViewInv ==
    ASSUME LInv, NEW r \in Askers \ Callers, Reads(r), UNCHANGED <<groupVars, truth>>
    PROVE  LInv'
<1>1. WInv'
  BY ReadsInv DEF LInv
<1>2. head' = head /\ UNCHANGED <<committed, commits, entry, truth>>
  BY DEF Reads, Ask, Ensure, ListHeads, InsertHeads, Fail, Use, headVars, groupVars
<1>3. \A c \in Callers : ask'[c] = ask[c]
  BY GroupLagAssumption
  DEF Reads, Ask, Ensure, ListHeads, InsertHeads, Fail, Use, EndAsk, LInv, WInv, WatermarksTypeOK
<1>4. LagTypes' /\ SamplesAreOrdered' /\ PairIsPossible'
  BY <1>2, <1>3 DEF LInv, LagTypes, SamplesAreOrdered, PairIsPossible, Held
<1>5. QED
  BY <1>1, <1>4 DEF LInv

\* Every step keeps the samples in order.
LEMMA LagNextInv == LInv /\ [LagNext]_lagVars => LInv'
<1> SUFFICES ASSUME LInv, [LagNext]_lagVars PROVE LInv'
  OBVIOUS
<1>1. CASE UNCHANGED lagVars
  BY <1>1, QuietInv DEF lagVars
<1>2. ASSUME NEW c \in Callers,
             RequestLag(c) \/ BeginFlight(c) \/ WakeUp(c) \/ Reread(c)
      PROVE  LInv'
  BY <1>2, QuietInv DEF RequestLag, BeginFlight, WakeUp, Reread
<1>3. ASSUME NEW c \in Callers, ReadCommits(c) \/ ReadNothing(c) \/ SampleFails(c)
      PROVE  LInv'
  BY <1>3, ReadCommitsInv, ReadNothingInv, SampleFailsInv
<1>4. ASSUME NEW c \in Callers, AskHeads(c) \/ List(c) \/ Insert(c) \/ StorePair(c)
      PROVE  LInv'
  BY <1>4, AskHeadsInv, ListInv, InsertInv, StorePairInv
<1>5. ASSUME NEW p \in Partitions, Commit(p) \/ Append(p)
      PROVE  LInv'
  BY <1>5, CommitInv, AppendInv
<1>6. CASE TickLag
  BY <1>6, TickInv
<1>7. ASSUME NEW r \in Askers \ Callers, Reads(r), UNCHANGED <<groupVars, truth>>
      PROVE  LInv'
  BY <1>7, OtherViewInv
<1>8. QED
  BY <1>1, <1>2, <1>3, <1>4, <1>5, <1>6, <1>7 DEF LagNext

\* The inductive invariant of the samplers.
THEOREM LagInvariant == LagSpec => []LInv
  BY LagInitInv, LagNextInv, PTL DEF LagSpec

\* sample_group_lag: a stored row shows a commit beyond its end only if it was
\* beyond it when it was read, and no end beyond the head.
THEOREM PairIsPossibleHolds == LagSpec => []PairIsPossible
<1>1. LInv => PairIsPossible
  BY DEF LInv
<1>2. QED
  BY <1>1, LagInvariant, PTL

\* The samplers leave the shared watermarks honest for everybody else.
THEOREM LagHeadsAreHonest == LagSpec => []HeadsAreHonest
<1>1. LInv => HeadsAreHonest
  BY HonestFromInv DEF LInv
<1>2. QED
  BY <1>1, LagInvariant, PTL

-----------------------------------------------------------------------------
(* No total is less than the lag was (LagNotUnderstated).                    *)

\* What a sampler has read is no less than the lag it remembers: against the
\* heads as they are, and against those it listed, unless one is missing.
TotalsHold ==
    /\ truth \in [Callers -> Truths]
    /\ \A c \in Callers :
         /\ truth[c].lag <= LagOver(Held(commits[c]), commits[c], head)
         /\ ask[c].step \in {"off", "list"} => \A p \in Partitions : ask[c].heads[p] = NoOffset
         /\ /\ ask[c].step \in {"insert", "done"}
            /\ \A p \in Held(commits[c]) : ask[c].heads[p] # NoOffset
            => truth[c].lag <= LagOver(Held(commits[c]), commits[c], ask[c].heads)

UInv == TotalsHold /\ LagNotUnderstated

\* The commits a sampler holds, and the heads, are natural numbers.
LEMMA HeldNumbers ==
    ASSUME LInv
    PROVE  /\ \A p \in Partitions : head[p] \in Nat
           /\ \A p \in Held(committed) : committed[p] \in Nat
           /\ \A c \in Callers :
                /\ Held(commits[c]) \subseteq Partitions
                /\ \A p \in Held(commits[c]) : commits[c][p] \in Nat
                /\ \A p \in Partitions : ask[c].heads[p] # NoOffset => ask[c].heads[p] \in Nat
<1>1. \A p \in Partitions : head[p] \in Nat
  BY WatermarksAssumption DEF LInv, WInv, WatermarksTypeOK, Offsets
<1>2. committed \in OptionalOffsets /\ \A c \in Callers : commits[c] \in OptionalOffsets
      /\ ask[c].heads \in OptionalOffsets
  BY GroupLagAssumption DEF LInv, LagTypes, WInv, WatermarksTypeOK, OptionalOffsets
<1>3. QED
  BY <1>1, <1>2, OffsetsAreIntegers DEF Held

\* At first every lag is zero.
LEMMA TotalsInit == LagInit => UInv
<1> SUFFICES ASSUME LagInit PROVE UInv
  OBVIOUS
<1>1. /\ commits = [c \in Callers |-> NoCommits] /\ truth = [c \in Callers |-> NoTruth]
      /\ entry = NoEntry /\ ask = [r \in Askers |-> NoAsk]
  BY DEF LagInit, WatermarksInit
<1>2. Held(NoCommits) = {} /\ \A c \in Callers : commits[c] = NoCommits /\ truth[c].lag = 0 /\ ask[c] = NoAsk
  BY <1>1, GroupLagAssumption DEF Held, NoCommits, NoTruth
<1>3. \A heads : 0 <= LagOver({}, NoCommits, heads)
  BY NoLag
<1>4. TotalsHold
  <2>1. truth \in [Callers -> Truths]
    BY <1>1 DEF Truths, NoTruth
  <2>2. ASSUME NEW c \in Callers
        PROVE  /\ truth[c].lag <= LagOver(Held(commits[c]), commits[c], head)
               /\ ask[c].step = "off" /\ \A p \in Partitions : ask[c].heads[p] = NoOffset
    BY <1>2, <1>3 DEF NoAsk
  <2>3. QED
    BY <2>1, <2>2 DEF TotalsHold
<1>5. QED
  BY <1>1, <1>4 DEF UInv, LagNotUnderstated

\* A step of anyone but a sampler, or of a sampler in its flight: heads only
\* rise.
LEMMA TotalsQuiet ==
    ASSUME LInv, UInv, UNCHANGED <<commits, truth, entry>>,
           \A c \in Callers : ask'[c] = ask[c],
           \A p \in Partitions : head'[p] \in Nat /\ head[p] <= head'[p]
    PROVE  UInv'
<1>1. ASSUME NEW c \in Callers
      PROVE  /\ LagOver(Held(commits[c]), commits[c], head) \in Nat
             /\ LagOver(Held(commits[c]), commits[c], head') \in Nat
             /\ LagOver(Held(commits[c]), commits[c], head) <= LagOver(Held(commits[c]), commits[c], head')
  BY HeldNumbers, LagRises
<1>2. ASSUME NEW c \in Callers
      PROVE  truth[c].lag <= LagOver(Held(commits[c]), commits[c], head')
  BY <1>1 DEF UInv, TotalsHold, Truths
<1>3. \A c \in Callers : Held(commits[c])' = Held(commits[c]) /\ truth'[c] = truth[c]
        /\ commits'[c] = commits[c]
  BY DEF Held
<1>4. TotalsHold'
  <2>1. ASSUME NEW c \in Callers
        PROVE  truth'[c].lag <= LagOver(Held(commits'[c]), commits'[c], head')
    BY <1>2
  <2>2. ASSUME NEW c \in Callers
        PROVE  /\ ask'[c].step \in {"off", "list"} => \A p \in Partitions : ask'[c].heads[p] = NoOffset
               /\ /\ ask'[c].step \in {"insert", "done"}
                  /\ \A p \in Held(commits'[c]) : ask'[c].heads[p] # NoOffset
                  => truth'[c].lag <= LagOver(Held(commits'[c]), commits'[c], ask'[c].heads)
    BY DEF UInv, TotalsHold
  <2>3. QED
    BY <2>1, <2>2 DEF UInv, TotalsHold
<1>5. LagNotUnderstated'
  BY DEF UInv, LagNotUnderstated
<1>6. QED
  BY <1>4, <1>5 DEF UInv

\* A sampler that leaves has nothing to remember.
LEMMA TotalsLeave ==
    ASSUME LInv, UInv, NEW c \in Callers, Leave(c), head' = head, LagNotUnderstated'
    PROVE  UInv'
<1>1. /\ commits' = [commits EXCEPT ![c] = NoCommits] /\ truth' = [truth EXCEPT ![c] = NoTruth]
      /\ EndAsk(c)
  BY DEF Leave
<1>2. /\ commits'[c] = NoCommits /\ truth'[c].lag = 0 /\ ask'[c] = NoAsk
      /\ \A d \in Callers : d # c => commits'[d] = commits[d] /\ truth'[d] = truth[d] /\ ask'[d] = ask[d]
      /\ truth' \in [Callers -> Truths]
  BY <1>1, GroupLagAssumption
  DEF EndAsk, LInv, LagTypes, WInv, WatermarksTypeOK, UInv, TotalsHold, NoTruth, Truths
<1>3. Held(NoCommits) = {} /\ \A heads : 0 <= LagOver({}, NoCommits, heads)
  BY NoLag DEF Held, NoCommits
<1>4. ASSUME NEW d \in Callers
      PROVE  /\ truth'[d].lag <= LagOver(Held(commits'[d]), commits'[d], head')
             /\ ask'[d].step \in {"off", "list"} => \A p \in Partitions : ask'[d].heads[p] = NoOffset
             /\ /\ ask'[d].step \in {"insert", "done"}
                /\ \A p \in Held(commits'[d]) : ask'[d].heads[p] # NoOffset
                => truth'[d].lag <= LagOver(Held(commits'[d]), commits'[d], ask'[d].heads)
  <2>1. CASE d = c
    <3>1. ask'[c].step = "off" /\ \A p \in Partitions : ask'[c].heads[p] = NoOffset
      BY <1>2 DEF NoAsk
    <3>2. truth'[c].lag <= LagOver(Held(commits'[c]), commits'[c], head')
      BY <1>2, <1>3
    <3>3. QED
      BY <2>1, <3>1, <3>2
  <2>2. CASE d # c
    BY <1>2, <2>2 DEF UInv, TotalsHold
  <2>3. QED
    BY <2>1, <2>2
<1>5. TotalsHold'
  BY <1>2, <1>4 DEF TotalsHold
<1>6. QED
  BY <1>5 DEF UInv

\* The lag at the moment the commits are read is remembered as it is.
LEMMA TotalsReadCommits ==
    ASSUME LInv, UInv, NEW c \in Callers, ReadCommits(c)
    PROVE  UInv'
<1>1. ask[c].step = "off" /\ UNCHANGED <<headVars, ask, entry>>
  BY DEF ReadCommits
<1>2. PICK read \in SUBSET Held(committed) :
        /\ Held(commits'[c]) = read /\ \A p \in read : commits'[c][p] = committed[p]
        /\ truth'[c] = TruthOf(read)
        /\ \A d \in Callers : d # c => commits'[d] = commits[d] /\ truth'[d] = truth[d]
        /\ truth' \in [Callers -> Truths]
  BY ReadCommitsFacts
<1>3. ask' = ask /\ head' = head
  BY <1>1 DEF headVars
<1>4. ASSUME NEW d \in Callers
      PROVE  /\ truth'[d].lag <= LagOver(Held(commits'[d]), commits'[d], head')
             /\ ask'[d].step \in {"off", "list"} => \A p \in Partitions : ask'[d].heads[p] = NoOffset
             /\ /\ ask'[d].step \in {"insert", "done"}
                /\ \A p \in Held(commits'[d]) : ask'[d].heads[p] # NoOffset
                => truth'[d].lag <= LagOver(Held(commits'[d]), commits'[d], ask'[d].heads)
  <2>1. CASE d = c
    <3> DEFINE read2 == commits'[c]
    <3>1. \A p \in read : /\ p \in Partitions /\ committed[p] \in Nat /\ head[p] \in Nat
                           /\ read2[p] = committed[p]
      BY <1>2, HeldNumbers DEF Held
    <3>2. read \in SUBSET Partitions /\ truth'[c].lag = LagOver(read, committed, head)
      BY <1>2 DEF Held, TruthOf
    <3> HIDE DEF read2
    <3>3. /\ LagOver(read, committed, head) \in Nat /\ LagOver(read, read2, head) \in Nat
          /\ LagOver(read, committed, head) <= LagOver(read, read2, head)
      BY <3>1, <3>2, LagRises
    <3>4. truth'[c].lag <= LagOver(Held(commits'[c]), commits'[c], head')
      BY <1>2, <1>3, <3>2, <3>3 DEF read2
    <3>5. QED
      BY <1>1, <1>3, <2>1, <3>4 DEF UInv, TotalsHold
  <2>2. CASE d # c
    BY <1>2, <1>3, <2>2 DEF UInv, TotalsHold
  <2>3. QED
    BY <2>1, <2>2
<1>5. TotalsHold'
  BY <1>2, <1>4 DEF TotalsHold
<1>6. LagNotUnderstated'
  BY <1>1 DEF UInv, LagNotUnderstated
<1>7. QED
  BY <1>5, <1>6 DEF UInv

\* A sampler's question and its answer change no other's.
LEMMA TotalsAsk ==
    ASSUME LInv, UInv, NEW c \in Callers, UNCHANGED <<head, commits, truth, entry>>,
           \A d \in Callers : d # c => ask'[d] = ask[d],
           ask'[c].step \in {"off", "list"} => \A p \in Partitions : ask'[c].heads[p] = NoOffset,
           /\ ask'[c].step \in {"insert", "done"}
           /\ \A p \in Held(commits[c]) : ask'[c].heads[p] # NoOffset
           => truth[c].lag <= LagOver(Held(commits[c]), commits[c], ask'[c].heads)
    PROVE  UInv'
<1>1. ASSUME NEW d \in Callers
      PROVE  /\ truth'[d].lag <= LagOver(Held(commits'[d]), commits'[d], head')
             /\ ask'[d].step \in {"off", "list"} => \A p \in Partitions : ask'[d].heads[p] = NoOffset
             /\ /\ ask'[d].step \in {"insert", "done"}
                /\ \A p \in Held(commits'[d]) : ask'[d].heads[p] # NoOffset
                => truth'[d].lag <= LagOver(Held(commits'[d]), commits'[d], ask'[d].heads)
  <2>1. CASE d = c
    BY <2>1 DEF UInv, TotalsHold
  <2>2. CASE d # c
    BY <2>2 DEF UInv, TotalsHold
  <2>3. QED
    BY <2>1, <2>2
<1>2. TotalsHold'
  BY <1>1 DEF UInv, TotalsHold
<1>3. LagNotUnderstated'
  BY DEF UInv, LagNotUnderstated
<1>4. QED
  BY <1>2, <1>3 DEF UInv

\* A call of ensure that accepts no age takes nothing from the cache.
LEMMA TotalsAskHeads ==
    ASSUME LInv, UInv, NEW c \in Callers, AskHeads(c)
    PROVE  UInv'
<1>1. c \in Askers /\ Held(commits[c]) \in SUBSET Partitions
  BY GroupLagAssumption DEF Held
<1>2. Ensure(c, Held(commits[c]), 0) /\ UNCHANGED <<head, commits, truth, entry>> /\ Held(commits[c]) # {}
  BY DEF AskHeads, HeadsOf, groupVars, Ensure, headVars
<1>3. Usable(Held(commits[c]), 0) = {}
  BY DEF Usable
<1>4. /\ \A p \in Partitions : ask'[c].heads[p] = NoOffset
      /\ ask'[c].step = "list"
      /\ \A d \in Callers : d # c => ask'[d] = ask[d]
  BY <1>1, <1>2, <1>3, GroupLagAssumption DEF Ensure, LInv, WInv, WatermarksTypeOK
<1>5. QED
  BY <1>2, <1>4, TotalsAsk

\* The heads it lists are those of the moment, unless they are missing.
LEMMA TotalsList ==
    ASSUME LInv, UInv, NEW c \in Callers, List(c)
    PROVE  UInv'
<1>1. ListHeads(c) /\ UNCHANGED <<head, commits, truth, entry>> /\ c \in Askers
  BY GroupLagAssumption DEF List, groupVars, ListHeads, headVars
<1>2. /\ ask[c].step = "list" /\ ask'[c].step = "insert"
      /\ \A p \in Partitions : ask'[c].heads[p] \in {NoOffset, head[p], ask[c].heads[p]}
      /\ \A d \in Callers : d # c => ask'[d] = ask[d]
  BY <1>1, GroupLagAssumption DEF ListHeads, FailedHead, LInv, WInv, WatermarksTypeOK
<1>3. \A p \in Partitions : ask'[c].heads[p] \in {NoOffset, head[p]}
  BY <1>2 DEF UInv, TotalsHold
<1>4. ASSUME \A p \in Held(commits[c]) : ask'[c].heads[p] # NoOffset
      PROVE  truth[c].lag <= LagOver(Held(commits[c]), commits[c], ask'[c].heads)
  <2>1. \A p \in Held(commits[c]) : p \in Partitions /\ ask'[c].heads[p] = head[p]
    BY <1>3, <1>4 DEF Held
  <2> DEFINE heads == ask'[c].heads
  <2>2. \A p \in Held(commits[c]) : p \in Partitions /\ heads[p] = head[p]
    BY <2>1
  <2> HIDE DEF heads
  <2>3. /\ LagOver(Held(commits[c]), commits[c], head) \in Nat
        /\ LagOver(Held(commits[c]), commits[c], heads) \in Nat
        /\ LagOver(Held(commits[c]), commits[c], head) <= LagOver(Held(commits[c]), commits[c], heads)
    BY <2>2, HeldNumbers, LagRises
  <2>4. truth[c].lag <= LagOver(Held(commits[c]), commits[c], head) /\ truth[c].lag \in Nat
    BY DEF UInv, TotalsHold, Truths
  <2>5. QED
    BY <2>3, <2>4 DEF heads
<1>5. QED
  BY <1>1, <1>2, <1>4, TotalsAsk

\* Entering the heads changes no total.
LEMMA TotalsInsert ==
    ASSUME LInv, UInv, NEW c \in Callers, Insert(c)
    PROVE  UInv'
<1>1. InsertHeads(c) /\ UNCHANGED <<head, commits, truth, entry>> /\ c \in Askers
  BY GroupLagAssumption DEF Insert, groupVars, InsertHeads, headVars
<1>2. /\ ask[c] \in [step : {"off", "list", "insert", "done"}, missing : SUBSET Partitions,
                     heads : [Partitions -> Offsets \cup {NoOffset}],
                     fetchedAt : 0 .. now, asOf : 0 .. now]
      /\ ask[c].step = "insert"
      /\ ask' = [ask EXCEPT ![c].step = "done", ![c].missing = {}, ![c].fetchedAt = 0]
  BY <1>1 DEF InsertHeads, LInv, WInv, WatermarksTypeOK
<1>3. /\ ask'[c].step = "done" /\ ask'[c].heads = ask[c].heads
      /\ \A d \in Callers : d # c => ask'[d] = ask[d]
  BY <1>1, <1>2, GroupLagAssumption DEF LInv, WInv, WatermarksTypeOK
<1>4. /\ \A p \in Held(commits[c]) : ask'[c].heads[p] # NoOffset
      => truth[c].lag <= LagOver(Held(commits[c]), commits[c], ask'[c].heads)
  BY <1>2, <1>3 DEF UInv, TotalsHold
<1>5. QED
  BY <1>1, <1>3, <1>4, TotalsAsk

\* A total without an unknown partition has a row for every commit.
LEMMA TotalsStorePair ==
    ASSUME LInv, UInv, NEW c \in Callers, StorePair(c)
    PROVE  UInv'
<1> DEFINE rows == {p \in Held(commits[c]) : ask[c].heads[p] # NoOffset}
<1>1. /\ entry'.rows = [p \in Partitions |-> IF p \in rows THEN commits[c][p] ELSE NoOffset]
      /\ entry'.ends = [p \in Partitions |-> IF p \in rows THEN ask[c].heads[p] ELSE NoOffset]
      /\ entry'.unknown = {p \in Held(commits[c]) : ask[c].heads[p] = NoOffset}
      /\ entry'.truth.lag = truth[c].lag
      /\ Leave(c) /\ head' = head /\ ask[c].step = "done"
  BY DEF StorePair, Unknown, headVars
<1>2. LagNotUnderstated'
  <2>1. SUFFICES ASSUME entry'.unknown = {}
                 PROVE  LagOver(Held(entry'.rows), entry'.rows, entry'.ends) >= truth[c].lag
    BY <1>1 DEF LagNotUnderstated
  <2>2. rows = Held(commits[c]) /\ \A p \in Held(commits[c]) : ask[c].heads[p] # NoOffset
    BY <1>1, <2>1
  <2>3. Held(entry'.rows) = Held(commits[c])
    BY <1>1, <2>2 DEF Held
  <2>4. \A p \in Held(commits[c]) : /\ p \in Partitions /\ entry'.rows[p] = commits[c][p]
                                    /\ entry'.ends[p] = ask[c].heads[p] /\ ask[c].heads[p] \in Nat
    BY <1>1, <2>2, HeldNumbers DEF Held
  <2>5. /\ LagOver(Held(commits[c]), commits[c], ask[c].heads) \in Nat
        /\ LagOver(Held(commits[c]), entry'.rows, entry'.ends) \in Nat
        /\ LagOver(Held(commits[c]), commits[c], ask[c].heads)
             <= LagOver(Held(commits[c]), entry'.rows, entry'.ends)
    <3> DEFINE er == entry'.rows
               ee == entry'.ends
    <3>1. \A p \in Held(commits[c]) : p \in Partitions /\ er[p] = commits[c][p]
                                      /\ ee[p] = ask[c].heads[p] /\ ask[c].heads[p] \in Nat
      BY <2>4
    <3> HIDE DEF er, ee
    <3>2. /\ LagOver(Held(commits[c]), commits[c], ask[c].heads) \in Nat
          /\ LagOver(Held(commits[c]), er, ee) \in Nat
          /\ LagOver(Held(commits[c]), commits[c], ask[c].heads) <= LagOver(Held(commits[c]), er, ee)
      BY <3>1, HeldNumbers, LagRises
    <3>3. QED
      BY <3>2 DEF er, ee
  <2>6. truth[c].lag \in Nat /\ truth[c].lag <= LagOver(Held(commits[c]), commits[c], ask[c].heads)
    BY <1>1, <2>2 DEF UInv, TotalsHold, Truths
  <2>7. QED
    BY <2>3, <2>5, <2>6
<1>3. QED
  BY <1>1, <1>2, TotalsLeave

\* A group without commits has no lag.
LEMMA TotalsReadNothing ==
    ASSUME LInv, UInv, NEW c \in Callers, ReadNothing(c)
    PROVE  UInv'
<1>1. /\ entry'.rows = NoCommits /\ entry'.truth.lag = LagOver({}, committed, head)
      /\ Leave(c) /\ head' = head
  BY DEF ReadNothing, headVars, TruthOf
<1>2. Held(NoCommits) = {}
  BY DEF Held, NoCommits
<1>3. /\ LagOver({}, committed, head) = 0
      /\ LagOver({}, entry'.rows, entry'.ends) = 0
  BY NoLag
<1>4. LagNotUnderstated'
  BY <1>1, <1>2, <1>3 DEF LagNotUnderstated
<1>5. QED
  BY <1>1, <1>4, TotalsLeave

\* No step makes a total less than the lag was.
LEMMA TotalsNext == LInv /\ UInv /\ [LagNext]_lagVars => UInv'
<1> SUFFICES ASSUME LInv, UInv, [LagNext]_lagVars PROVE UInv'
  OBVIOUS
<1>1. \A p \in Partitions : head[p] \in Nat /\ head[p] <= head[p]
  BY HeldNumbers
<1>2. CASE UNCHANGED lagVars
  BY <1>1, <1>2, TotalsQuiet DEF lagVars, groupVars, headVars
<1>3. ASSUME NEW c \in Callers, RequestLag(c) \/ BeginFlight(c) \/ WakeUp(c) \/ Reread(c)
      PROVE  UInv'
  BY <1>1, <1>3, TotalsQuiet
  DEF RequestLag, BeginFlight, WakeUp, Reread, groupVars, headVars
<1>4. ASSUME NEW c \in Callers, SampleFails(c)
      PROVE  UInv'
  <2>1. Leave(c) /\ head' = head /\ entry' = entry
    BY <1>4 DEF SampleFails, headVars
  <2>2. LagNotUnderstated'
    BY <2>1 DEF UInv, LagNotUnderstated
  <2>3. QED
    BY <2>1, <2>2, TotalsLeave
<1>5. ASSUME NEW p \in Partitions, Commit(p)
      PROVE  UInv'
  BY <1>1, <1>5, TotalsQuiet DEF Commit, headVars
<1>6. ASSUME NEW q \in Partitions, Append(q)
      PROVE  UInv'
  <2>1. Produce(q) /\ UNCHANGED <<ask, commits, truth, entry>>
    BY <1>6 DEF Append, Produce, groupVars
  <2>2. \A p \in Partitions : head'[p] \in Nat /\ head[p] <= head'[p]
    BY <2>1, WatermarksAssumption DEF Produce, LInv, WInv, WatermarksTypeOK, Offsets
  <2>3. QED
    BY <2>1, <2>2, TotalsQuiet
<1>7. CASE TickLag
  BY <1>1, <1>7, TotalsQuiet DEF TickLag, groupVars
<1>8. ASSUME NEW r \in Askers \ Callers, Reads(r), UNCHANGED <<flightVars, groupVars, truth>>
      PROVE  UInv'
  <2>1. head' = head /\ UNCHANGED <<commits, truth, entry>>
    BY <1>8 DEF Reads, Ask, Ensure, ListHeads, InsertHeads, Fail, Use, headVars, groupVars
  <2>2. \A c \in Callers : ask'[c] = ask[c]
    BY <1>8, GroupLagAssumption
    DEF Reads, Ask, Ensure, ListHeads, InsertHeads, Fail, Use, EndAsk, LInv, WInv, WatermarksTypeOK
  <2>3. QED
    BY <1>1, <2>1, <2>2, TotalsQuiet
<1>9. QED
  BY <1>2, <1>3, <1>4, <1>5, <1>6, <1>7, <1>8, TotalsReadCommits, TotalsReadNothing,
     TotalsAskHeads, TotalsList, TotalsInsert, TotalsStorePair
  DEF LagNext

\* sample_group_lag: a total that names no unknown partition is never less than
\* the lag was, when they were read, of the commits that the answer held.
THEOREM LagNotUnderstatedHolds == LagSpec => []LagNotUnderstated
<1>1. UInv => LagNotUnderstated
  BY DEF UInv
<1>2. QED
  BY <1>1, LagInvariant, TotalsInit, TotalsNext, PTL DEF LagSpec

-----------------------------------------------------------------------------
(* The calls that go to the native client (AdminCall).                       *)

Objects == {"queue", "options", "list", "request", "resource", "event"}
Replies == [Elements -> {"ok", "absent", "failed"}]
Outcomes == [result : {"none", "error", "answer", "unknown"}, of : SUBSET Elements]

CallTypes ==
    /\ phase \in [Requests -> {"idle", "build", "wait", "failed", "read"}]
    /\ op \in [Requests -> Ops]
    /\ client \in [Requests -> Int] /\ resident \in Int
    /\ owned \in [Requests -> SUBSET Objects]
    /\ reply \in [Requests -> Replies]
    /\ outcome \in [Requests -> Outcomes]

\* A call in progress has told nothing yet, one that ended on a name has told
\* it; every node of a cluster's answer is there.
CallsUnderWay ==
    /\ \A r \in Requests : phase[r] # "idle" => outcome[r] = NoOutcome
    /\ \A r \in Requests : r \in unnamed => outcome[r] # NoOutcome
    /\ \A r \in Requests : phase[r] = "read" /\ op[r] = "cluster" =>
                             reply[r] \in [Elements -> {"ok"}]

CallInv ==
    /\ CallTypes
    /\ resident \in clients
    /\ CallsUnderWay
    /\ CallsAreSound

-----------------------------------------------------------------------------
\* At first no call is under way.
LEMMA CallInit == AdminCallInit => CallInv
<1> SUFFICES ASSUME AdminCallInit  PROVE CallInv
  OBVIOUS
<1>1. CallTypes
  BY DEF AdminCallInit, CallTypes, Ops, Replies, Outcomes, NoOutcome
<1>2. CallsAreSound
  BY DEF AdminCallInit, CallsAreSound, NothingDangles, NothingHidden, NoOutcome
<1> QED  BY <1>1, <1>2 DEF AdminCallInit, CallInv, CallsUnderWay

\* What a call may say of its own event hides no failure.
LEMMA ReadIsHonest ==
  ASSUME CallInv, NEW r \in Requests, phase[r] = "read", NEW told,
         told \in CASE op[r] = "cluster" -> DescribeCluster(r)
                    [] op[r] = "offsets" -> ListOffsets(r)
                    [] op[r] = "commits" -> CommittedOffsets(r)
                    [] op[r] = "group" -> DescribeGroup(r)
                    [] op[r] = "groups" -> ListGroups(r)
                    [] op[r] = "config" -> DescribeConfig(r)
  PROVE  /\ told \in Outcomes
         /\ told.result = "answer" /\ op[r] \notin {"offsets", "commits"} => SaidOf(r, "failed") = {}
<1> DEFINE All == SaidOf(r, "ok")
<1>1. Tells(r) \in Outcomes /\ Error \in Outcomes /\ Error.result = "error"
  BY DEF Tells, Error, Outcomes, SaidOf
<1>2. CASE op[r] = "cluster"
  <2>1. reply[r] \in [Elements -> {"ok"}]
    BY <1>2 DEF CallInv, CallsUnderWay
  <2>2. SaidOf(r, "failed") = {}
    BY <2>1 DEF SaidOf
  <2> QED  BY <1>1, <1>2, <2>2 DEF DescribeCluster
<1>3. CASE op[r] = "offsets"
  BY <1>1, <1>3 DEF ListOffsets
<1>4. CASE op[r] = "commits"
  BY <1>1, <1>4 DEF CommittedOffsets
<1>5. CASE op[r] = "group"
  <2>1. told \in {Error, [result |-> "unknown", of |-> {}], Tells(r)}
    BY <1>5 DEF DescribeGroup
  <2>2. told # Error => SaidOf(r, "failed") = {}
    BY <1>5 DEF DescribeGroup
  <2> QED  BY <1>1, <2>1, <2>2 DEF Outcomes
<1>6. CASE op[r] = "groups"
  BY <1>1, <1>6 DEF ListGroups
<1>7. CASE op[r] = "config"
  BY <1>1, <1>7 DEF DescribeConfig
<1>8. op[r] \in Ops
  BY DEF CallInv, CallTypes
<1> QED  BY <1>2, <1>3, <1>4, <1>5, <1>6, <1>7, <1>8 DEF Ops

\* Every way out of a call: its objects are destroyed, and its client if no
\* one else needs it.
LEMMA LeavingIsClean ==
  ASSUME CallInv, NEW r \in Requests, phase[r] # "idle", NEW told \in Outcomes,
         told.result = "answer" /\ op[r] \notin {"offsets", "commits"} => SaidOf(r, "failed") = {},
         Leaves(r, told, {})
  PROVE  CallInv'
<1> USE DEF Leaves, Goes, Keeps, Returns
<1>1. CallTypes'
  BY DEF CallInv, CallTypes
<1>2. resident' \in clients'
  BY DEF CallInv
<1>3. CallsUnderWay'
  BY DEF CallInv, CallsUnderWay, CallTypes
<1>4. NothingDangles'
  <2>1. ASSUME NEW q \in Requests, q # r, phase[q] # "idle"
        PROVE  client[q] \in clients'
    BY <2>1 DEF CallInv, CallsAreSound, NothingDangles, InUse
  <2>2. \A c \in clients' \ {resident'} : \E q \in Requests : phase'[q] # "idle" /\ client'[q] = c
    BY DEF CallInv, CallTypes, InUse
  <2>3. r \notin unnamed
    BY DEF CallInv, CallsUnderWay
  <2> QED  BY <2>1, <2>2, <2>3 DEF CallInv, CallTypes, CallsAreSound, NothingDangles
<1>5. NothingHidden'
  <2>1. \A q \in Requests : SaidOf(q, "failed")' = SaidOf(q, "failed")
    BY DEF SaidOf
  <2> QED  BY <2>1 DEF CallInv, CallTypes, CallsAreSound, NothingHidden
<1> QED  BY <1>1, <1>2, <1>3, <1>4, <1>5 DEF CallInv, CallsAreSound

-----------------------------------------------------------------------------
\* A call that ends on the name of a topic leaves its list behind, and says so.
LEMMA RefuseTopicIsSound ==
  ASSUME CallInv, NEW r \in Requests, RefuseTopic(r)
  PROVE  CallInv'
<1> USE DEF RefuseTopic, Goes, Keeps, Returns
<1>0. Error \in Outcomes /\ Error.result = "error" /\ Error # NoOutcome
  BY DEF Error, Outcomes, NoOutcome
<1>1. CallTypes'
  BY <1>0 DEF CallInv, CallTypes, Objects
<1>2. resident' \in clients'
  BY DEF CallInv
<1>3. CallsUnderWay'
  BY <1>0 DEF CallInv, CallsUnderWay, CallTypes
<1>4. NothingDangles'
  <2>1. ASSUME NEW q \in Requests, q # r, phase[q] # "idle"
        PROVE  client[q] \in clients'
    BY <2>1 DEF CallInv, CallsAreSound, NothingDangles, InUse
  <2>2. \A c \in clients' \ {resident'} : \E q \in Requests : phase'[q] # "idle" /\ client'[q] = c
    BY DEF CallInv, CallTypes, InUse
  <2> QED  BY <2>1, <2>2 DEF CallInv, CallTypes, CallsAreSound, NothingDangles
<1>5. NothingHidden'
  <2>1. \A q \in Requests : SaidOf(q, "failed")' = SaidOf(q, "failed")
    BY DEF SaidOf
  <2> QED  BY <1>0, <2>1 DEF CallInv, CallTypes, CallsAreSound, NothingHidden
<1> QED  BY <1>1, <1>2, <1>3, <1>4, <1>5 DEF CallInv, CallsAreSound

\* A swap destroys the old client only when no call has a share in it.
LEMMA SwapKeepsCalls == CallInv /\ Swap => CallInv'
<1> SUFFICES ASSUME CallInv, Swap  PROVE CallInv'
  OBVIOUS
<1>1. CallTypes' /\ resident' \in clients' /\ CallsUnderWay'
  BY DEF Swap, CallInv, CallTypes, CallsUnderWay
<1>2. NothingDangles'
  BY DEF Swap, Shares, CallInv, CallsAreSound, NothingDangles
<1>3. NothingHidden'
  BY DEF Swap, CallInv, CallsAreSound, NothingHidden, SaidOf
<1> QED  BY <1>1, <1>2, <1>3 DEF CallInv, CallsAreSound

\* A call takes a share of the client that is resident.
LEMMA NewCallIsSound ==
  ASSUME CallInv, NEW r \in Requests, NEW what \in Ops, NewCall(r, what)
  PROVE  CallInv'
<1> USE DEF NewCall, Goes, Keeps, Returns
<1>0. [result |-> "answer", of |-> {}] \in Outcomes /\ Error \in Outcomes
  BY DEF Outcomes, Error
<1>1. CallTypes'
  BY <1>0 DEF CallInv, CallTypes, Objects
<1>2. resident' \in clients' /\ CallsUnderWay'
  BY DEF CallInv, CallTypes, CallsUnderWay
<1>3. NothingDangles'
  <2>1. \A q \in Requests : q # r => phase'[q] = phase[q] /\ owned'[q] = owned[q] /\ client'[q] = client[q]
    BY DEF CallInv, CallTypes
  <2>2. r \notin unnamed /\ phase[r] = "idle" /\ owned[r] = {}
    BY DEF CallInv, CallsUnderWay, CallsAreSound, NothingDangles
  <2>3. /\ client'[r] = resident /\ resident \in clients
        /\ \/ phase'[r] = "build" /\ owned'[r] = {"queue", "options"}
           \/ phase'[r] = "idle" /\ owned'[r] = {}
    BY <2>2 DEF CallInv, CallTypes
  <2> QED  BY <2>1, <2>2, <2>3 DEF CallInv, CallsAreSound, NothingDangles
<1>4. NothingHidden'
  <2>1. \A q \in Requests : SaidOf(q, "failed")' = SaidOf(q, "failed")
    BY DEF SaidOf
  <2> QED  BY <2>1 DEF CallInv, CallTypes, CallsAreSound, NothingHidden, Error, NoOutcome
<1> QED  BY <1>1, <1>2, <1>3, <1>4 DEF CallInv, CallsAreSound

\* A call that is issued owns what it asks with.
LEMMA IssueIsSound ==
  ASSUME CallInv, NEW r \in Requests, Issue(r)
  PROVE  CallInv'
<1> USE DEF Issue, Goes, Keeps
<1>0. \A objects \in Arguments(r) : objects \subseteq Objects
  BY DEF Arguments, Objects, CallInv, CallTypes, Ops
<1>1. CallTypes'
  BY <1>0 DEF CallInv, CallTypes
<1>2. resident' \in clients' /\ CallsUnderWay'
  BY DEF CallInv, CallTypes, CallsUnderWay
<1>3. NothingDangles'
  <2>1. \A q \in Requests : q # r => phase'[q] = phase[q] /\ owned'[q] = owned[q] /\ client'[q] = client[q]
    BY DEF CallInv, CallTypes
  <2>2. /\ client' = client /\ client[r] \in clients /\ phase'[r] # "idle" /\ phase[r] # "idle"
        /\ {"queue", "options"} \subseteq owned'[r]
        /\ phase'[r] = "read" => "event" \in owned'[r]
    BY DEF CallInv, CallTypes, CallsAreSound, NothingDangles
  <2> QED  BY <2>1, <2>2 DEF CallInv, CallsAreSound, NothingDangles
<1>4. NothingHidden'
  BY DEF CallInv, CallsAreSound, NothingHidden, SaidOf
<1> QED  BY <1>1, <1>2, <1>3, <1>4 DEF CallInv, CallsAreSound

\* A call that was answered owns its event.
LEMMA AwaitIsSound ==
  ASSUME CallInv, NEW r \in Requests, Await(r)
  PROVE  CallInv'
<1> USE DEF Await, Goes, Keeps
<1>0. /\ Entries(op[r]) \subseteq Replies
      /\ op[r] = "cluster" => Entries(op[r]) = [Elements -> {"ok"}]
  BY DEF Entries, Replies
<1>1. CallTypes'
  BY <1>0 DEF CallInv, CallTypes, Objects
<1>2. resident' \in clients' /\ CallsUnderWay'
  BY <1>0 DEF CallInv, CallTypes, CallsUnderWay
<1>3. NothingDangles'
  <2>1. \A q \in Requests : q # r => phase'[q] = phase[q] /\ owned'[q] = owned[q] /\ client'[q] = client[q]
    BY DEF CallInv, CallTypes
  <2>2. /\ client' = client /\ client[r] \in clients /\ phase'[r] # "idle" /\ phase[r] # "idle"
        /\ {"queue", "options"} \subseteq owned'[r]
        /\ phase'[r] = "read" => "event" \in owned'[r]
    BY DEF CallInv, CallTypes, CallsAreSound, NothingDangles
  <2> QED  BY <2>1, <2>2 DEF CallInv, CallsAreSound, NothingDangles
<1>4. NothingHidden'
  <2>1. outcome'[r].result = "none"
    BY DEF CallInv, CallsUnderWay, NoOutcome
  <2>2. \A q \in Requests \ {r} : SaidOf(q, "failed")' = SaidOf(q, "failed")
    BY DEF SaidOf, CallInv, CallTypes
  <2> QED  BY <2>1, <2>2 DEF CallInv, CallsAreSound, NothingHidden
<1> QED  BY <1>1, <1>2, <1>3, <1>4 DEF CallInv, CallsAreSound

\* A request that is over is forgotten.
LEMMA ForgetIsSound ==
  ASSUME CallInv, NEW r \in Requests, Forget(r)
  PROVE  CallInv'
<1> USE DEF Forget, Returns, Keeps
<1>1. phase[r] = "idle"
  BY DEF CallInv, CallsUnderWay
<1>2. CallTypes'
  BY DEF CallInv, CallTypes, NoOutcome, Outcomes, Replies, Ops
<1>3. resident' \in clients' /\ CallsUnderWay'
  BY <1>1 DEF CallInv, CallTypes, CallsUnderWay
<1>4. NothingDangles'
  BY <1>1 DEF CallInv, CallTypes, CallsAreSound, NothingDangles
<1>5. NothingHidden'
  <2>1. outcome'[r].result = "none"
    BY DEF CallInv, CallTypes, NoOutcome
  <2>2. \A q \in Requests \ {r} : SaidOf(q, "failed")' = SaidOf(q, "failed")
    BY DEF SaidOf, CallInv, CallTypes
  <2> QED  BY <2>1, <2>2 DEF CallInv, CallTypes, CallsAreSound, NothingHidden
<1> QED  BY <1>2, <1>3, <1>4, <1>5 DEF CallInv, CallsAreSound

\* However a call ends, it leaves as it should.
LEMMA CallEnds ==
  ASSUME CallInv, NEW r \in Requests, RefuseName(r) \/ CallFails(r) \/ Read(r) \/ ReadFails(r)
  PROVE  CallInv'
<1>1. Error \in Outcomes /\ Error.result = "error"
  BY DEF Error, Outcomes
<1>2. CASE RefuseName(r)
  BY <1>1, <1>2, LeavingIsClean DEF RefuseName
<1>3. CASE CallFails(r)
  BY <1>1, <1>3, LeavingIsClean DEF CallFails, Unreleased
<1>4. CASE ReadFails(r)
  BY <1>1, <1>4, LeavingIsClean DEF ReadFails
<1>5. CASE Read(r)
  BY <1>5, ReadIsHonest, LeavingIsClean DEF Read
<1> QED  BY <1>2, <1>3, <1>4, <1>5

\* Every step keeps the calls sound.
LEMMA CallNext == CallInv /\ [AdminCallNext]_callVars => CallInv'
<1> SUFFICES ASSUME CallInv, [AdminCallNext]_callVars  PROVE CallInv'
  OBVIOUS
<1>1. CASE UNCHANGED callVars
  BY <1>1 DEF callVars, CallInv, CallTypes, CallsUnderWay, CallsAreSound, NothingDangles,
     NothingHidden, SaidOf
<1>2. CASE Swap
  BY <1>2, SwapKeepsCalls
<1>3. ASSUME NEW r \in Requests, NEW what \in Ops, NewCall(r, what)  PROVE CallInv'
  BY <1>3, NewCallIsSound
<1>4. ASSUME NEW r \in Requests, Issue(r) \/ Await(r) \/ Forget(r)  PROVE CallInv'
  BY <1>4, IssueIsSound, AwaitIsSound, ForgetIsSound
<1>5. ASSUME NEW r \in Requests,
             RefuseName(r) \/ RefuseTopic(r) \/ CallFails(r) \/ Read(r) \/ ReadFails(r)
      PROVE  CallInv'
  BY <1>5, CallEnds, RefuseTopicIsSound
<1> QED  BY <1>1, <1>2, <1>3, <1>4, <1>5 DEF AdminCallNext

\* ffi.rs: no exit but the one on a topic's name leaks a native object, none uses
\* one that is gone, no swap destroys a client that a call needs, and no answer
\* but one about offsets leaves out a part that failed.
THEOREM CallsAreSoundHolds == AdminCallSpec => []CallsAreSound
<1>1. AdminCallSpec => []CallInv
  BY CallInit, CallNext, PTL DEF AdminCallSpec
<1>2. CallInv => CallsAreSound
  BY DEF CallInv
<1> QED  BY <1>1, <1>2, PTL

-----------------------------------------------------------------------------
(* What the pages say of a group (GroupViews).                               *)

\* What is known of the group itself.  It has been as it is to be shown since
\* then, if it is.
GroupFacts ==
    /\ clock \in Nat /\ clock <= LastMoment /\ began \in 0 .. clock
    /\ group = [consumer |-> group.consumer, members |-> group.members,
                held |-> group.held, dead |-> group.dead]
    /\ group.dead => group.members = {}
    /\ since = Never \/ since \in 0 .. clock
    /\ since # Never <=> Related(group)

\* What each answer says of a group that is to be shown.
RosterTells(found) ==
    /\ found.present /\ Classify(found.members) # "moved"
    /\ tracked = "assigned" => AssignedHere(found.members)

DescriptionTells(found) == Classify(found.members) # "moved"

LagTells(found) == tracked # "assigned" => Here \in found.rows \cup found.unknown \cup found.failed

\* What was stamped later than that, by more than a read may last, shows the
\* group as it is to be shown; no roster takes a classic group for one of the
\* new protocol.
CachesTell ==
    /\ Cached(roster) =>
         /\ roster.at \in 0 .. clock /\ (roster.consumer => group.consumer)
         /\ since # Never /\ roster.at > since + MaxRead => RosterTells(roster)
    /\ Cached(described) =>
         /\ described.at \in 0 .. clock
         /\ since # Never /\ described.at > since + MaxRead => DescriptionTells(described)
    /\ Cached(lag) =>
         /\ lag.at \in 0 .. clock
         /\ since # Never /\ lag.at > since + MaxRead => LagTells(lag)

\* What was learnt later than that does so already; it is not stamped yet, and
\* will be soon.
PendingTells ==
    Cached(pending) =>
      /\ stage \in {"roster", "describe", "lag"}
      /\ pending.at \in began .. clock /\ clock <= pending.at + MaxRead
      /\ stage = "roster" =>
           /\ pending = [at |-> pending.at, present |-> pending.present,
                         consumer |-> pending.consumer, members |-> pending.members]
           /\ pending.consumer => group.consumer
           /\ since # Never /\ pending.at > since => RosterTells(pending)
      /\ stage = "describe" =>
           /\ pending = [at |-> pending.at, members |-> pending.members, dead |-> pending.dead]
           /\ since # Never /\ pending.at > since => DescriptionTells(pending)
      /\ stage = "lag" =>
           /\ pending = [at |-> pending.at, rows |-> pending.rows,
                         unknown |-> pending.unknown, failed |-> pending.failed]
           /\ since # Never /\ pending.at > since => LagTells(pending)

\* The page in progress is a topic's tab that must show the group.
MustShow ==
    view = "consumers" /\ ~inherited /\ since # Never /\ since + IdleTtl + MaxRead <= began

\* What such a page knows so far.
PageGoesOn ==
    /\ stage \in {"none", "roster", "describe", "lag"}
    /\ verdict # "none" => stage = "none"
    /\ view = "none" => verdict = "none" /\ stage = "none"
    /\ MustShow =>
         /\ stage = "describe" => tracked # "assigned"
         /\ stage = "lag" /\ tracked = "assigned" => AssignedHere(assigned)
         /\ ~omitted => verdict # "hidden"

GInv == GroupFacts /\ CachesTell /\ PendingTells /\ PageGoesOn

\* At first nothing is cached.
LEMMA GroupInit == GroupViewsInit => GInv
<1> SUFFICES ASSUME GroupViewsInit PROVE GInv
  OBVIOUS
<1>1. /\ clock = 0 /\ began = 0 /\ since = IF Related(group) THEN 0 ELSE Never
      /\ group = [consumer |-> group.consumer, members |-> group.members,
                  held |-> group.held, dead |-> group.dead]
      /\ group.dead => group.members = {}
      /\ ~Cached(roster) /\ ~Cached(described) /\ ~Cached(lag) /\ ~Cached(pending)
      /\ view = "none" /\ stage = "none" /\ verdict = "none"
  BY DEF GroupViewsInit, Cached
<1>2. GroupFacts
  BY <1>1, GroupViewsAssumption DEF GroupFacts
<1>3. QED
  BY <1>1, <1>2 DEF GInv, CachesTell, PendingTells, PageGoesOn, MustShow

\* What it takes for the group to be shown.
LEMMA RelatedGroup ==
    ASSUME GroupFacts, since # Never
    PROVE  /\ ~group.dead /\ Classify(group.members) # "moved" /\ Classify({}) # "moved"
           /\ tracked = "assigned" => ~group.consumer /\ AssignedHere(group.members)
           /\ tracked # "assigned" => Here \in group.held
  BY DEF GroupFacts, Related, Classify, AssignedHere

\* No read accepts an answer older than the TTL of the idle groups.
LEMMA TtlFacts ==
    ASSUME stage \in {"roster", "describe", "lag"}, view = "consumers"
    PROVE  Ttl \in Nat /\ Ttl <= IdleTtl
<1>1. CASE stage = "roster"
  BY <1>1, GroupViewsAssumption DEF Ttl
<1>2. CASE stage = "describe"
  BY <1>2, GroupViewsAssumption DEF Ttl
<1>3. CASE stage = "lag"
  BY <1>3, GroupViewsAssumption DEF Ttl, CommitsTtl
<1>4. QED
  BY <1>1, <1>2, <1>3

\* What such a page takes from a cache without having waited is younger than
\* the group's state.
LEMMA ServedIsRecent ==
    ASSUME GInv, NEW found, Serve(found), stage \in {"roster", "describe", "lag"},
           MustShow'
    PROVE  UNCHANGED <<view, began, since>> => Entry.at > since + MaxRead
<1> SUFFICES ASSUME UNCHANGED <<view, began, since>> PROVE Entry.at > since + MaxRead
  OBVIOUS
<1>1. Cached(Entry) /\ Fresh /\ view = "consumers" /\ since + IdleTtl + MaxRead <= began
  BY DEF Serve, MustShow
<1>2. Entry.at \in 0 .. clock /\ clock \in Nat /\ began \in 0 .. clock /\ since \in Nat
  BY <1>1 DEF GInv, CachesTell, GroupFacts, Entry, MustShow
<1>3. began <= Now /\ Now \in Nat
  BY <1>2 DEF Now
<1>4. Now - Entry.at < Ttl /\ Ttl \in Nat /\ Ttl <= IdleTtl /\ IdleTtl \in Nat /\ MaxRead \in Nat
  BY <1>1, TtlFacts, GroupViewsAssumption DEF Fresh
<1>5. QED
  BY <1>1, <1>2, <1>3, <1>4

\* What is learnt is what the group is now.
LEMMA LearnsTells ==
    ASSUME GInv, Learns
    PROVE  PendingTells'
<1>1. /\ stage \in {"roster", "describe", "lag"}
      /\ UNCHANGED <<clock, group, tracked, since, began, stage>>
      /\ pending' \in CASE stage = "roster" -> RosterNow
                         [] stage = "describe" -> DescriptionNow
                         [] stage = "lag" -> LagNow
  BY DEF Learns, world, past, GInv, PageGoesOn
<1>2. clock \in Nat /\ began \in 0 .. clock /\ clock <= clock + MaxRead
  BY GroupViewsAssumption DEF GInv, GroupFacts
<1>3. CASE stage = "roster"
  <2>1. pending' \in RosterNow
    BY <1>1, <1>3
  <2>2. PICK listed \in BOOLEAN :
          pending' = [at |-> clock, present |-> ~group.dead, consumer |-> listed /\ group.consumer,
                      members |-> IF group.consumer THEN {} ELSE group.members]
    BY <2>1 DEF RosterNow
  <2>3. /\ pending'.at = clock /\ (pending'.present <=> ~group.dead)
        /\ pending'.consumer => group.consumer
        /\ pending'.members = IF group.consumer THEN {} ELSE group.members
        /\ pending' = [at |-> pending'.at, present |-> pending'.present,
                       consumer |-> pending'.consumer, members |-> pending'.members]
    BY <2>2
  <2>4. since # Never =>
          /\ pending'.present /\ Classify(pending'.members) # "moved"
          /\ tracked = "assigned" => AssignedHere(pending'.members)
    BY <2>3, RelatedGroup DEF GInv
  <2>5. QED
    BY <1>1, <1>2, <1>3, <2>3, <2>4 DEF PendingTells, RosterTells
<1>4. CASE stage = "describe"
  <2>1. pending' = [at |-> clock, members |-> group.members, dead |-> group.dead]
    BY <1>1, <1>4 DEF DescriptionNow
  <2>2. since # Never => Classify(pending'.members) # "moved"
    BY <2>1, RelatedGroup DEF GInv
  <2>3. QED
    BY <1>1, <1>2, <1>4, <2>1, <2>2 DEF PendingTells, DescriptionTells
<1>5. CASE stage = "lag"
  <2>1. pending' \in LagNow
    BY <1>1, <1>5
  <2>2. PICK says \in [group.held -> {"row", "unknown", "failed"}] :
          pending' = [at |-> clock, rows |-> {t \in group.held : says[t] = "row"},
                      unknown |-> {t \in group.held : says[t] = "unknown"},
                      failed |-> {t \in group.held : says[t] = "failed"}]
    BY <2>1 DEF LagNow
  <2>3. group.held \subseteq pending'.rows \cup pending'.unknown \cup pending'.failed
    BY <2>2
  <2>4. since # Never /\ tracked # "assigned" =>
          Here \in pending'.rows \cup pending'.unknown \cup pending'.failed
    BY <2>3, RelatedGroup DEF GInv
  <2>5. /\ pending'.at = clock
        /\ pending' = [at |-> pending'.at, rows |-> pending'.rows,
                       unknown |-> pending'.unknown, failed |-> pending'.failed]
    BY <2>2
  <2>6. QED
    BY <1>1, <1>2, <1>5, <2>4, <2>5 DEF PendingTells, LagTells
<1>6. QED
  BY <1>1, <1>3, <1>4, <1>5

\* A stamp changes nothing but the moment.
LEMMA StampedFacts ==
    ASSUME GInv, Cached(pending)
    PROVE  /\ stage = "roster" =>
                /\ Stamped.at = clock /\ Stamped.present = pending.present
                /\ Stamped.consumer = pending.consumer /\ Stamped.members = pending.members
           /\ stage = "describe" => Stamped.at = clock /\ Stamped.members = pending.members
           /\ stage = "lag" =>
                /\ Stamped.at = clock /\ Stamped.rows = pending.rows
                /\ Stamped.unknown = pending.unknown /\ Stamped.failed = pending.failed
<1>1. CASE stage = "roster"
  BY <1>1 DEF GInv, PendingTells, Stamped
<1>2. CASE stage = "describe"
  BY <1>2 DEF GInv, PendingTells, Stamped
<1>3. CASE stage = "lag"
  BY <1>3 DEF GInv, PendingTells, Stamped
<1>4. QED
  BY <1>1, <1>2, <1>3

\* Reading does not touch the group; each cache then holds what it held, or
\* what was learnt, stamped now.
LEMMA SampleTells ==
    ASSUME GInv, NEW found, Sample(found), UNCHANGED world
    PROVE  CachesTell'
<1>1. UNCHANGED <<clock, group, tracked, since>>
  BY DEF world, past
<1>2. /\ clock \in Nat /\ Never \notin Nat /\ MaxRead \in Nat /\ Cached(pending) /\ found = Stamped
      /\ pending.at \in Nat /\ clock <= pending.at + MaxRead /\ (since # Never => since \in Nat)
  BY GroupViewsAssumption DEF GInv, GroupFacts, PendingTells, Sample
<1>3. since # Never /\ clock > since + MaxRead => pending.at > since
  BY <1>2
<1>4. CASE stage = "roster" /\ roster' = found /\ UNCHANGED <<described, lag>>
  <2>1. /\ roster'.at = clock /\ roster'.present = pending.present
        /\ roster'.consumer = pending.consumer /\ roster'.members = pending.members
    BY <1>2, <1>4, StampedFacts
  <2>2. /\ pending.consumer => group.consumer
        /\ since # Never /\ pending.at > since => RosterTells(pending)
    BY <1>2, <1>4 DEF GInv, PendingTells
  <2>3. QED
    BY <1>1, <1>2, <1>3, <1>4, <2>1, <2>2
    DEF GInv, CachesTell, Cached, RosterTells, DescriptionTells, LagTells
<1>5. CASE stage = "describe" /\ described' = found /\ UNCHANGED <<roster, lag>>
  <2>1. described'.at = clock /\ described'.members = pending.members
    BY <1>2, <1>5, StampedFacts
  <2>2. since # Never /\ pending.at > since => DescriptionTells(pending)
    BY <1>2, <1>5 DEF GInv, PendingTells
  <2>3. QED
    BY <1>1, <1>2, <1>3, <1>5, <2>1, <2>2
    DEF GInv, CachesTell, Cached, RosterTells, DescriptionTells, LagTells
<1>6. CASE stage = "lag" /\ lag' = found /\ UNCHANGED <<roster, described>>
  <2>1. /\ lag'.at = clock /\ lag'.rows = pending.rows
        /\ lag'.unknown = pending.unknown /\ lag'.failed = pending.failed
    BY <1>2, <1>6, StampedFacts
  <2>2. since # Never /\ pending.at > since => LagTells(pending)
    BY <1>2, <1>6 DEF GInv, PendingTells
  <2>3. QED
    BY <1>1, <1>2, <1>3, <1>6, <2>1, <2>2
    DEF GInv, CachesTell, Cached, RosterTells, DescriptionTells, LagTells
<1>7. QED
  BY <1>4, <1>5, <1>6 DEF Sample

\* What a page reads, from a cache or from the cluster, tells it that the
\* group is to be shown.
LEMMA AnswerTells ==
    ASSUME GInv, NEW found, Answer(found), stage \in {"roster", "describe", "lag"},
           UNCHANGED <<world, view, began>>
    PROVE  /\ GroupFacts' /\ CachesTell' /\ PendingTells'
           /\ MustShow' => MustShow
           /\ stage = "roster" => (found.consumer => group.consumer)
           /\ MustShow' /\ stage = "roster" => RosterTells(found)
           /\ MustShow' /\ stage = "describe" => DescriptionTells(found)
           /\ MustShow' /\ stage = "lag" => LagTells(found)
<1>1. UNCHANGED <<clock, group, tracked, since>>
  BY DEF world, past
<1>2. GroupFacts'
  BY <1>1 DEF GInv, GroupFacts, Related, AssignedHere
<1>3. MustShow' => MustShow
  BY <1>1 DEF Answer, Serve, Sample, MustShow
<1>4. PendingTells'
  BY DEF Answer, Serve, Sample, PendingTells, Cached
<1>5. CASE Serve(found)
  <2>1. UNCHANGED <<roster, described, lag>> /\ Cached(Entry) /\ found = Entry
    BY <1>5 DEF Serve, caches
  <2>2. CachesTell'
    BY <1>1, <2>1 DEF GInv, CachesTell, Cached, RosterTells, DescriptionTells, LagTells
  <2>3. MustShow' => found.at > since + MaxRead /\ since # Never
    BY <1>1, <1>5, <2>1, ServedIsRecent DEF MustShow
  <2>4. CASE stage = "roster"
    <3>1. found = roster
      BY <2>1, <2>4 DEF Entry
    <3>2. QED
      BY <1>2, <1>3, <1>4, <2>1, <2>2, <2>3, <2>4, <3>1 DEF GInv, CachesTell
  <2>5. CASE stage = "describe"
    <3>1. found = described
      BY <2>1, <2>5 DEF Entry
    <3>2. QED
      BY <1>2, <1>3, <1>4, <2>1, <2>2, <2>3, <2>5, <3>1 DEF GInv, CachesTell
  <2>6. CASE stage = "lag"
    <3>1. found = lag
      BY <2>1, <2>6 DEF Entry
    <3>2. QED
      BY <1>2, <1>3, <1>4, <2>1, <2>2, <2>3, <2>6, <3>1 DEF GInv, CachesTell
  <2>7. QED
    BY <2>4, <2>5, <2>6
<1>6. CASE Sample(found)
  <2>1. CachesTell'
    BY <1>6, SampleTells
  <2>2. Cached(pending) /\ found = Stamped
    BY <1>6 DEF Sample
  <2>3. MustShow' => since # Never /\ pending.at > since
    <3>1. pending.at \in began .. clock /\ began \in Nat /\ clock \in Nat
      BY <2>2 DEF GInv, PendingTells, GroupFacts
    <3>2. MustShow => since \in Nat /\ since + IdleTtl + MaxRead <= began
      BY DEF MustShow, GInv, GroupFacts
    <3>3. QED
      BY <1>3, <3>1, <3>2, GroupViewsAssumption DEF MustShow
  <2>4. CASE stage = "roster"
    <3>1. /\ pending.consumer => group.consumer
          /\ since # Never /\ pending.at > since => RosterTells(pending)
      BY <2>2, <2>4 DEF GInv, PendingTells
    <3>2. /\ found.present = pending.present /\ found.consumer = pending.consumer
          /\ found.members = pending.members
      BY <2>2, <2>4, StampedFacts
    <3>3. QED
      BY <1>2, <1>3, <1>4, <2>1, <2>3, <2>4, <3>1, <3>2 DEF RosterTells
  <2>5. CASE stage = "describe"
    <3>1. since # Never /\ pending.at > since => DescriptionTells(pending)
      BY <2>2, <2>5 DEF GInv, PendingTells
    <3>2. found.members = pending.members
      BY <2>2, <2>5, StampedFacts
    <3>3. QED
      BY <1>2, <1>3, <1>4, <2>1, <2>3, <2>5, <3>1, <3>2 DEF DescriptionTells
  <2>6. CASE stage = "lag"
    <3>1. since # Never /\ pending.at > since => LagTells(pending)
      BY <2>2, <2>6 DEF GInv, PendingTells
    <3>2. /\ found.rows = pending.rows /\ found.unknown = pending.unknown
          /\ found.failed = pending.failed
      BY <2>2, <2>6, StampedFacts
    <3>3. QED
      BY <1>2, <1>3, <1>4, <2>1, <2>3, <2>6, <3>1, <3>2 DEF LagTells
  <2>7. QED
    BY <2>4, <2>5, <2>6
<1>7. QED
  BY <1>5, <1>6 DEF Answer

\* A read that failed changes no cache.
LEMMA FailureTells ==
    ASSUME GInv, Fails, UNCHANGED <<world, view, began>>
    PROVE  /\ GroupFacts' /\ CachesTell' /\ PendingTells'
           /\ (MustShow' <=> MustShow) /\ omitted' = omitted
<1>1. /\ UNCHANGED <<clock, group, tracked, since, roster, described, lag, inherited, omitted>>
      /\ pending' = Empty
  BY DEF Fails, caches, world, past, history
<1>2. GroupFacts' /\ CachesTell' /\ PendingTells'
  BY <1>1
  DEF GInv, GroupFacts, CachesTell, PendingTells, Related, AssignedHere, Cached,
      RosterTells, DescriptionTells, LagTells
<1>3. QED
  BY <1>1, <1>2 DEF MustShow

\* A page learns what it is going to say, and has said nothing yet.
LEMMA LearnsInv ==
    ASSUME GInv, Learns
    PROVE  GInv'
<1>1. UNCHANGED <<clock, group, tracked, since, roster, described, lag, view, began, stage,
                  assigned, inherited, omitted, verdict>>
  BY DEF Learns, world, past, caches, history
<1>2. GroupFacts' /\ CachesTell' /\ PageGoesOn'
  BY <1>1
  DEF GInv, GroupFacts, CachesTell, PageGoesOn, MustShow, Related, AssignedHere, Cached,
      RosterTells, DescriptionTells, LagTells
<1>3. QED
  BY <1>2, LearnsTells DEF GInv

\* A page is opened: it knows nothing and has told nothing.
LEMMA OpenViewInv ==
    ASSUME GInv, NEW which \in {"list", "lags", "consumers", "detail"}, OpenView(which)
    PROVE  GInv'
<1>1. /\ UNCHANGED <<clock, group, tracked, since, roster, described, lag, verdict, pending>>
      /\ verdict = "none" /\ began' = clock /\ view' = which /\ ~Cached(pending)
      /\ stage' \in {"describe", "roster"} /\ (view' = "consumers" => stage' = "roster")
  BY DEF OpenView, world, past, caches, GInv, PageGoesOn, PendingTells
<1>2. GroupFacts'
  BY <1>1 DEF GInv, GroupFacts, Related, AssignedHere
<1>3. CachesTell' /\ PendingTells'
  BY <1>1
  DEF GInv, CachesTell, PendingTells, Cached, RosterTells, DescriptionTells, LagTells, AssignedHere
<1>4. PageGoesOn'
  BY <1>1 DEF PageGoesOn, MustShow
<1>5. QED
  BY <1>2, <1>3, <1>4 DEF GInv

\* The first step of a page that must show the group goes on, and knows that a
\* classic group is assigned to the topic.
LEMMA ReadRosterInv ==
    ASSUME GInv, ReadRoster
    PROVE  GInv'
<1>1. PICK found \in Answers :
        /\ Answer(found)
        /\ IF view = "list" \/ (view = "consumers" /\ ~found.present)
           THEN Says(IF found.present THEN "listed" ELSE "hidden")
           ELSE IF found.consumer
           THEN GoesOn("describe") /\ shows' = ShowsRows /\ UNCHANGED <<assigned, alive>>
           ELSE Classified(found.members, FALSE) /\ (stage' = "lag" => shows' = ShowsRows)
  BY DEF ReadRoster
<1>2. stage = "roster" /\ UNCHANGED <<world, view, began>>
  BY DEF ReadRoster
<1>3. /\ GroupFacts' /\ CachesTell' /\ PendingTells' /\ (MustShow' => MustShow)
      /\ found.consumer => group.consumer
      /\ MustShow' =>
           /\ found.present /\ Classify(found.members) # "moved"
           /\ tracked = "assigned" => AssignedHere(found.members)
  BY <1>1, <1>2, AnswerTells DEF RosterTells
<1>4. tracked' = tracked /\ view' = view /\ verdict = "none" /\ view # "none"
      /\ (MustShow => view = "consumers" /\ since # Never)
  BY <1>2 DEF world, past, MustShow, GInv, PageGoesOn
<1>5. MustShow /\ tracked = "assigned" => ~group.consumer
  BY <1>4, RelatedGroup DEF GInv
<1>6. CASE view = "list" \/ (view = "consumers" /\ ~found.present)
  <2>1. verdict' \in {"listed", "hidden"} /\ stage' = "none"
    BY <1>1, <1>6 DEF Says
  <2>2. ~MustShow'
    BY <1>3, <1>4, <1>6
  <2>3. QED
    BY <1>3, <1>4, <2>1, <2>2 DEF GInv, PageGoesOn
<1>7. CASE ~(view = "list" \/ (view = "consumers" /\ ~found.present)) /\ found.consumer
  <2>1. verdict' = verdict /\ stage' = "describe"
    BY <1>1, <1>7 DEF GoesOn
  <2>2. QED
    BY <1>3, <1>4, <1>5, <1>7, <2>1 DEF GInv, PageGoesOn
<1>8. CASE ~(view = "list" \/ (view = "consumers" /\ ~found.present)) /\ ~found.consumer
  <2>1. Classified(found.members, FALSE)
    BY <1>1, <1>8
  <2>2. CASE view = "consumers" /\ Classify(found.members) = "moved"
    <3>1. verdict' = "hidden" /\ stage' = "none"
      BY <2>1, <2>2 DEF Classified, Says
    <3>2. QED
      BY <1>3, <1>4, <2>2, <3>1 DEF GInv, PageGoesOn
  <2>3. CASE ~(view = "consumers" /\ Classify(found.members) = "moved")
    <3>1. verdict' = verdict /\ stage' = "lag"
          /\ (view = "consumers" => assigned' = found.members)
      BY <2>1, <2>3 DEF Classified, GoesOn
    <3>2. MustShow' /\ tracked' = "assigned" => AssignedHere(assigned')
      BY <1>3, <1>4, <3>1
    <3>3. QED
      BY <1>3, <1>4, <3>1, <3>2 DEF GInv, PageGoesOn, AssignedHere
  <2>4. QED
    BY <2>2, <2>3
<1>9. QED
  BY <1>6, <1>7, <1>8

\* Without a roster the tab is an error; it hides nothing.
LEMMA RosterFailsInv ==
    ASSUME GInv, RosterFails
    PROVE  GInv'
<1>1. /\ stage = "roster" /\ Fails /\ UNCHANGED <<world, view, began>>
      /\ IF view = "lags" THEN GoesOn("lag") ELSE Says("error")
  BY DEF RosterFails
<1>2. GroupFacts' /\ CachesTell' /\ PendingTells' /\ (MustShow' <=> MustShow)
  BY <1>1, FailureTells
<1>3. verdict = "none" /\ view' = view /\ view # "none" /\ (MustShow => view = "consumers")
  BY <1>1 DEF GInv, PageGoesOn, MustShow
<1>4. \/ view = "lags" /\ stage' = "lag" /\ verdict' = verdict
      \/ stage' = "none" /\ verdict' = "error"
  BY <1>1 DEF GoesOn, Says
<1>5. QED
  BY <1>2, <1>3, <1>4 DEF GInv, PageGoesOn

\* A group that a coordinator describes, or fails to, is one of the new
\* protocol.
LEMMA ClassifiedInv ==
    ASSUME GInv, stage = "describe", NEW members, NEW known, Classified(members, known),
           GroupFacts', CachesTell', PendingTells', MustShow' => MustShow, UNCHANGED <<world, view, began>>,
           MustShow' => Classify(members) # "moved"
    PROVE  GInv'
<1>1. verdict = "none" /\ view' = view /\ view # "none" /\ tracked' = tracked
      /\ (MustShow => view = "consumers" /\ tracked # "assigned")
  BY DEF GInv, PageGoesOn, MustShow, world, past
<1>2. \/ view = "consumers" /\ Classify(members) = "moved" /\ stage' = "none" /\ verdict' = "hidden"
      \/ stage' = "lag" /\ verdict' = verdict
  BY DEF Classified, GoesOn, Says
<1>3. QED
  BY <1>1, <1>2 DEF GInv, PageGoesOn

\* A description says where the members are.
LEMMA ReadDescriptionInv ==
    ASSUME GInv, ReadDescription
    PROVE  GInv'
<1>1. PICK found \in Answers : Answer(found) /\ Classified(found.members, ~found.dead)
  BY DEF ReadDescription
<1>2. stage = "describe" /\ UNCHANGED <<world, view, began>>
  BY DEF ReadDescription
<1>3. /\ GroupFacts' /\ CachesTell' /\ PendingTells' /\ (MustShow' => MustShow)
      /\ MustShow' => Classify(found.members) # "moved"
  BY <1>1, <1>2, AnswerTells DEF DescriptionTells
<1>4. QED
  BY <1>1, <1>2, <1>3, ClassifiedInv

\* A group that nobody describes is inspected.
LEMMA DescriptionFailsInv ==
    ASSUME GInv, DescriptionFails
    PROVE  GInv'
<1>1. stage = "describe" /\ Fails /\ UNCHANGED <<world, view, began>>
  BY DEF DescriptionFails
<1>2. GroupFacts' /\ CachesTell' /\ PendingTells' /\ (MustShow' <=> MustShow)
  BY <1>1, FailureTells
<1>3. Classify({}) # "moved"
  BY DEF Classify, AssignedHere
<1>4. CASE Classified({}, FALSE)
  BY <1>1, <1>2, <1>3, <1>4, ClassifiedInv
<1>5. CASE view = "detail" /\ Says("error")
  <2>1. stage' = "none" /\ verdict' = "error" /\ view' = view
    BY <1>1, <1>5 DEF Says
  <2>2. QED
    BY <1>2, <1>5, <2>1 DEF GInv, PageGoesOn
<1>6. QED
  BY <1>4, <1>5 DEF DescriptionFails

\* The last step of a page that must show the group lists it.
LEMMA ReadLagInv ==
    ASSUME GInv, ReadLag
    PROVE  GInv'
<1>1. PICK found \in Answers :
        /\ Answer(found)
        /\ Says(CASE view = "consumers" -> Inspect(found)
                  [] view = "lags" -> "listed"
                  [] view = "detail" -> Detail(found))
        /\ omitted' = (view = "consumers" /\ Here \in found.failed)
  BY DEF ReadLag
<1>2. stage = "lag" /\ UNCHANGED <<world, view, began>>
  BY DEF ReadLag
<1>3. /\ GroupFacts' /\ CachesTell' /\ PendingTells' /\ (MustShow' => MustShow)
      /\ MustShow' /\ tracked # "assigned" => Here \in found.rows \cup found.unknown \cup found.failed
  BY <1>1, <1>2, AnswerTells DEF LagTells
<1>4. /\ view' = view /\ view # "none" /\ tracked' = tracked /\ stage' = "none"
      /\ view = "consumers" => verdict' = Inspect(found)
  BY <1>1, <1>2 DEF world, past, Says, GInv, PageGoesOn
<1>5. MustShow' => view = "consumers" /\ (tracked = "assigned" => AssignedHere(assigned))
  BY <1>2, <1>3, <1>4 DEF GInv, PageGoesOn, MustShow
<1>6. MustShow' /\ ~omitted' => verdict' = "listed"
  BY <1>1, <1>3, <1>4, <1>5 DEF Inspect, Classify
<1>7. QED
  BY <1>3, <1>4, <1>6 DEF GInv, PageGoesOn

\* Uncertainty is told as such.
LEMMA LagFailsInv ==
    ASSUME GInv, LagFails
    PROVE  GInv'
<1>1. /\ stage = "lag" /\ Fails /\ UNCHANGED <<world, view, began>>
      /\ Says(CASE view = "consumers" -> IF Classify(assigned) = "assigned" THEN "listed" ELSE "unchecked"
                [] view = "lags" -> "listed"
                [] view = "detail" -> "error")
  BY DEF LagFails
<1>2. GroupFacts' /\ CachesTell' /\ PendingTells' /\ (MustShow' <=> MustShow)
  BY <1>1, FailureTells
<1>3. /\ view' = view /\ view # "none" /\ stage' = "none"
      /\ view = "consumers" => verdict' \in {"listed", "unchecked"}
  BY <1>1 DEF Says, GInv, PageGoesOn
<1>4. QED
  BY <1>2, <1>3 DEF GInv, PageGoesOn, MustShow

\* A page that was sent is forgotten.
LEMMA CloseViewInv ==
    ASSUME GInv, CloseView
    PROVE  GInv'
<1>1. /\ UNCHANGED <<clock, group, tracked, since, roster, described, lag, pending, stage>>
      /\ ~Cached(pending) /\ stage = "none" /\ began' = 0 /\ view' = "none" /\ verdict' = "none"
  BY DEF CloseView, world, past, caches, GInv, PageGoesOn, PendingTells
<1>2. GroupFacts'
  BY <1>1 DEF GInv, GroupFacts, Related, AssignedHere
<1>3. CachesTell' /\ PendingTells'
  BY <1>1
  DEF GInv, CachesTell, PendingTells, Cached, RosterTells, DescriptionTells, LagTells, AssignedHere
<1>4. QED
  BY <1>1, <1>2, <1>3 DEF GInv, PageGoesOn, MustShow

\* A group that is to be shown from now on was not sampled as such yet, and no
\* page that began before must show it yet.
LEMMA GroupChangesInv ==
    ASSUME GInv, NEW members, NEW held, NEW dead \in BOOLEAN, GroupChanges(members, held, dead)
    PROVE  GInv'
<1>1. /\ dead => members = {}
      /\ group' = [group EXCEPT !.members = members, !.held = held, !.dead = dead]
      /\ since' = IF ~Related(group') THEN Never ELSE IF Related(group) THEN since ELSE clock
      /\ UNCHANGED <<clock, tracked, roster, described, lag, view, began, stage,
                     assigned, pending, inherited, omitted, verdict>>
      /\ verdict = "none"
  BY DEF GroupChanges, caches, request, history
<1>2. /\ group' = [consumer |-> group.consumer, members |-> members, held |-> held, dead |-> dead]
      /\ group'.consumer = group.consumer
  BY <1>1 DEF GInv, GroupFacts
<1>3. clock \in Nat /\ began \in 0 .. clock /\ Never \notin Nat /\ IdleTtl \in Nat /\ IdleTtl > 0
      /\ MaxRead \in Nat
  BY GroupViewsAssumption DEF GInv, GroupFacts
<1>4. Related(group)' <=> Related(group')
  BY <1>1 DEF Related, AssignedHere
<1>5. since' \in {Never, clock} \/ (since' = since /\ since # Never)
  BY <1>1 DEF GInv, GroupFacts
<1>6. GroupFacts'
  <2>1. /\ group' = [consumer |-> group'.consumer, members |-> group'.members,
                     held |-> group'.held, dead |-> group'.dead]
        /\ group'.dead => group'.members = {}
    BY <1>1, <1>2
  <2>2. /\ since' = Never \/ since' \in 0 .. clock
        /\ since' # Never <=> Related(group')
    BY <1>1, <1>3 DEF GInv, GroupFacts
  <2>3. clock' = clock /\ began' = began /\ clock <= LastMoment
    BY <1>1 DEF GInv, GroupFacts
  <2>4. QED
    BY <1>3, <1>4, <2>1, <2>2, <2>3 DEF GroupFacts
<1>7. CachesTell' /\ PendingTells'
  <2>1. CachesTell'
    BY <1>1, <1>2, <1>3, <1>5
    DEF GInv, CachesTell, Cached, Classify, AssignedHere, RosterTells, DescriptionTells, LagTells
  <2>2. PendingTells'
    <3>1. ASSUME Cached(pending)
          PROVE  /\ pending.at \in Nat /\ pending.at <= clock
                 /\ since' # Never /\ pending.at > since' => since # Never /\ since' = since
      BY <1>3, <1>5, <3>1 DEF GInv, PendingTells
    <3>2. QED
      BY <1>1, <1>2, <3>1
      DEF GInv, PendingTells, Cached, Classify, AssignedHere, RosterTells, DescriptionTells, LagTells
  <2>3. QED
    BY <2>1, <2>2
<1>8. MustShow' => MustShow
  BY <1>1, <1>3, <1>5 DEF MustShow
<1>9. PageGoesOn'
  BY <1>1, <1>8 DEF GInv, PageGoesOn, AssignedHere
<1>10. QED
  BY <1>6, <1>7, <1>9 DEF GInv

\* Time passes; no entry becomes newer.
LEMMA TickGroupsInv ==
    ASSUME GInv, TickGroups
    PROVE  GInv'
<1>1. /\ clock' = clock + 1 /\ clock < LastMoment
      /\ Cached(pending) => clock < pending.at + MaxRead
      /\ UNCHANGED <<group, tracked, since, roster, described, lag, view, began, stage,
                     assigned, pending, inherited, omitted, verdict>>
  BY DEF TickGroups, past, caches, request, history
<1>2. GroupFacts' /\ 0 .. clock \subseteq 0 .. clock'
  BY <1>1, GroupViewsAssumption DEF GInv, GroupFacts, Related, AssignedHere
<1>3. CachesTell' /\ PendingTells'
  <2>1. CachesTell'
    BY <1>1, <1>2
    DEF GInv, CachesTell, Cached, RosterTells, DescriptionTells, LagTells, AssignedHere
  <2>2. ASSUME Cached(pending)
        PROVE  pending.at \in began .. clock' /\ clock' <= pending.at + MaxRead
    BY <1>1, <2>2, GroupViewsAssumption DEF GInv, GroupFacts, PendingTells
  <2>3. PendingTells'
    BY <1>1, <2>2
    DEF GInv, PendingTells, Cached, RosterTells, DescriptionTells, LagTells, AssignedHere
  <2>4. QED
    BY <2>1, <2>3
<1>4. PageGoesOn'
  BY <1>1 DEF GInv, PageGoesOn, MustShow, AssignedHere
<1>5. QED
  BY <1>2, <1>3, <1>4 DEF GInv

\* A step of another part.
LEMMA GroupStutter ==
    ASSUME GInv, UNCHANGED groupViewVars
    PROVE  GInv'
<1>1. UNCHANGED <<clock, group, tracked, since, roster, described, lag, view, began, stage,
                  assigned, pending, inherited, omitted, verdict>>
  BY DEF groupViewVars, past, caches, request, history
<1>2. GroupFacts' /\ CachesTell' /\ PendingTells' /\ PageGoesOn'
  BY <1>1
  DEF GInv, GroupFacts, CachesTell, PendingTells, PageGoesOn, MustShow, Related, AssignedHere,
      Cached, Classify, RosterTells, DescriptionTells, LagTells
<1>3. QED
  BY <1>2 DEF GInv

\* Every step of a page, of the group or of time keeps the invariant.
LEMMA GroupNext == GInv /\ GroupViewsNext => GInv'
  BY OpenViewInv, LearnsInv, ReadRosterInv, RosterFailsInv, ReadDescriptionInv, DescriptionFailsInv,
     ReadLagInv, LagFailsInv, CloseViewInv, TickGroupsInv, GroupChangesInv
  DEF GroupViewsNext

\* What the invariant is for.
LEMMA GroupIsShown == GInv => GroupViewsTypeOK /\ ConsumerIsShown
<1> SUFFICES ASSUME GInv PROVE GroupViewsTypeOK /\ ConsumerIsShown
  OBVIOUS
<1>1. GroupViewsTypeOK
  BY GroupViewsAssumption
  DEF GInv, GroupFacts, CachesTell, PendingTells, PageGoesOn, GroupViewsTypeOK
<1>2. ConsumerIsShown
  <2>1. since # Never => since \in Nat /\ IdleTtl \in Nat /\ MaxRead \in Nat /\ began \in Nat
    BY GroupViewsAssumption DEF GInv, GroupFacts
  <2>2. QED
    BY <2>1 DEF GInv, PageGoesOn, MustShow, ConsumerIsShown
<1>3. QED
  BY <1>1, <1>2

-----------------------------------------------------------------------------
(* The whole (MCClusterViews): types, and each part's invariant in its run.  *)

\* A single flight starts with nobody in it.
LEMMA FlightStarts == FlightInit => FlightTypeOK
  BY MaxWaitAssumption DEF FlightInit, FlightTypeOK, OwnerPlaces, OtherPlaces

\* A caller goes from place to place and may drop its guard.
LEMMA FlightMoves ==
    ASSUME FlightTypeOK, NEW c \in Callers, NEW place \in OwnerPlaces \cup OtherPlaces,
           Move(c, place), inFlight' \subseteq inFlight, UNCHANGED <<key, waited>>
    PROVE  FlightTypeOK'
  BY DEF FlightTypeOK, Move

\* A caller enters the flight, or stops waiting for it.
LEMMA FlightGoesOn ==
    ASSUME FlightTypeOK, NEW c \in Callers, Begin(c) \/ Wake(c)
    PROVE  FlightTypeOK'
<1>1. CASE Begin(c)
  BY <1>1 DEF FlightTypeOK, Begin, Move, OwnerPlaces, OtherPlaces
<1>2. CASE Wake(c)
  BY <1>2, MaxWaitAssumption DEF FlightTypeOK, Wake, Move, OwnerPlaces, OtherPlaces
<1>3. QED
  BY <1>1, <1>2

\* Those who wait have waited longer, up to the limit.
LEMMA FlightWaits ==
    ASSUME FlightTypeOK, WaitLonger, UNCHANGED <<inFlight, at, key>>
    PROVE  FlightTypeOK'
  BY MaxWaitAssumption DEF FlightTypeOK, WaitLonger

\* A step outside the flight.
LEMMA FlightRests ==
    ASSUME FlightTypeOK, UNCHANGED flightVars
    PROVE  FlightTypeOK'
  BY DEF FlightTypeOK, flightVars

\* A page's readers keep to the flight's places.
LEMMA DetailFlight == FlightTypeOK /\ [DetailNext]_detailVars => FlightTypeOK'
<1> SUFFICES ASSUME FlightTypeOK, [DetailNext]_detailVars PROVE FlightTypeOK'
  OBVIOUS
<1>1. {"idle", "acquire", "alone"} \subseteq OwnerPlaces \cup OtherPlaces
  BY DEF OwnerPlaces, OtherPlaces
<1>2. CASE UNCHANGED detailVars
  BY <1>2, FlightRests DEF detailVars
<1>3. ASSUME NEW c \in Callers, BeginPage(c) \/ WakePage(c)
      PROVE  FlightTypeOK'
  BY <1>3, FlightGoesOn DEF BeginPage, WakePage
<1>4. ASSUME NEW c \in Callers, RequestPage(c) \/ RereadPage(c)
      PROVE  FlightTypeOK'
  <2>1. PICK place \in {"idle", "acquire", "alone"} : Move(c, place)
    BY <1>4 DEF RequestPage, RereadPage
  <2>2. UNCHANGED <<inFlight, key, waited>>
    BY <1>4 DEF RequestPage, RereadPage
  <2>3. QED
    BY <1>1, <2>1, <2>2, FlightMoves
<1>5. ASSUME NEW c \in Callers, PageFails(c) \/ StorePage(c)
      PROVE  FlightTypeOK'
  <2>1. Move(c, "idle") /\ inFlight' \subseteq inFlight /\ UNCHANGED <<key, waited>>
    BY <1>5 DEF PageFails, StorePage, LeavePage, DropGuard
  <2>2. QED
    BY <1>1, <2>1, FlightMoves
<1>6. ASSUME NEW c \in Callers,
             AskPageHeads(c) \/ ((ListHeads(c) \/ InsertHeads(c)) /\ UNCHANGED <<flightVars, page>>)
      PROVE  FlightTypeOK'
  BY <1>6, FlightRests DEF AskPageHeads
<1>7. CASE TickDetail
  BY <1>7, FlightWaits DEF TickDetail
<1>8. QED
  BY <1>2, <1>3, <1>4, <1>5, <1>6, <1>7, FlightRests DEF DetailNext

\* So do the samplers of a lag.
LEMMA LagFlight == FlightTypeOK /\ [LagNext]_lagVars => FlightTypeOK'
<1> SUFFICES ASSUME FlightTypeOK, [LagNext]_lagVars PROVE FlightTypeOK'
  OBVIOUS
<1>1. {"idle", "acquire", "alone"} \subseteq OwnerPlaces \cup OtherPlaces
  BY DEF OwnerPlaces, OtherPlaces
<1>2. CASE UNCHANGED lagVars
  BY <1>2, FlightRests DEF lagVars
<1>3. ASSUME NEW c \in Callers, BeginFlight(c) \/ WakeUp(c)
      PROVE  FlightTypeOK'
  BY <1>3, FlightGoesOn DEF BeginFlight, WakeUp
<1>4. ASSUME NEW c \in Callers, RequestLag(c) \/ Reread(c)
      PROVE  FlightTypeOK'
  <2>1. PICK place \in {"idle", "acquire", "alone"} : Move(c, place)
    BY <1>4 DEF RequestLag, Reread
  <2>2. UNCHANGED <<inFlight, key, waited>>
    BY <1>4 DEF RequestLag, Reread
  <2>3. QED
    BY <1>1, <2>1, <2>2, FlightMoves
<1>5. ASSUME NEW c \in Callers, ReadNothing(c) \/ SampleFails(c) \/ StorePair(c)
      PROVE  FlightTypeOK'
  <2>1. Leave(c)
    BY <1>5 DEF ReadNothing, SampleFails, StorePair
  <2>2. Move(c, "idle") /\ inFlight' \subseteq inFlight /\ UNCHANGED <<key, waited>>
    BY <2>1 DEF Leave, DropGuard
  <2>3. QED
    BY <1>1, <2>2, FlightMoves
<1>6. ASSUME NEW c \in Callers, ReadCommits(c) \/ AskHeads(c) \/ List(c) \/ Insert(c)
      PROVE  FlightTypeOK'
  BY <1>6, FlightRests DEF ReadCommits, AskHeads, List, Insert
<1>7. ASSUME NEW p \in Partitions, Commit(p) \/ Append(p)
      PROVE  FlightTypeOK'
  BY <1>7, FlightRests DEF Commit, Append
<1>8. CASE TickLag
  BY <1>8, FlightWaits DEF TickLag
<1>9. QED
  BY <1>2, <1>3, <1>4, <1>5, <1>6, <1>7, <1>8, FlightRests DEF LagNext

\* The clock never runs backwards, whoever reads the heads.
LEMMA ClockRises ==
    ASSUME now \in Nat, [DetailNext]_detailVars \/ [LagNext]_lagVars
    PROVE  now' \in Nat /\ now <= now'
<1>1. /\ \A r : ListHeads(r) \/ InsertHeads(r) => now' = now
      /\ \A r, wanted, ttl : Ensure(r, wanted, ttl) => now' = now
      /\ \A r : Reads(r) => now' = now
      /\ \A p : Produce(p) => now' = now
      /\ AdvanceClock => now' = now + 1
  BY DEF Reads, Ask, Ensure, ListHeads, InsertHeads, Fail, Use, Produce, AdvanceClock, headVars
<1>2. CASE [DetailNext]_detailVars
  BY <1>1, <1>2
  DEF DetailNext, detailVars, RequestPage, BeginPage, WakePage, RereadPage, AskPageHeads,
      PageFails, StorePage, TickDetail, headVars
<1>3. CASE [LagNext]_lagVars
  BY <1>1, <1>3
  DEF LagNext, lagVars, RequestLag, BeginFlight, WakeUp, Reread, ReadCommits, ReadNothing,
      SampleFails, AskHeads, HeadsOf, List, Insert, StorePair,
      Commit, Append, TickLag, headVars
<1>4. QED
  BY <1>1, <1>2, <1>3

\* The page was put together at a moment that has passed.
PageMoment == page # NoPage => page.at \in 0 .. now

\* The page that is stored is of this moment.
LEMMA PageMomentNext ==
    ASSUME now \in Nat, PageMoment, [DetailNext]_detailVars
    PROVE  PageMoment'
<1>1. now' \in Nat /\ now <= now'
  BY ClockRises
<1>2. page' = page \/ page'.at = now
  BY DEF DetailNext, detailVars, RequestPage, BeginPage, WakePage, RereadPage, AskPageHeads,
         PageFails, StorePage, TickDetail
<1>3. QED
  BY <1>1, <1>2 DEF PageMoment

\* The pair is of a moment that has passed.
PairTypes ==
    entry # NoEntry =>
         entry \in [rows : OptionalOffsets, ends : OptionalOffsets,
                    unknown : SUBSET Partitions, at : 0 .. now, truth : Truths]

\* The pair that is stored is of this moment.
LEMMA PairTypesNext ==
    ASSUME LInv, PairTypes, [LagNext]_lagVars
    PROVE  PairTypes'
<1>1. now \in Nat /\ now' \in Nat /\ now <= now'
  <2>1. now \in Nat
    BY WatermarksAssumption DEF LInv, WInv, WatermarksTypeOK, Times
  <2>2. QED
    BY <2>1, ClockRises
<1>2. OptionalOffsets' = OptionalOffsets /\ Truths' = Truths
  BY DEF OptionalOffsets, Offsets, Truths
<1>3. ASSUME entry' = entry
      PROVE  PairTypes'
  <2>1. 0 .. now \subseteq 0 .. now'
    BY <1>1
  <2>2. ASSUME entry # NoEntry
        PROVE  entry \in [rows : OptionalOffsets, ends : OptionalOffsets,
                          unknown : SUBSET Partitions, at : 0 .. now', truth : Truths]
    BY <2>1, <2>2 DEF PairTypes
  <2>3. QED
    BY <1>2, <1>3, <2>2 DEF PairTypes
<1>4. ASSUME NEW c \in Callers, ReadNothing(c)
      PROVE  PairTypes'
  <2>1. /\ entry' = [rows |-> NoCommits, ends |-> NoCommits, unknown |-> {}, at |-> now,
                     truth |-> TruthOf({})]
        /\ now' = now
    BY <1>4 DEF ReadNothing, headVars
  <2>2. NoCommits \in OptionalOffsets /\ TruthOf({}) \in Truths
    BY TruthIsTyped DEF OptionalOffsets, NoCommits
  <2>3. QED
    BY <1>1, <1>2, <2>1, <2>2 DEF PairTypes
<1>5. ASSUME NEW c \in Callers, StorePair(c)
      PROVE  PairTypes'
  <2> DEFINE rows == {p \in Held(commits[c]) : ask[c].heads[p] # NoOffset}
             kept == [p \in Partitions |-> IF p \in rows THEN commits[c][p] ELSE NoOffset]
             ends == [p \in Partitions |-> IF p \in rows THEN ask[c].heads[p] ELSE NoOffset]
             lost == Unknown(commits[c], ask[c].heads)
  <2>1. /\ entry' = [rows |-> kept, ends |-> ends, unknown |-> lost, at |-> now, truth |-> truth[c]]
        /\ now' = now
    BY <1>5 DEF StorePair, headVars
  <2>2. commits[c] \in OptionalOffsets /\ ask[c].heads \in OptionalOffsets /\ truth[c] \in Truths
    BY GroupLagAssumption DEF LInv, LagTypes, WInv, WatermarksTypeOK, OptionalOffsets
  <2>3. kept \in OptionalOffsets /\ ends \in OptionalOffsets
    BY <2>2 DEF OptionalOffsets
  <2>4. lost \in SUBSET Partitions
    BY DEF Unknown, Held
  <2> HIDE DEF rows, kept, ends, lost
  <2>5. QED
    BY <1>1, <1>2, <2>1, <2>2, <2>3, <2>4 DEF PairTypes
<1>6. ASSUME NEW c \in Callers,
             \/ RequestLag(c) \/ BeginFlight(c) \/ WakeUp(c) \/ Reread(c)
             \/ ReadCommits(c) \/ SampleFails(c) \/ AskHeads(c) \/ List(c) \/ Insert(c)
      PROVE  PairTypes'
  BY <1>3, <1>6
  DEF RequestLag, BeginFlight, WakeUp, Reread, ReadCommits, SampleFails, AskHeads, List, Insert, groupVars
<1>7. ASSUME NEW p \in Partitions, Commit(p) \/ Append(p)
      PROVE  PairTypes'
  BY <1>3, <1>7 DEF Commit, Append, groupVars
<1>8. CASE TickLag \/ UNCHANGED lagVars
  BY <1>3, <1>8 DEF TickLag, lagVars, groupVars
<1>9. QED
  BY <1>3, <1>4, <1>5, <1>6, <1>7, <1>8 DEF LagNext, groupVars

\* No client is made but by a swap, and there are no more than that.
Numbered == resident \in 0 .. MaxSwaps /\ clients \subseteq 0 .. MaxSwaps

\* Calls only ever destroy clients.
LEMMA NumberedNext ==
    ASSUME Numbered, [AdminCallNext]_callVars
    PROVE  Numbered'
<1>1. CASE Swap
  <2>1. resident' \in 0 .. MaxSwaps
    BY <1>1, AdminCallAssumption DEF Numbered, Swap
  <2>2. clients' \subseteq clients \cup {resident'}
    BY <1>1 DEF Swap
  <2>3. QED
    BY <2>1, <2>2 DEF Numbered
<1>2. ASSUME resident' = resident, clients' \subseteq clients
      PROVE  Numbered'
  BY <1>2 DEF Numbered
<1>3. \A r \in Requests : \A result, kept :
        Leaves(r, result, kept) => resident' = resident /\ clients' \subseteq clients
  BY DEF Leaves
<1>4. QED
  BY <1>1, <1>2, <1>3
  DEF AdminCallNext, callVars, NewCall, RefuseName, RefuseTopic, Issue, Await, CallFails, Read, ReadFails, Forget

\* The invariant of the whole: whichever part runs, the others are as they
\* were at first.
ClusterInv ==
    /\ part \in {"detail", "lag", "groups", "calls"}
    /\ FlightTypeOK /\ GInv /\ CallInv /\ Numbered
    /\ part # "lag" => DInv /\ PageMoment /\ entry = NoEntry
    /\ part = "lag" => LInv /\ UInv /\ PairTypes /\ page = NoPage

\* Every part starts as its own specification says.
LEMMA ClusterStarts == ClusterInit => ClusterInv
<1> SUFFICES ASSUME ClusterInit PROVE ClusterInv
  OBVIOUS
<1>1. DInv /\ LInv /\ UInv /\ GInv /\ CallInv /\ FlightTypeOK
  BY DetailInitInv, LagInitInv, TotalsInit, GroupInit, CallInit, FlightStarts
  DEF ClusterInit, DetailInit
<1>2. page = NoPage /\ entry = NoEntry /\ PageMoment /\ PairTypes
  BY DEF ClusterInit, DetailInit, LagInit, WatermarksInit, PageMoment, PairTypes
<1>3. Numbered
  BY AdminCallAssumption DEF ClusterInit, AdminCallInit, Numbered
<1>4. QED
  BY <1>1, <1>2, <1>3 DEF ClusterInit, ClusterInv

\* A step is a step of the part that runs, and a stutter of the others.
LEMMA ClusterGoesOn == ClusterInv /\ [ClusterNext]_clusterVars => ClusterInv'
<1> SUFFICES ASSUME ClusterInv, [ClusterNext]_clusterVars PROVE ClusterInv'
  OBVIOUS
<1>1. /\ part' = part /\ part \in {"detail", "lag", "groups", "calls"}
      /\ FlightTypeOK /\ GInv /\ CallInv /\ Numbered
  BY DEF ClusterInv, ClusterNext, clusterVars
<1>2. GInv'
  BY <1>1, GroupNext, GroupStutter DEF ClusterNext, clusterVars
<1>3. CallInv' /\ Numbered'
  BY <1>1, CallNext, NumberedNext DEF ClusterNext, clusterVars
<1>4. CASE part = "lag"
  <2>1. LInv /\ UInv /\ PairTypes /\ page = NoPage
    BY <1>4 DEF ClusterInv
  <2>2. [LagNext]_lagVars /\ page' = page
    BY <1>4
    DEF ClusterNext, clusterVars, lagVars, lagOnly, groupVars, headVars, cacheVars, flightVars
  <2>3. LInv' /\ UInv' /\ FlightTypeOK' /\ PairTypes'
    BY <1>1, <2>1, <2>2, LagNextInv, TotalsNext, LagFlight, PairTypesNext
  <2>4. QED
    BY <1>1, <1>2, <1>3, <1>4, <2>1, <2>2, <2>3 DEF ClusterInv
<1>5. CASE part # "lag"
  <2>1. DInv /\ PageMoment /\ entry = NoEntry
    BY <1>5 DEF ClusterInv
  <2>2. [DetailNext]_detailVars /\ entry' = entry
    BY <1>5
    DEF ClusterNext, clusterVars, detailVars, lagOnly, groupVars, headVars, cacheVars, flightVars
  <2>3. now \in Nat
    BY <2>1, WatermarksAssumption DEF DInv, WInv, WatermarksTypeOK, Times
  <2>4. DInv' /\ PageMoment' /\ FlightTypeOK'
    BY <1>1, <2>1, <2>2, <2>3, DetailNextInv, PageMomentNext, DetailFlight
  <2>5. QED
    BY <1>1, <1>2, <1>3, <1>5, <2>1, <2>2, <2>4 DEF ClusterInv
<1>6. QED
  BY <1>4, <1>5

\* The inductive invariant of the whole.
THEOREM ClusterInvariant == ClusterSpec => []ClusterInv
  BY ClusterStarts, ClusterGoesOn, PTL DEF ClusterSpec

\* Every part's variables keep their types, and the moments they record have
\* passed.
THEOREM ClusterTypeOKHolds == ClusterSpec => []ClusterTypeOK
<1>1. ASSUME ClusterInv PROVE ClusterTypeOK
  <2>1. CASE part = "detail"
    BY <1>1, <2>1 DEF ClusterInv, DInv, WInv, PageTypes, PageMoment, DetailTypeOK, ClusterTypeOK
  <2>2. CASE part = "lag"
    BY <1>1, <2>2
    DEF ClusterInv, LInv, UInv, TotalsHold, WInv, LagTypes, OptionalOffsets, PairTypes, LagTypeOK, ClusterTypeOK
  <2>3. CASE part = "groups"
    BY <1>1, <2>3, GroupIsShown DEF ClusterInv, ClusterTypeOK
  <2>4. CASE part = "calls"
    BY <1>1, <2>4 DEF ClusterInv, Numbered, CallInv, CallTypes, AdminCallTypeOK, ClusterTypeOK
  <2>5. QED
    BY <1>1, <2>1, <2>2, <2>3, <2>4 DEF ClusterInv
<1>2. QED
  BY <1>1, ClusterInvariant, PTL

\* topic_consumers: a group that must be shown on the topic's tab, and has had to
\* be for as long as a read may last and its answer be kept, is not left out,
\* whichever of its reads fails or is old, but for the entries of a lag that
\* failed and for an answer inherited from another reader.
THEOREM ConsumerIsShownHolds == ClusterSpec => []ConsumerIsShown
<1>1. ClusterInv => ConsumerIsShown
  BY GroupIsShown DEF ClusterInv
<1>2. QED
  BY <1>1, ClusterInvariant, PTL

\* What the parts promise one by one they promise in the run of the whole.
THEOREM ClusterKeepsPromises ==
    ClusterSpec => [](HeadsAreHonest /\ PairIsPossible /\ LagNotUnderstated
                      /\ PageIsAsOldAsItSays /\ CallsAreSound)
<1>1. ASSUME ClusterInv
      PROVE  HeadsAreHonest /\ PairIsPossible /\ LagNotUnderstated
             /\ PageIsAsOldAsItSays /\ CallsAreSound
  BY <1>1, HonestFromInv
  DEF ClusterInv, DInv, LInv, UInv, CallInv, PairIsPossible, LagNotUnderstated, PageIsAsOldAsItSays
<1>2. QED
  BY <1>1, ClusterInvariant, PTL

=============================================================================
