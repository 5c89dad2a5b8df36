--------------------------- MODULE SelfHealProofs ---------------------------
(***************************************************************************)
(* Proofs of the safety properties of SelfHeal, for any number of          *)
(* concurrent checks, any threshold and any width of the failure count.    *)
(***************************************************************************)
EXTENDS SelfHeal, TLAPS

\* Why nobody masks an outage: a running check has recorded every moment the
\* path was up, the present one included.
PresentIsRecorded == \A c \in Checkers : path /\ phase[c] # "idle" => reached[c]

\* The inductive invariant: the two properties and what the second rests on.
HealInv == HealTypeOK /\ ProbeIsExclusive /\ OutageNotMasked /\ PresentIsRecorded

USE DEF ProbePlaces, CheckPlaces

\* At the start nobody checks.
LEMMA InitHealInv == HealInit => HealInv
<1> SUFFICES ASSUME HealInit PROVE HealInv
  OBVIOUS
<1> USE DEF HealInit
<1>1. failures \in 0 .. MaxCount /\ phase \in [Checkers -> ProbePlaces \cup CheckPlaces]
  BY SelfHealAssumption
<1>2. /\ path \in BOOLEAN /\ wedged \in BOOLEAN /\ probing \in BOOLEAN
      /\ broken \in [Checkers -> BOOLEAN]
      /\ reached \in [Checkers -> BOOLEAN]
  BY Zenon
<1>3. \A c \in Checkers : phase[c] = "idle"
  OBVIOUS
<1>4. HealTypeOK
  BY <1>1, <1>2 DEF HealTypeOK
<1>5. ProbeIsExclusive /\ OutageNotMasked /\ PresentIsRecorded
  BY <1>3 DEF ProbeIsExclusive, OutageNotMasked, PresentIsRecorded
<1> QED
  BY <1>4, <1>5 DEF HealInv

\* The count stays within the width of health_failures.
LEMMA SaturatingAddRange == \A n \in 0 .. MaxCount : SaturatingAdd(n) \in 0 .. MaxCount
  BY SelfHealAssumption DEF SaturatingAdd

\* Every action keeps every variable within its type.
LEMMA NextTypeOK == HealInv /\ [HealNext]_healVars => HealTypeOK'
<1> SUFFICES ASSUME HealInv, [HealNext]_healVars PROVE HealTypeOK'
  OBVIOUS
<1> USE SelfHealAssumption DEF HealInv, HealTypeOK, Goes, hosts, counters, healVars
<1>1. ASSUME NEW c \in Checkers, Check(c) PROVE HealTypeOK'
  BY <1>1 DEF Check
<1>2. ASSUME NEW c \in Checkers, Count(c) PROVE HealTypeOK'
  BY <1>2, SaturatingAddRange DEF Count
<1>3. ASSUME NEW c \in Checkers, Compete(c) PROVE HealTypeOK'
  BY <1>3 DEF Compete, CompareExchange
<1>4. ASSUME NEW c \in Checkers, DescribeAnswers(c) \/ Reset(c) \/ DescribeFails(c) PROVE HealTypeOK'
  BY <1>4 DEF DescribeAnswers, Reset, DescribeFails
<1>5. ASSUME NEW c \in Checkers, ProbeFails(c) PROVE HealTypeOK'
  BY <1>5 DEF ProbeFails, DropProbe
<1>6. ASSUME NEW c \in Checkers, ProbeReaches(c) \/ Swap(c) PROVE HealTypeOK'
  BY <1>6 DEF ProbeReaches, Swap
<1>7. ASSUME NEW c \in Checkers, Heal(c) PROVE HealTypeOK'
  BY <1>7 DEF Heal
<1>8. ASSUME NEW c \in Checkers, Release(c) PROVE HealTypeOK'
  BY <1>8 DEF Release
<1>9. ASSUME Wedge \/ PathChanges \/ UNCHANGED healVars PROVE HealTypeOK'
  BY <1>9 DEF Wedge, PathChanges
<1> QED
  BY <1>1, <1>2, <1>3, <1>4, <1>5, <1>6, <1>7, <1>8, <1>9
     DEF HealNext, CheckStep

\* The compare-and-exchange admits one check to the probe and the guard's drop
\* lets the next one in.
LEMMA NextExclusive == HealInv /\ [HealNext]_healVars => ProbeIsExclusive'
<1> SUFFICES ASSUME HealInv, [HealNext]_healVars PROVE ProbeIsExclusive'
  OBVIOUS
<1> USE DEF HealInv, HealTypeOK, ProbeIsExclusive, Goes, hosts, counters, healVars
<1>1. ASSUME NEW c \in Checkers,
             Check(c) \/ DescribeAnswers(c) \/ Reset(c) \/ DescribeFails(c) \/ Count(c)
      PROVE ProbeIsExclusive'
  BY <1>1 DEF Check, DescribeAnswers, Reset, DescribeFails, Count
<1>2. ASSUME NEW c \in Checkers, Compete(c) PROVE ProbeIsExclusive'
  BY <1>2 DEF Compete, CompareExchange
<1>3. ASSUME NEW c \in Checkers, ProbeFails(c) \/ Release(c) PROVE ProbeIsExclusive'
  BY <1>3 DEF ProbeFails, DropProbe, Release
<1>4. ASSUME NEW c \in Checkers, ProbeReaches(c) \/ Swap(c) \/ Heal(c) PROVE ProbeIsExclusive'
  BY <1>4 DEF ProbeReaches, Swap, Heal
<1>5. ASSUME Wedge \/ PathChanges \/ UNCHANGED healVars PROVE ProbeIsExclusive'
  BY <1>5 DEF Wedge, PathChanges
<1> QED
  BY <1>1, <1>2, <1>3, <1>4, <1>5 DEF HealNext, CheckStep

\* A check starts by recording the path, and the path records itself with
\* every check when it changes.
LEMMA NextRecorded == HealInv /\ [HealNext]_healVars => PresentIsRecorded'
<1> SUFFICES ASSUME HealInv, [HealNext]_healVars PROVE PresentIsRecorded'
  OBVIOUS
<1> USE DEF HealInv, HealTypeOK, PresentIsRecorded, Goes, hosts, counters, healVars
<1>1. ASSUME NEW c \in Checkers, Check(c) PROVE PresentIsRecorded'
  BY <1>1 DEF Check
<1>2. ASSUME NEW c \in Checkers, CheckStep(c) PROVE PresentIsRecorded'
  BY <1>2 DEF CheckStep, DescribeAnswers, Reset, DescribeFails, Count, Compete,
              CompareExchange, ProbeFails, DropProbe, ProbeReaches, Swap, Heal, Release
<1>3. ASSUME Wedge \/ PathChanges \/ UNCHANGED healVars PROVE PresentIsRecorded'
  BY <1>3 DEF Wedge, PathChanges
<1> QED
  BY <1>1, <1>2, <1>3 DEF HealNext

\* A check comes to answer healthy, or to swap its client in, only by an answer
\* of the brokers, and the path was up then.
LEMMA NextNotMasked == HealInv /\ [HealNext]_healVars => OutageNotMasked'
<1> SUFFICES ASSUME HealInv, [HealNext]_healVars PROVE OutageNotMasked'
  OBVIOUS
<1> USE DEF HealInv, HealTypeOK, OutageNotMasked, Goes, hosts, counters, healVars
<1>1. ASSUME NEW c \in Checkers, Check(c) PROVE OutageNotMasked'
  BY <1>1 DEF Check
<1>2. ASSUME NEW c \in Checkers, DescribeAnswers(c) \/ ProbeReaches(c) PROVE OutageNotMasked'
  BY <1>2 DEF DescribeAnswers, ProbeReaches, Answered, PresentIsRecorded
<1>3. ASSUME NEW c \in Checkers,
             Reset(c) \/ DescribeFails(c) \/ Count(c) \/ Compete(c) \/ ProbeFails(c)
      PROVE OutageNotMasked'
  BY <1>3 DEF Reset, DescribeFails, Count, Compete, CompareExchange, ProbeFails, DropProbe
<1>4. ASSUME NEW c \in Checkers, Swap(c) \/ Heal(c) \/ Release(c) PROVE OutageNotMasked'
  BY <1>4 DEF Swap, Heal, Release
<1>5. ASSUME Wedge \/ PathChanges \/ UNCHANGED healVars PROVE OutageNotMasked'
  BY <1>5 DEF Wedge, PathChanges
<1> QED
  BY <1>1, <1>2, <1>3, <1>4, <1>5 DEF HealNext, CheckStep

\* The invariant of the health check and its self-heal (cluster/mod.rs).
THEOREM SelfHealInvariant == HealSpec => []HealInv
<1>1. HealInv /\ [HealNext]_healVars => HealInv'
  BY NextTypeOK, NextExclusive, NextRecorded, NextNotMasked DEF HealInv
<1> QED
  BY InitHealInv, <1>1, PTL DEF HealSpec

\* try_recover runs in one check at a time and never leaves its flag behind.
THEOREM ProbeIsExclusiveHolds == HealSpec => []ProbeIsExclusive
  BY SelfHealInvariant, PTL DEF HealInv

\* No check answers healthy, and no client is swapped in, on the strength of a
\* path that was down throughout the check.
THEOREM OutageNotMaskedHolds == HealSpec => []OutageNotMasked
  BY SelfHealInvariant, PTL DEF HealInv

=============================================================================
