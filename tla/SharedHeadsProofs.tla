------------------------- MODULE SharedHeadsProofs -------------------------
(***************************************************************************)
(* What every step of the shared watermarks preserves, for any partitions, *)
(* callers, TTLs and horizon, whatever the modules that use them do: a     *)
(* head is never handed out under a moment at which it was already out of  *)
(* date.                                                                   *)
(***************************************************************************)
EXTENDS SharedHeads, TLAPS

HeadsRise ==
    \A p \in Partitions :
        /\ \A t \in 0 .. now : headAt[t][p] <= head[p]
        /\ \A t \in 0 .. now, u \in 0 .. now : t <= u => headAt[t][p] <= headAt[u][p]

CacheIsHonest == \A p \in Partitions : HonestHead(p, cached[p], cachedAt[p])

\* What a call hands out is no older than its stamp, and what it is about to
\* enter is no older than its beginning.
AsksAreHonest ==
    \A a \in Askers :
        /\ ask[a].step = "list" => ask[a].asOf <= ask[a].fetchedAt
        /\ \A p \in Partitions : HonestHead(p, ask[a].heads[p], ask[a].asOf)
        /\ ask[a].step = "insert" =>
             \A p \in ask[a].missing :
               ask[a].heads[p] # NoOffset /\ HonestHead(p, ask[a].heads[p], ask[a].fetchedAt)

WInv == WatermarksTypeOK /\ HeadsRise /\ CacheIsHonest /\ AsksAreHonest

LEMMA HeadsInitInv == WatermarksInit => WInv
<1> SUFFICES ASSUME WatermarksInit PROVE WInv
  OBVIOUS
<1> USE WatermarksAssumption DEF WatermarksInit, NoAsk, Offsets, Times
<1>1. WatermarksTypeOK
  BY DEF WatermarksTypeOK
<1>2. HeadsRise
  BY DEF HeadsRise
<1>3. CacheIsHonest
  BY DEF CacheIsHonest, HonestHead
<1>4. AsksAreHonest
  BY DEF AsksAreHonest, HonestHead
<1>5. QED
  BY <1>1, <1>2, <1>3, <1>4 DEF WInv

LEMMA EnsureInv ==
    ASSUME WInv, NEW a \in Askers, NEW wanted \in SUBSET Partitions, NEW ttl,
           Ensure(a, wanted, ttl)
    PROVE  WInv'
<1> DEFINE usable == Usable(wanted, ttl)
<1> DEFINE stamps == Stamps(wanted, ttl)
<1>2. PICK asOf \in OldestOf(stamps) :
        ask' = [ask EXCEPT ![a] =
           [step |-> IF usable = wanted THEN "done" ELSE "list",
            missing |-> wanted \ usable,
            heads |-> [p \in Partitions |-> IF p \in usable THEN cached[p] ELSE NoOffset],
            fetchedAt |-> now,
            asOf |-> asOf]]
  BY DEF Ensure
<1>3. UNCHANGED <<headVars, cacheVars>>
  BY DEF Ensure
<1>4. usable \subseteq wanted /\ \A p \in usable : cached[p] # NoOffset
  BY DEF Usable
<1>5. /\ asOf \in 0 .. now
      /\ \A p \in usable : asOf <= cachedAt[p]
  <2>1. asOf \in stamps /\ \A u \in stamps : asOf <= u
    BY DEF OldestOf
  <2>2. stamps \subseteq 0 .. now
    BY <1>4 DEF Stamps, WInv, WatermarksTypeOK, Times
  <2>3. \A p \in usable : cachedAt[p] \in stamps
    BY DEF Stamps
  <2>4. QED
    BY <2>1, <2>2, <2>3
<1>6. now \in Nat
  BY WatermarksAssumption DEF WInv, WatermarksTypeOK, Times
<1> HIDE DEF usable, stamps
<1>7. WatermarksTypeOK'
  <2>1. ask' \in [Askers ->
         [step : {"off", "list", "insert", "done"}, missing : SUBSET Partitions,
          heads : [Partitions -> Offsets \cup {NoOffset}],
          fetchedAt : 0 .. now, asOf : 0 .. now]]
    BY <1>2, <1>5, <1>6 DEF WInv, WatermarksTypeOK
  <2>2. QED
    BY <2>1, <1>3 DEF WInv, WatermarksTypeOK, headVars, cacheVars
<1>8. HeadsRise' /\ CacheIsHonest'
  BY <1>3 DEF WInv, HeadsRise, CacheIsHonest, HonestHead, headVars, cacheVars
<1>9. AsksAreHonest'
  <2>1. \A p \in usable : HonestHead(p, cached[p], asOf)
    <3>1. TAKE p \in usable
    <3>2. p \in Partitions /\ cachedAt[p] \in 0 .. now /\ asOf <= cachedAt[p]
      BY <1>4, <1>5 DEF WInv, WatermarksTypeOK
    <3>3. headAt[asOf][p] <= headAt[cachedAt[p]][p]
      BY <3>2, <1>5 DEF WInv, HeadsRise
    <3>4. headAt[cachedAt[p]][p] <= cached[p] /\ cached[p] <= head[p]
      BY <3>2, <1>4 DEF WInv, CacheIsHonest, HonestHead
    <3>5. headAt[asOf][p] \in Int /\ headAt[cachedAt[p]][p] \in Int /\ cached[p] \in Int
      <4>1. headAt[asOf] \in [Partitions -> Offsets] /\ headAt[cachedAt[p]] \in [Partitions -> Offsets]
        BY <3>2, <1>5 DEF WInv, WatermarksTypeOK
      <4>2. cached[p] \in Offsets
        BY <3>2, <1>4 DEF WInv, WatermarksTypeOK
      <4>3. QED
        BY <4>1, <4>2, <3>2, WatermarksAssumption DEF Offsets
    <3>6. head[p] \in Int
      BY <3>2, WatermarksAssumption DEF WInv, WatermarksTypeOK, Offsets
    <3>7. QED
      BY <3>3, <3>4, <3>5, <3>6 DEF HonestHead
  <2>2. ASSUME NEW b \in Askers, b # a
        PROVE  ask'[b] = ask[b]
    BY <1>2, <2>2 DEF WInv, WatermarksTypeOK
  <2>3. /\ ask'[a].step # "insert" /\ ask'[a].asOf <= ask'[a].fetchedAt
        /\ ask'[a].asOf = asOf
        /\ ask'[a].heads = [p \in Partitions |-> IF p \in usable THEN cached[p] ELSE NoOffset]
    BY <1>2, <1>5, <1>6 DEF WInv, WatermarksTypeOK
  <2>4. head' = head /\ headAt' = headAt
    BY <1>3 DEF headVars
  <2>5. \A p \in Partitions : HonestHead(p, ask'[a].heads[p], asOf)
    BY <2>1, <2>3 DEF HonestHead
  <2>6. ASSUME NEW b \in Askers
        PROVE  /\ ask'[b].step = "list" => ask'[b].asOf <= ask'[b].fetchedAt
               /\ \A p \in Partitions : HonestHead(p, ask'[b].heads[p], ask'[b].asOf)
               /\ ask'[b].step = "insert" =>
                    \A p \in ask'[b].missing :
                      /\ ask'[b].heads[p] # NoOffset
                      /\ HonestHead(p, ask'[b].heads[p], ask'[b].fetchedAt)
    <3>1. CASE b = a
      BY <3>1, <2>3, <2>5
    <3>2. CASE b # a
      BY <3>2, <2>2 DEF WInv, AsksAreHonest
    <3>3. QED
      BY <3>1, <3>2
  <2>7. QED
    BY <2>4, <2>6 DEF AsksAreHonest, HonestHead
<1>10. QED
  BY <1>7, <1>8, <1>9 DEF WInv

LEMMA ListHeadsInv ==
    ASSUME WInv, NEW a \in Askers, ListHeads(a)
    PROVE  WInv'
<1>1. PICK failed \in SUBSET ask[a].missing :
         ask' = [ask EXCEPT ![a].step = "insert",
                            ![a].missing = @ \ failed,
                            ![a].heads = [p \in Partitions |->
                                IF p \notin ask[a].missing THEN @[p]
                                ELSE IF p \in failed THEN FailedHead(p) ELSE head[p]]]
  BY DEF ListHeads
<1>2. UNCHANGED <<headVars, cacheVars>> /\ ask[a].step = "list"
  BY DEF ListHeads
<1> DEFINE heads == [p \in Partitions |->
              IF p \notin ask[a].missing THEN ask[a].heads[p]
              ELSE IF p \in failed THEN NoOffset ELSE head[p]]
<1>3. ask[a] \in [step : {"off", "list", "insert", "done"}, missing : SUBSET Partitions,
          heads : [Partitions -> Offsets \cup {NoOffset}],
          fetchedAt : 0 .. now, asOf : 0 .. now]
  BY DEF WInv, WatermarksTypeOK
<1>4. /\ ask'[a] = [step |-> "insert", missing |-> ask[a].missing \ failed, heads |-> heads,
                    fetchedAt |-> ask[a].fetchedAt, asOf |-> ask[a].asOf]
      /\ \A b \in Askers : b # a => ask'[b] = ask[b]
      /\ DOMAIN ask' = Askers /\ ask' = [b \in Askers |-> ask'[b]]
  BY <1>1, <1>3 DEF WInv, WatermarksTypeOK, FailedHead
<1>5. heads \in [Partitions -> Offsets \cup {NoOffset}]
  BY <1>3 DEF WInv, WatermarksTypeOK
<1> HIDE DEF heads
<1>6. WatermarksTypeOK'
  <2>1. ask'[a] \in [step : {"off", "list", "insert", "done"}, missing : SUBSET Partitions,
          heads : [Partitions -> Offsets \cup {NoOffset}],
          fetchedAt : 0 .. now, asOf : 0 .. now]
    BY <1>3, <1>4, <1>5
  <2>2. ask' \in [Askers ->
         [step : {"off", "list", "insert", "done"}, missing : SUBSET Partitions,
          heads : [Partitions -> Offsets \cup {NoOffset}],
          fetchedAt : 0 .. now, asOf : 0 .. now]]
    BY <2>1, <1>4 DEF WInv, WatermarksTypeOK
  <2>3. QED
    BY <2>2, <1>2 DEF WInv, WatermarksTypeOK, headVars, cacheVars
<1>7. HeadsRise' /\ CacheIsHonest'
  BY <1>2 DEF WInv, HeadsRise, CacheIsHonest, HonestHead, headVars, cacheVars
<1>8. AsksAreHonest'
  <2>1. \A p \in Partitions : HonestHead(p, head[p], ask[a].asOf)
                              /\ HonestHead(p, head[p], ask[a].fetchedAt)
    BY <1>3, WatermarksAssumption
    DEF WInv, WatermarksTypeOK, HeadsRise, HonestHead, Offsets
  <2>2. \A p \in Partitions : HonestHead(p, heads[p], ask[a].asOf)
    BY <2>1 DEF heads, WInv, AsksAreHonest, HonestHead
  <2>3. \A p \in ask[a].missing \ failed : heads[p] = head[p] /\ head[p] # NoOffset
    BY <1>3, WatermarksAssumption DEF heads, WInv, WatermarksTypeOK, Offsets
  <2>4. head' = head /\ headAt' = headAt
    BY <1>2 DEF headVars
  <2>5. QED
    BY <1>3, <1>4, <2>1, <2>2, <2>3, <2>4 DEF WInv, AsksAreHonest, HonestHead
<1>9. QED
  BY <1>6, <1>7, <1>8 DEF WInv

LEMMA InsertHeadsInv ==
    ASSUME WInv, NEW a \in Askers, InsertHeads(a)
    PROVE  WInv'
<1> DEFINE kept == {p \in Partitions : ask[a].fetchedAt - cachedAt[p] < Horizon}
<1> DEFINE missing == ask[a].missing
<1>1. /\ ask[a].step = "insert"
      /\ cached' = [p \in Partitions |->
                      IF p \in missing THEN ask[a].heads[p]
                      ELSE IF p \in kept THEN cached[p] ELSE NoOffset]
      /\ cachedAt' = [p \in Partitions |->
                        IF p \in missing THEN ask[a].fetchedAt
                        ELSE IF p \in kept THEN cachedAt[p] ELSE 0]
      /\ ask' = [ask EXCEPT ![a].step = "done", ![a].missing = {}, ![a].fetchedAt = 0]
      /\ UNCHANGED headVars
  BY DEF InsertHeads, InsertionStamp
<1>2. ask[a] \in [step : {"off", "list", "insert", "done"}, missing : SUBSET Partitions,
          heads : [Partitions -> Offsets \cup {NoOffset}],
          fetchedAt : 0 .. now, asOf : 0 .. now]
  BY DEF WInv, WatermarksTypeOK
<1>3. /\ ask'[a] = [step |-> "done", missing |-> {}, heads |-> ask[a].heads,
                    fetchedAt |-> 0, asOf |-> ask[a].asOf]
      /\ \A b \in Askers : b # a => ask'[b] = ask[b]
  BY <1>1, <1>2 DEF WInv, WatermarksTypeOK
<1>4. now \in Nat /\ now' = now /\ head' = head /\ headAt' = headAt
  BY <1>1, WatermarksAssumption DEF headVars, WInv, WatermarksTypeOK, Times
<1> HIDE DEF kept, missing
<1>5. WatermarksTypeOK'
  <2>1. ask' \in [Askers ->
         [step : {"off", "list", "insert", "done"}, missing : SUBSET Partitions,
          heads : [Partitions -> Offsets \cup {NoOffset}],
          fetchedAt : 0 .. now, asOf : 0 .. now]]
    <3>1. ask'[a] \in [step : {"off", "list", "insert", "done"}, missing : SUBSET Partitions,
          heads : [Partitions -> Offsets \cup {NoOffset}],
          fetchedAt : 0 .. now, asOf : 0 .. now]
      BY <1>2, <1>3, <1>4
    <3>2. QED
      BY <3>1, <1>1, <1>3 DEF WInv, WatermarksTypeOK
  <2>2. cached' \in [Partitions -> Offsets \cup {NoOffset}]
    BY <1>1, <1>2 DEF WInv, WatermarksTypeOK
  <2>3. cachedAt' \in [Partitions -> 0 .. now]
    BY <1>1, <1>2, <1>4 DEF WInv, WatermarksTypeOK
  <2>4. QED
    BY <2>1, <2>2, <2>3, <1>4 DEF WInv, WatermarksTypeOK
<1>6. HeadsRise'
  BY <1>4 DEF WInv, HeadsRise
<1>7. CacheIsHonest'
  <2>1. \A p \in missing : HonestHead(p, ask[a].heads[p], ask[a].fetchedAt)
    BY <1>1 DEF missing, WInv, AsksAreHonest
  <2>2. \A p \in Partitions : HonestHead(p, cached[p], cachedAt[p])
    BY DEF WInv, CacheIsHonest
  <2>3. QED
    BY <2>1, <2>2, <1>1, <1>4 DEF CacheIsHonest, HonestHead
<1>8. AsksAreHonest'
  BY <1>3, <1>4 DEF WInv, AsksAreHonest, HonestHead
<1>9. QED
  BY <1>5, <1>6, <1>7, <1>8 DEF WInv

LEMMA EndAskInv ==
    ASSUME WInv, NEW a \in Askers, EndAsk(a), UNCHANGED <<headVars, cacheVars>>
    PROVE  WInv'
<1>1. /\ ask'[a] = NoAsk /\ \A b \in Askers : b # a => ask'[b] = ask[b]
      /\ ask' = [ask EXCEPT ![a] = NoAsk]
  BY DEF EndAsk, WInv, WatermarksTypeOK
<1>2. now \in Nat
  BY WatermarksAssumption DEF WInv, WatermarksTypeOK, Times
<1>3. WatermarksTypeOK'
  BY <1>1, <1>2 DEF NoAsk, headVars, cacheVars, WInv, WatermarksTypeOK
<1>4. HeadsRise' /\ CacheIsHonest'
  BY DEF WInv, HeadsRise, CacheIsHonest, HonestHead, headVars, cacheVars
<1>5. AsksAreHonest'
  <2>1. head' = head /\ headAt' = headAt
    BY DEF headVars
  <2>2. ask'[a].step = "off" /\ \A p \in Partitions : ask'[a].heads[p] = NoOffset
    BY <1>1 DEF NoAsk
  <2>3. ASSUME NEW b \in Askers
        PROVE  /\ ask'[b].step = "list" => ask'[b].asOf <= ask'[b].fetchedAt
               /\ \A p \in Partitions : HonestHead(p, ask'[b].heads[p], ask'[b].asOf)
               /\ ask'[b].step = "insert" =>
                    \A p \in ask'[b].missing :
                      /\ ask'[b].heads[p] # NoOffset
                      /\ HonestHead(p, ask'[b].heads[p], ask'[b].fetchedAt)
    <3>1. CASE b = a
      BY <3>1, <2>2 DEF HonestHead
    <3>2. CASE b # a
      BY <3>2, <1>1 DEF WInv, AsksAreHonest
    <3>3. QED
      BY <3>1, <3>2
  <2>4. QED
    BY <2>1, <2>3 DEF AsksAreHonest, HonestHead
<1>6. QED
  BY <1>3, <1>4, <1>5 DEF WInv

LEMMA ProduceInv ==
    ASSUME WInv, NEW q \in Partitions, Produce(q)
    PROVE  WInv'
<1>1. /\ head' = [head EXCEPT ![q] = @ + 1] /\ head[q] < MaxOffset
      /\ UNCHANGED <<now, headAt, cached, cachedAt, ask>>
  BY DEF Produce, cacheVars
<1>2. /\ \A p \in Partitions : head[p] \in Nat /\ head'[p] \in Nat /\ head[p] <= head'[p]
      /\ \A p \in Partitions, t \in 0 .. now : headAt[t][p] \in Nat
      /\ \A p \in Partitions : cached[p] = NoOffset \/ cached[p] \in Nat
      /\ \A p \in Partitions, a \in Askers :
           ask[a].heads[p] = NoOffset \/ ask[a].heads[p] \in Nat
  <2>1. \A p \in Partitions : head[p] \in Nat /\ head'[p] \in Nat /\ head[p] <= head'[p]
    BY <1>1, WatermarksAssumption DEF WInv, WatermarksTypeOK, Offsets
  <2>2. ASSUME NEW p \in Partitions, NEW t \in 0 .. now
        PROVE  headAt[t][p] \in Nat
    <3>1. headAt[t] \in [Partitions -> Offsets]
      BY DEF WInv, WatermarksTypeOK
    <3>2. QED
      BY <3>1, WatermarksAssumption DEF Offsets
  <2>3. \A p \in Partitions : cached[p] = NoOffset \/ cached[p] \in Nat
    BY WatermarksAssumption DEF WInv, WatermarksTypeOK, Offsets
  <2>4. ASSUME NEW p \in Partitions, NEW a \in Askers
        PROVE  ask[a].heads[p] = NoOffset \/ ask[a].heads[p] \in Nat
    <3>1. ask[a].heads \in [Partitions -> Offsets \cup {NoOffset}]
      BY DEF WInv, WatermarksTypeOK
    <3>2. QED
      BY <3>1, WatermarksAssumption DEF Offsets
  <2>5. QED
    BY <2>1, <2>2, <2>3, <2>4
<1>3. WatermarksTypeOK'
  <2>1. head' \in [Partitions -> Offsets]
    BY <1>1, WatermarksAssumption DEF WInv, WatermarksTypeOK, Offsets
  <2>2. QED
    BY <2>1, <1>1 DEF WInv, WatermarksTypeOK
<1>4. HeadsRise'
  BY <1>1, <1>2 DEF WInv, HeadsRise
<1>5. \A p \in Partitions, offset \in Nat \cup {NoOffset}, t \in 0 .. now :
        HonestHead(p, offset, t) => HonestHead(p, offset, t)'
  BY <1>1, <1>2 DEF HonestHead
<1>6. CacheIsHonest'
  BY <1>1, <1>2, <1>5 DEF WInv, CacheIsHonest, WatermarksTypeOK, HonestHead
<1>7. AsksAreHonest'
  BY <1>1, <1>2, <1>5 DEF WInv, AsksAreHonest, WatermarksTypeOK, HonestHead
<1>8. QED
  BY <1>3, <1>4, <1>6, <1>7 DEF WInv

LEMMA ClockInv ==
    ASSUME WInv, AdvanceClock, UNCHANGED <<head, cacheVars, ask>>
    PROVE  WInv'
<1>1. /\ now' = now + 1 /\ now < MaxTime
      /\ headAt' = [t \in 0 .. now + 1 |-> IF t = now + 1 THEN head ELSE headAt[t]]
      /\ UNCHANGED <<head, cached, cachedAt, ask>>
  BY DEF AdvanceClock, cacheVars
<1>2. now \in Nat /\ now + 1 \in 0 .. MaxTime
  BY <1>1, WatermarksAssumption DEF WInv, WatermarksTypeOK, Times
<1>3. \A t \in 0 .. now : t \in 0 .. now' /\ headAt'[t] = headAt[t]
  BY <1>1, <1>2
<1>4. WatermarksTypeOK'
  <2>1. headAt' \in [0 .. now' -> [Partitions -> Offsets]]
    BY <1>1, <1>2 DEF WInv, WatermarksTypeOK
  <2>2. 0 .. now \subseteq 0 .. now'
    BY <1>1, <1>2
  <2>3. cachedAt' \in [Partitions -> 0 .. now'] /\ now' \in Times
    BY <2>2, <1>1, <1>2 DEF WInv, WatermarksTypeOK, Times
  <2>4. ask' \in [Askers ->
         [step : {"off", "list", "insert", "done"}, missing : SUBSET Partitions,
          heads : [Partitions -> Offsets \cup {NoOffset}],
          fetchedAt : 0 .. now', asOf : 0 .. now']]
    <3>1. \A a \in Askers : ask[a] \in
         [step : {"off", "list", "insert", "done"}, missing : SUBSET Partitions,
          heads : [Partitions -> Offsets \cup {NoOffset}],
          fetchedAt : 0 .. now, asOf : 0 .. now]
      BY DEF WInv, WatermarksTypeOK
    <3>2. \A a \in Askers : ask[a] \in
         [step : {"off", "list", "insert", "done"}, missing : SUBSET Partitions,
          heads : [Partitions -> Offsets \cup {NoOffset}],
          fetchedAt : 0 .. now', asOf : 0 .. now']
      BY <3>1, <2>2
    <3>3. QED
      BY <3>2, <1>1 DEF WInv, WatermarksTypeOK
  <2>5. QED
    BY <2>1, <2>3, <2>4, <1>1 DEF WInv, WatermarksTypeOK
<1>5. HeadsRise'
  <2>1. ASSUME NEW p \in Partitions, NEW t \in 0 .. now'
        PROVE  headAt'[t][p] <= head[p] /\ headAt'[t][p] \in Int /\ head[p] \in Int
    <3>1. CASE t = now + 1
      BY <3>1, <1>1, <1>2 DEF WInv, WatermarksTypeOK, Offsets
    <3>2. CASE t # now + 1
      <4>1. t \in 0 .. now
        BY <3>2, <2>1, <1>1, <1>2
      <4>2. headAt'[t][p] = headAt[t][p] /\ headAt[t][p] <= head[p]
        BY <4>1, <1>3 DEF WInv, HeadsRise
      <4>3. headAt[t] \in [Partitions -> Offsets] /\ head[p] \in Offsets
        BY <4>1 DEF WInv, WatermarksTypeOK
      <4>4. QED
        BY <4>2, <4>3, WatermarksAssumption DEF Offsets
    <3>3. QED
      BY <3>1, <3>2
  <2>2. ASSUME NEW p \in Partitions, NEW t \in 0 .. now', NEW u \in 0 .. now', t <= u
        PROVE  headAt'[t][p] <= headAt'[u][p]
    <3>1. CASE u = now + 1
      <4>1. headAt'[u][p] = head[p]
        BY <3>1, <1>1, <1>2
      <4>2. QED
        BY <4>1, <2>1
    <3>2. CASE u # now + 1
      <4>1. t \in 0 .. now /\ u \in 0 .. now
        BY <3>2, <2>2, <1>1, <1>2
      <4>2. QED
        BY <4>1, <2>2, <1>3 DEF WInv, HeadsRise
    <3>3. QED
      BY <3>1, <3>2
  <2>3. QED
    BY <2>1, <2>2, <1>1 DEF HeadsRise
<1>6. CacheIsHonest'
  BY <1>1, <1>3 DEF WInv, CacheIsHonest, HonestHead, WatermarksTypeOK
<1>7. AsksAreHonest'
  <2>1. ask' = ask /\ ask \in [Askers -> [
          step : {"off", "list", "insert", "done"}, missing : SUBSET Partitions,
          heads : [Partitions -> Offsets \cup {NoOffset}],
          fetchedAt : 0 .. now, asOf : 0 .. now]]
    BY <1>1 DEF WInv, WatermarksTypeOK
  <2> SUFFICES ASSUME NEW a \in Askers
               PROVE  /\ ask[a].step = "list" => ask[a].asOf <= ask[a].fetchedAt
                      /\ \A p \in Partitions : HonestHead(p, ask[a].heads[p], ask[a].asOf)'
                      /\ ask[a].step = "insert" =>
                           \A p \in ask[a].missing :
                             /\ ask[a].heads[p] # NoOffset
                             /\ HonestHead(p, ask[a].heads[p], ask[a].fetchedAt)'
    BY <2>1 DEF AsksAreHonest, HonestHead
  <2>2. ask[a].asOf \in 0 .. now /\ ask[a].fetchedAt \in 0 .. now /\ ask[a].missing \subseteq Partitions
    BY <2>1
  <2>3. QED
    BY <1>1, <1>3, <2>2 DEF WInv, AsksAreHonest, HonestHead
<1>8. QED
  BY <1>4, <1>5, <1>6, <1>7 DEF WInv

LEMMA HeadsStutterInv ==
    ASSUME WInv, UNCHANGED <<headVars, cacheVars, ask>>
    PROVE  WInv'
<1> USE DEF headVars, cacheVars, WInv
<1>1. WatermarksTypeOK'
  BY DEF WatermarksTypeOK
<1>2. HeadsRise' /\ CacheIsHonest'
  BY DEF HeadsRise, CacheIsHonest, HonestHead
<1>3. AsksAreHonest'
  BY DEF AsksAreHonest, HonestHead
<1>4. QED
  BY <1>1, <1>2, <1>3

LEMMA HonestFromInv == WInv => HeadsAreHonest
  BY DEF WInv, CacheIsHonest, AsksAreHonest, HeadsAreHonest

-----------------------------------------------------------------------------
\* Whatever a reader does with the shared watermarks, it leaves them honest.
LEMMA ReadsInv ==
    ASSUME WInv, NEW a \in Askers, Reads(a)
    PROVE  WInv'
<1>1. CASE Ask(a)
  BY <1>1, EnsureInv DEF Ask
<1>2. CASE ListHeads(a) \/ InsertHeads(a)
  BY <1>2, ListHeadsInv, InsertHeadsInv
<1>3. CASE Fail(a) \/ Use(a)
  BY <1>3, EndAskInv DEF Fail, Use
<1>4. QED
  BY <1>1, <1>2, <1>3 DEF Reads

\* The inductive invariant of the shared watermarks.
THEOREM SharedHeadsInvariant == Spec => []WInv
<1>1. Init => WInv
  BY HeadsInitInv DEF Init
<1>2. WInv /\ [Next]_vars => WInv'
  <2> SUFFICES ASSUME WInv, [Next]_vars PROVE WInv'
    OBVIOUS
  <2>1. CASE UNCHANGED vars
    BY <2>1, HeadsStutterInv DEF vars
  <2>2. ASSUME NEW a \in Askers, Reads(a)
        PROVE  WInv'
    BY <2>2, ReadsInv
  <2>3. ASSUME NEW p \in Partitions, Produce(p)
        PROVE  WInv'
    BY <2>3, ProduceInv
  <2>4. CASE Tick
    BY <2>4, ClockInv DEF Tick
  <2>5. QED
    BY <2>1, <2>2, <2>3, <2>4 DEF Next
<1>3. QED
  BY <1>1, <1>2, PTL DEF Spec

\* Every head in the shared cache is at least what the head was at its stamp,
\* and every call's answer is as old as it says (Watermarks::ensure).
THEOREM HeadsAreHonestHolds == Spec => []HeadsAreHonest
  BY HonestFromInv, SharedHeadsInvariant, PTL

=============================================================================
