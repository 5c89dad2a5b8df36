------------------------ MODULE SnapshotCacheProofs ------------------------
(***************************************************************************)
(* For any number of callers, keys and versions: a key has one owner, and  *)
(* therefore a snapshot never goes back and implements BrokerCopy.         *)
(***************************************************************************)
EXTENDS SnapshotCache, TLAPS

\* What an owner carries is at least what the snapshot shows, because nobody
\* else stores; and a pending request's floor only rises with the snapshot.
Carried ==
    /\ \A k \in Keys : value[k] <= truth
    /\ \A c \in Callers :
         /\ at[c] \in {"store", "release"} =>
              value[key[c]] <= got[c] /\ got[c] <= truth
         /\ at[c] # "idle" => floor[c] <= value[key[c]]
         /\ at[c] = "aloneDone" => floor[c] <= got[c]

IInv == TypeOK /\ OneOwner /\ Carried

LEMMA InitInv == Init => IInv
<1> SUFFICES ASSUME Init PROVE IInv
  OBVIOUS
<1> USE TtlAssumption, MaxWaitAssumption
<1>1. TypeOK
  BY DEF Init, FlightInit, TypeOK, FlightTypeOK, OwnerPlaces, OtherPlaces
<1>2. OneOwner
  BY DEF Init, FlightInit, OneOwner, OwnerPlaces
<1>3. Carried
  BY DEF Init, FlightInit, Carried
<1>4. QED
  BY <1>1, <1>2, <1>3 DEF IInv

LEMMA RequestInv ==
    ASSUME IInv, NEW c \in Callers, NEW k \in Keys, Request(c, k)
    PROVE  IInv'
<1> USE DEF Request, Move
<1>1. TypeOK'
  BY DEF IInv, TypeOK, FlightTypeOK, OwnerPlaces, OtherPlaces
<1>2. OneOwner'
  BY DEF IInv, TypeOK, FlightTypeOK, OneOwner, OwnerPlaces
<1>3. Carried'
  BY DEF IInv, TypeOK, FlightTypeOK, Carried
<1>4. QED
  BY <1>1, <1>2, <1>3 DEF IInv

LEMMA BeginInv ==
    ASSUME IInv, NEW c \in Callers, BeginFlight(c)
    PROVE  IInv'
<1> USE DEF BeginFlight, Begin, Move, history
<1>1. TypeOK'
  BY DEF IInv, TypeOK, FlightTypeOK, OwnerPlaces, OtherPlaces
<1>2. OneOwner'
  <2>1. CASE key[c] \in inFlight
    BY <2>1 DEF IInv, TypeOK, FlightTypeOK, OneOwner, OwnerPlaces
  <2>2. CASE key[c] \notin inFlight
    <3>1. \A d \in Callers : at[d] \in OwnerPlaces => key[d] # key[c]
      BY <2>2 DEF IInv, OneOwner
    <3>2. /\ inFlight' = inFlight \cup {key[c]} /\ key' = key
          /\ \A d \in Callers : at'[d] \in OwnerPlaces <=> at[d] \in OwnerPlaces \/ d = c
      BY <2>2 DEF IInv, TypeOK, FlightTypeOK, OwnerPlaces
    <3>3. QED
      BY <3>1, <3>2 DEF IInv, OneOwner
  <2>3. QED
    BY <2>1, <2>2
<1>3. Carried'
  BY DEF IInv, TypeOK, FlightTypeOK, Carried
<1>4. QED
  BY <1>1, <1>2, <1>3 DEF IInv

\* Steps that neither take nor drop a guard, and store nothing.
LEMMA WaitInv ==
    ASSUME IInv, NEW c \in Callers,
           WakeUp(c) \/ OwnerReads(c) \/ Reread(c) \/ AloneReads(c)
             \/ AloneFails(c) \/ AloneReturns(c)
    PROVE  IInv'
<1> USE DEF WakeUp, Wake, MayWake, OwnerReads, Reread, AloneReads, AloneFails,
            AloneReturns, Move, Return, history
<1>1. TypeOK'
  BY MaxWaitAssumption, TtlAssumption
     DEF IInv, TypeOK, FlightTypeOK, OwnerPlaces, OtherPlaces
<1>2. OneOwner'
  <2>1. \A d \in Callers : at'[d] \in OwnerPlaces <=> at[d] \in OwnerPlaces
    BY DEF IInv, TypeOK, FlightTypeOK, OwnerPlaces
  <2>2. inFlight' = inFlight /\ key' = key
    OBVIOUS
  <2>3. QED
    BY <2>1, <2>2 DEF IInv, OneOwner
<1>3. Carried'
  <2>1. value' = value /\ truth' = truth /\ key' = key
    OBVIOUS
  <2>2. value \in [Keys -> Nat] /\ truth \in Nat /\ key \in [Callers -> Keys]
        /\ floor \in [Callers -> Nat] /\ got \in [Callers -> Nat]
        /\ at \in [Callers -> OwnerPlaces \cup OtherPlaces]
    BY TtlAssumption DEF IInv, TypeOK, FlightTypeOK
  <2>3. QED
    BY <2>1, <2>2 DEF IInv, Carried
<1>4. QED
  BY <1>1, <1>2, <1>3 DEF IInv

\* Steps that drop the guard of a caller that owned its key.
LEMMA DropInv ==
    ASSUME IInv, NEW c \in Callers, OwnerFails(c) \/ OwnerReturns(c)
    PROVE  IInv'
<1> USE DEF OwnerFails, OwnerReturns, DropGuard, Move, Return
<1>0. /\ at[c] \in OwnerPlaces /\ at' = [at EXCEPT ![c] = "idle"]
      /\ inFlight' = inFlight \ {key[c]}
      /\ UNCHANGED <<key, truth, value, age>>
  BY DEF OwnerPlaces
<1>1. TypeOK'
  BY TtlAssumption DEF IInv, TypeOK, FlightTypeOK, OwnerPlaces, OtherPlaces
<1>2. OneOwner'
  <2>1. \A d \in Callers : at'[d] \in OwnerPlaces <=> at[d] \in OwnerPlaces /\ d # c
    BY <1>0 DEF IInv, TypeOK, FlightTypeOK, OwnerPlaces
  <2>2. QED
    BY <1>0, <2>1 DEF IInv, OneOwner
<1>3. Carried'
  BY <1>0 DEF IInv, TypeOK, FlightTypeOK, Carried
<1>4. QED
  BY <1>1, <1>2, <1>3 DEF IInv

LEMMA StoreInv ==
    ASSUME IInv, NEW c \in Callers, OwnerStores(c)
    PROVE  IInv' /\ value[key[c]] <= got[c] /\ got[c] <= truth
<1> USE DEF OwnerStores, Move, history
<1>0. /\ value \in [Keys -> Nat] /\ truth \in Nat /\ key \in [Callers -> Keys]
      /\ floor \in [Callers -> Nat] /\ got \in [Callers -> Nat]
      /\ at \in [Callers -> OwnerPlaces \cup OtherPlaces]
      /\ value[key[c]] <= got[c] /\ got[c] <= truth
  BY TtlAssumption DEF IInv, TypeOK, FlightTypeOK, Carried
<1>1. TypeOK'
  BY TtlAssumption DEF IInv, TypeOK, FlightTypeOK, OwnerPlaces, OtherPlaces
<1>2. OneOwner'
  <2>1. \A d \in Callers : at'[d] \in OwnerPlaces <=> at[d] \in OwnerPlaces
    BY <1>0 DEF OwnerPlaces
  <2>2. QED
    BY <2>1 DEF IInv, OneOwner
<1>3. Carried'
  <2>1. \A k \in Keys : value[k] <= value'[k] /\ value'[k] <= truth
    BY <1>0 DEF IInv, Carried
  <2>2. \A d \in Callers : d # c /\ at[d] \in {"store", "release"} => key[d] # key[c]
    BY DEF IInv, OneOwner, OwnerPlaces
  <2>3. ASSUME NEW d \in Callers
        PROVE  /\ at'[d] \in {"store", "release"} =>
                    value'[key[d]] <= got[d] /\ got[d] <= truth
               /\ at'[d] # "idle" => floor[d] <= value'[key[d]]
               /\ at'[d] = "aloneDone" => floor[d] <= got[d]
    <3>1. CASE d = c
      BY <1>0, <2>1, <3>1 DEF IInv, Carried
    <3>2. CASE d # c
      <4>1. at'[d] = at[d]
        BY <1>0, <3>2
      <4>2. at[d] \in {"store", "release"} => value'[key[d]] = value[key[d]]
        BY <1>0, <2>2, <3>2
      <4>3. /\ key[d] \in Keys /\ floor[d] \in Nat /\ value[key[d]] \in Nat
            /\ value'[key[d]] \in Nat
        BY <1>0
      <4>4. QED
        BY <4>1, <4>2, <4>3, <2>1 DEF IInv, Carried
    <3>3. QED
      BY <3>1, <3>2
  <2>4. QED
    BY <2>1, <2>3 DEF Carried
<1>4. QED
  BY <1>0, <1>1, <1>2, <1>3 DEF IInv

LEMMA OtherInv ==
    ASSUME IInv, BrokerChanges \/ Tick \/ UNCHANGED vars
    PROVE  IInv'
<1> USE DEF BrokerChanges, Tick, vars, history, flightVars
<1>1. TypeOK'
  <2>1. CASE Tick
    <3>1. \A k \in Keys : age'[k] \in 0 .. Ttl
      BY <2>1, TtlAssumption DEF IInv, TypeOK
    <3>2. \A c \in Callers : waited'[c] \in 0 .. MaxWait
      BY <2>1, MaxWaitAssumption DEF IInv, TypeOK, FlightTypeOK, WaitLonger
    <3>3. age' = [k \in Keys |-> age'[k]] /\ waited' = [c \in Callers |-> waited'[c]]
      BY <2>1 DEF WaitLonger
    <3>4. QED
      BY <2>1, <3>1, <3>2, <3>3 DEF IInv, TypeOK, FlightTypeOK
  <2>2. CASE ~Tick
    BY <2>2, TtlAssumption DEF IInv, TypeOK, FlightTypeOK
  <2>3. QED
    BY <2>1, <2>2
<1>2. OneOwner'
  <2>1. UNCHANGED <<inFlight, at, key>>
    BY DEF WaitLonger
  <2>2. QED
    BY <2>1 DEF IInv, OneOwner
<1>3. Carried'
  <2>1. UNCHANGED <<at, key, value, got, floor>> /\ (truth' = truth \/ truth' = truth + 1)
    OBVIOUS
  <2>2. value \in [Keys -> Nat] /\ truth \in Nat /\ got \in [Callers -> Nat]
        /\ key \in [Callers -> Keys]
    BY TtlAssumption DEF IInv, TypeOK, FlightTypeOK
  <2>3. QED
    BY <2>1, <2>2 DEF IInv, Carried
<1>4. QED
  BY <1>1, <1>2, <1>3 DEF IInv

\* The caches' invariant holds however many callers, keys and versions.
THEOREM SnapshotInvariant == Spec => []IInv
<1>1. IInv /\ [Next]_vars => IInv'
  BY RequestInv, BeginInv, WaitInv, DropInv, StoreInv, OtherInv DEF Next, CallerStep
<1>2. QED
  BY InitInv, <1>1, PTL DEF Spec

\* A key never has two owners, and is never left in flight without one.
THEOREM OneOwnerHolds == Spec => []OneOwner
<1>1. IInv => OneOwner
  BY DEF IInv
<1>2. QED
  BY SnapshotInvariant, <1>1, PTL

\* Nobody is answered with less than the page showed when they asked.
THEOREM AnswerNotOlderHolds == Spec => []AnswerNotOlder
<1>1. IInv => AnswerNotOlder
  <2>1. SUFFICES ASSUME IInv, NEW c \in Callers
                 PROVE  /\ at[c] \in {"store", "release", "aloneDone"} => got[c] >= floor[c]
                        /\ at[c] = "reread" => value[key[c]] >= floor[c]
    BY DEF AnswerNotOlder
  <2>2. /\ key[c] \in Keys /\ floor[c] \in Nat /\ got[c] \in Nat
        /\ value[key[c]] \in Nat
    BY <2>1, TtlAssumption DEF IInv, TypeOK, FlightTypeOK
  <2>3. QED
    BY <2>1, <2>2 DEF IInv, Carried
<1>2. QED
  BY SnapshotInvariant, <1>1, PTL

\* The snapshot cache implements BrokerCopy: for every number of callers, a
\* snapshot only ever moves to a newer state of the broker.
THEOREM Refinement == Spec => NeverGoesBack
<1>1. Init => Copy!Init
  BY DEF Init, Copy!Init
<1>2. IInv /\ [Next]_vars => [Copy!Next]_<<truth, value>>
  <2> SUFFICES ASSUME IInv, [Next]_vars PROVE [Copy!Next]_<<truth, value>>
    OBVIOUS
  <2>1. ASSUME NEW c \in Callers, OwnerStores(c)
        PROVE  Copy!Next
    <3>1. value[key[c]] <= got[c] /\ got[c] <= truth
      BY <2>1, StoreInv
    <3>2. key[c] \in Keys /\ got[c] \in Nat /\ value[key[c]] \in Nat /\ truth \in Nat
      BY TtlAssumption DEF IInv, TypeOK, FlightTypeOK
    <3>3. Copy!Refresh(key[c])
      <4>1. got[c] \in value[key[c]] .. truth
        BY <3>1, <3>2
      <4>2. value' = [value EXCEPT ![key[c]] = got[c]] /\ truth' = truth
        BY <2>1 DEF OwnerStores
      <4>3. QED
        BY <4>1, <4>2 DEF Copy!Refresh
    <3>4. QED
      BY <3>2, <3>3 DEF Copy!Next
  <2>2. ASSUME NEW c \in Callers, CallerStep(c), ~OwnerStores(c)
        PROVE  UNCHANGED <<truth, value>>
    BY <2>2 DEF CallerStep, BeginFlight, WakeUp, OwnerReads, OwnerFails,
                OwnerReturns, Reread, AloneReads, AloneFails, AloneReturns
  <2>3. ASSUME NEW c \in Callers, NEW k \in Keys, Request(c, k)
        PROVE  UNCHANGED <<truth, value>>
    BY <2>3 DEF Request
  <2>4. CASE BrokerChanges
    BY <2>4 DEF BrokerChanges, Copy!Next, Copy!Change
  <2>5. CASE Tick
    BY <2>5 DEF Tick
  <2>6. CASE UNCHANGED vars
    BY <2>6 DEF vars
  <2>7. QED
    BY <2>1, <2>2, <2>3, <2>4, <2>5, <2>6 DEF Next
<1>3. QED
  BY <1>1, <1>2, SnapshotInvariant, PTL DEF Spec, NeverGoesBack, Copy!Spec

=============================================================================
