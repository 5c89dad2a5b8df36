--------------------------- MODULE SnapshotCache ---------------------------
(***************************************************************************)
(* cached_or_refresh (snapshot.rs): concurrent requests for whole-response *)
(* snapshots (topics, groups, overview, health), each served from memory   *)
(* when fresh and otherwise refreshed under a single flight.  Time is a    *)
(* tick; an age counts ticks and stops counting where nothing tells the    *)
(* difference any more.                                                    *)
(***************************************************************************)
EXTENDS SingleFlight

CONSTANTS Ttl,         \* ttl_ms, in ticks
          MaxVersion   \* bound: how often the broker's state changes

ASSUME TtlAssumption == Ttl \in Nat /\ MaxVersion \in Nat \ {0}

VARIABLES
    truth,    \* the version of the broker's state
    value,    \* the version each key's snapshot shows; 0 when there is none
    age,      \* ticks since it was put, up to Ttl
    got,      \* the version a caller's own refresh returned
    floor,    \* what the snapshot showed when a pending request arrived
    spoiled   \* callers whose awaited refresh failed while they waited

vars == <<inFlight, at, key, waited, truth, value, age, got, floor, spoiled>>
history == <<floor, spoiled>>

Init ==
    /\ FlightInit
    /\ truth = 1
    /\ value = [k \in Keys |-> 0]
    /\ age = [k \in Keys |-> 0]
    /\ got = [c \in Callers |-> 0]
    /\ floor = [c \in Callers |-> 0]
    /\ spoiled = {}

Fresh(k) == value[k] # 0 /\ age[k] < Ttl

\* The request returns to the caller, which may ask again.
Return(c) ==
    /\ Move(c, "idle")
    /\ got' = [got EXCEPT ![c] = 0]
    /\ floor' = [floor EXCEPT ![c] = 0]

\* A request arrives; a fresh snapshot answers it at once.
Request(c, k) ==
    /\ at[c] = "idle"
    /\ ~Fresh(k)
    /\ Move(c, "acquire")
    /\ key' = [key EXCEPT ![c] = k]
    /\ floor' = [floor EXCEPT ![c] = value[k]]
    /\ UNCHANGED <<inFlight, waited, truth, value, age, got, spoiled>>

BeginFlight(c) == Begin(c) /\ UNCHANGED <<truth, value, age, got, history>>

WakeUp(c) == Wake(c) /\ UNCHANGED <<truth, value, age, got, history>>

\* The owner's broker call: it reads some state of the broker, later it
\* returns and the answer is stored, and later still the guard is dropped.
OwnerReads(c) ==
    /\ at[c] = "refresh"
    /\ got' = [got EXCEPT ![c] = truth]
    /\ Move(c, "store")
    /\ UNCHANGED <<inFlight, key, waited, truth, value, age, history>>

OwnerFails(c) ==
    /\ at[c] = "refresh"
    /\ DropGuard(c)
    /\ Return(c)
    /\ spoiled' = spoiled \cup
                  {d \in Callers : at[d] = "waiting" /\ key[d] = key[c]}
    /\ UNCHANGED <<key, waited, truth, value, age>>

OwnerStores(c) ==
    /\ at[c] = "store"
    /\ value' = [value EXCEPT ![key[c]] = got[c]]
    /\ age' = [age EXCEPT ![key[c]] = 0]
    /\ Move(c, "release")
    /\ UNCHANGED <<inFlight, key, waited, truth, got, history>>

\* The owner answers with its own version.
OwnerReturns(c) ==
    /\ at[c] = "release"
    /\ DropGuard(c)
    /\ Return(c)
    /\ UNCHANGED <<key, waited, truth, value, age, spoiled>>

\* The loser serves what it finds, fresh or not, and refreshes on its own when
\* there is nothing at all.
Reread(c) ==
    /\ at[c] = "reread"
    /\ IF value[key[c]] # 0 THEN Return(c) ELSE Move(c, "alone") /\ UNCHANGED <<got, floor>>
    /\ spoiled' = spoiled \ {c}
    /\ UNCHANGED <<inFlight, key, waited, truth, value, age>>

AloneReads(c) ==
    /\ at[c] = "alone"
    /\ got' = [got EXCEPT ![c] = truth]
    /\ Move(c, "aloneDone")
    /\ UNCHANGED <<inFlight, key, waited, truth, value, age, history>>

AloneFails(c) ==
    /\ at[c] = "alone"
    /\ Return(c)
    /\ UNCHANGED <<inFlight, key, waited, truth, value, age, spoiled>>

\* A refresh outside the flight is answered, never stored.  A plausible error
\* stores it, so that the next request finds it.
AloneStores(c) ==
    /\ at[c] = "aloneDone"
    /\ Return(c)
    /\ value' = [value EXCEPT ![key[c]] = got[c]]
    /\ age' = [age EXCEPT ![key[c]] = 0]
    /\ UNCHANGED <<inFlight, key, waited, truth, spoiled>>

AloneReturns(c) ==
    /\ at[c] = "aloneDone"
    /\ Return(c)
    /\ UNCHANGED <<inFlight, key, waited, truth, value, age, spoiled>>

CallerStep(c) ==
    \/ BeginFlight(c) \/ WakeUp(c)
    \/ OwnerReads(c) \/ OwnerFails(c) \/ OwnerStores(c) \/ OwnerReturns(c)
    \/ Reread(c) \/ AloneReads(c) \/ AloneFails(c) \/ AloneReturns(c)

BrokerChanges ==
    /\ truth < MaxVersion
    /\ truth' = truth + 1
    /\ UNCHANGED <<flightVars, value, age, got, history>>

Tick ==
    /\ age' = [k \in Keys |-> IF age[k] < Ttl THEN age[k] + 1 ELSE age[k]]
    /\ WaitLonger
    /\ UNCHANGED <<inFlight, at, key, truth, value, got, history>>

Next ==
    \/ \E c \in Callers : CallerStep(c) \/ \E k \in Keys : Request(c, k)
    \/ BrokerChanges
    \/ Tick

\* A blocking-pool thread runs on and every broker call ends by its timeout;
\* time passes.  Nobody has to ask, and the broker has to do nothing.
Fairness == (\A c \in Callers : WF_vars(CallerStep(c))) /\ WF_vars(Tick)

Spec == Init /\ [][Next]_vars /\ Fairness

-----------------------------------------------------------------------------
TypeOK ==
    /\ FlightTypeOK
    /\ truth \in 1 .. MaxVersion
    /\ value \in [Keys -> 0 .. MaxVersion]
    /\ age \in [Keys -> 0 .. Ttl]
    /\ got \in [Callers -> 0 .. MaxVersion]
    /\ floor \in [Callers -> 0 .. MaxVersion]
    /\ spoiled \subseteq Callers

\* Slow refreshes, failed ones and impatient waiters notwithstanding, the
\* snapshot is what the broker said and never goes back to an older answer: a
\* slow owner cannot overwrite what somebody read after it.
Copy == INSTANCE BrokerCopy WITH copy <- value
NeverGoesBack == Copy!Spec

\* What a request is about to be answered with, its own refresh or what it
\* finds after waiting, is at least what the page showed when it was made.
AnswerNotOlder ==
    \A c \in Callers :
        /\ at[c] \in {"store", "release", "aloneDone"} => got[c] >= floor[c]
        /\ at[c] = "reread" => value[key[c]] >= floor[c]

\* Readers are not frozen by a refresh: everyone who asks is answered, even
\* when every refresh it waits for is followed by another one.
EveryRequestAnswered ==
    \A c \in Callers : at[c] = "acquire" ~> at[c] = "idle"

\* The claim of snapshot.rs:66: a failed refresh is not papered over with the
\* stale value, so nobody who waited for it is answered with one.
NotPaperedOver ==
    [][\A c \in spoiled :
         at[c] = "reread" /\ at'[c] = "idle" => Fresh(key[c])]_vars

=============================================================================
