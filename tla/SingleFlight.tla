---------------------------- MODULE SingleFlight ----------------------------
(***************************************************************************)
(* One refresh per key at a time, with a bounded wait (single_flight.rs).  *)
(* The caches extend this module: a caller goes to "acquire" when it finds *)
(* nothing fresh; it comes out at "refresh" when it owns the key, or, after *)
(* waiting, at "reread".                                                   *)
(***************************************************************************)
EXTENDS Integers, FiniteSets

CONSTANTS Callers, Keys,
          MaxWait    \* MAX_WAIT, in ticks

ASSUME MaxWaitAssumption == MaxWait \in Nat

VARIABLES
    inFlight,   \* the keys being refreshed
    at,         \* where each caller is
    key,        \* the key each caller is after
    waited      \* how long a waiting caller has waited, up to MaxWait

flightVars == <<inFlight, at, key, waited>>

Move(c, place) == at' = [at EXCEPT ![c] = place]

\* Places where a caller holds its key's guard, and where it does not.
OwnerPlaces == {"refresh", "store", "release"}
OtherPlaces == {"idle", "acquire", "waiting", "reread", "alone", "aloneDone"}

FlightInit ==
    /\ inFlight = {}
    /\ at = [c \in Callers |-> "idle"]
    /\ key \in [Callers -> Keys]
    /\ waited = [c \in Callers |-> 0]

\* begin_or_wait, under the lock: insert the key, or start to wait for it.
\* Plausible errors: not to look whether the key was there, to insert
\* something else than the key.
BeginByCaller(c) ==
    /\ at[c] = "acquire"
    /\ inFlight' = inFlight \cup {c}
    /\ Move(c, "refresh")
    /\ UNCHANGED <<key, waited>>

BeginAlways(c) ==
    /\ at[c] = "acquire"
    /\ inFlight' = inFlight \cup {key[c]}
    /\ Move(c, "refresh")
    /\ UNCHANGED <<key, waited>>

Begin(c) ==
    /\ at[c] = "acquire"
    /\ IF key[c] \in inFlight
       THEN Move(c, "waiting") /\ UNCHANGED inFlight
       ELSE Move(c, "refresh") /\ inFlight' = inFlight \cup {key[c]}
    /\ UNCHANGED <<key, waited>>

\* wait_timeout_while re-tests its predicate when it is notified, so a waiter
\* that finds the key taken again goes on waiting, until its time is up.  A
\* plausible error is a wait without a timeout.
WaitsForever(c) == at[c] = "waiting" /\ key[c] \notin inFlight

MayWake(c) ==
    /\ at[c] = "waiting"
    /\ key[c] \notin inFlight \/ waited[c] = MaxWait

Wake(c) ==
    /\ MayWake(c)
    /\ Move(c, "reread")
    /\ waited' = [waited EXCEPT ![c] = 0]
    /\ UNCHANGED <<inFlight, key>>

\* The guard's Drop, on success, on an early return, and on a panic; a
\* plausible error is to return without it.
ForgetGuard(c) == UNCHANGED inFlight

DropGuard(c) == inFlight' = inFlight \ {key[c]}

WaitLonger ==
    waited' = [c \in Callers |->
                 IF at[c] = "waiting" /\ waited[c] < MaxWait
                 THEN waited[c] + 1 ELSE waited[c]]

Owners(k) == {c \in Callers : key[c] = k /\ at[c] \in OwnerPlaces}

\* A key is in flight exactly while one caller refreshes it: no two owners, no
\* key left behind by a refresh that failed.
OneOwner ==
    /\ \A c \in Callers, d \in Callers :
         at[c] \in OwnerPlaces /\ at[d] \in OwnerPlaces /\ key[c] = key[d] => c = d
    /\ inFlight = {key[c] : c \in {d \in Callers : at[d] \in OwnerPlaces}}

FlightTypeOK ==
    /\ inFlight \subseteq Keys
    /\ at \in [Callers -> OwnerPlaces \cup OtherPlaces]
    /\ key \in [Callers -> Keys]
    /\ waited \in [Callers -> 0 .. MaxWait]

=============================================================================
