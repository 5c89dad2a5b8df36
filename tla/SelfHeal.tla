------------------------------ MODULE SelfHeal ------------------------------
(***************************************************************************)
(* The health check of a cluster and its self-heal (cluster/mod.rs): a     *)
(* resident client that keeps failing is replaced by a fresh one, once the *)
(* fresh one has reached the brokers.  Checks run concurrently when one    *)
(* outlasts the wait of the single flight they share.  The call statistics *)
(* a swap clears are left out.                                             *)
(***************************************************************************)
EXTENDS Integers

CONSTANTS Checkers,            \* threads in health_blocking
          RecoveryThreshold,   \* RECOVERY_THRESHOLD
          MaxCount             \* u32::MAX, the count's saturation

ASSUME SelfHealAssumption ==
    /\ RecoveryThreshold \in Nat \ {0}
    /\ MaxCount \in Nat /\ MaxCount >= RecoveryThreshold

VARIABLES
    path,      \* the brokers can be reached
    wedged,    \* the resident client fails whatever the path
    failures,  \* health_failures
    probing,   \* probe_in_flight
    phase,     \* where each check is
    broken,    \* the client a check took out is wedged
    reached    \* history: the path was up at some moment of the check

hosts == <<path, wedged>>
counters == <<failures, probing>>
healVars == <<hosts, counters, phase, broken, reached>>

Goes(c, place) == phase' = [phase EXCEPT ![c] = place]

\* Places of a check that holds the probe's guard.
ProbePlaces == {"probe", "swap", "heal", "release"}
CheckPlaces == {"idle", "describe", "answered", "failed", "compete"}

HealInit ==
    /\ path \in BOOLEAN
    /\ wedged = FALSE
    /\ failures = 0
    /\ probing = FALSE
    /\ phase = [c \in Checkers |-> "idle"]
    /\ broken = [c \in Checkers |-> FALSE]
    /\ reached = [c \in Checkers |-> FALSE]

\* The check takes the resident client out of its lock and describes the
\* cluster with it, even if the client is replaced in the meantime.
Check(c) ==
    /\ phase[c] = "idle"
    /\ Goes(c, "describe")
    /\ broken' = [broken EXCEPT ![c] = wedged]
    /\ reached' = [reached EXCEPT ![c] = path]
    /\ UNCHANGED <<hosts, counters>>

DescribeAnswers(c) ==
    /\ phase[c] = "describe"
    /\ path /\ ~broken[c]
    /\ Goes(c, "answered")
    /\ UNCHANGED <<hosts, counters, broken, reached>>

Reset(c) ==
    /\ phase[c] = "answered"
    /\ failures' = 0
    /\ Goes(c, "idle")
    /\ UNCHANGED <<hosts, probing, broken, reached>>

DescribeFails(c) ==
    /\ phase[c] = "describe"
    /\ ~path \/ broken[c]
    /\ Goes(c, "failed")
    /\ UNCHANGED <<hosts, counters, broken, reached>>

\* record_shared_failure; a plausible error is a plain addition.
PlainAdd(n) == n + 1

SaturatingAdd(n) == IF n = MaxCount THEN n ELSE n + 1

Count(c) ==
    /\ phase[c] = "failed"
    /\ failures' = SaturatingAdd(failures)
    /\ Goes(c, IF failures' >= RecoveryThreshold THEN "compete" ELSE "idle")
    /\ UNCHANGED <<hosts, probing, broken, reached>>

\* The compare-and-exchange of probe_in_flight: a check that loses it answers
\* "unreachable".  A plausible error is to store the flag unseen.
StoreFlag(c) == Goes(c, "probe") /\ probing' = TRUE

CompareExchange(c) ==
    IF probing THEN Goes(c, "idle") /\ UNCHANGED probing
               ELSE Goes(c, "probe") /\ probing' = TRUE

Compete(c) ==
    /\ phase[c] = "compete"
    /\ CompareExchange(c)
    /\ UNCHANGED <<hosts, failures, broken, reached>>

\* The probe's guard is dropped on every way out; a plausible error is an early
\* return that forgets it.
KeepProbe == UNCHANGED probing

DropProbe == probing' = FALSE

ProbeFails(c) ==
    /\ phase[c] = "probe"
    /\ ~path
    /\ DropProbe
    /\ Goes(c, "idle")
    /\ UNCHANGED <<hosts, failures, broken, reached>>

\* What the fresh client answers decides; a plausible error is to be content
\* with having built it.
Built == TRUE

Answered == path

ProbeReaches(c) ==
    /\ phase[c] = "probe"
    /\ Answered
    /\ Goes(c, "swap")
    /\ UNCHANGED <<hosts, counters, broken, reached>>

\* swap_clients, then the count starts afresh, then the guard is dropped.
Swap(c) ==
    /\ phase[c] = "swap"
    /\ wedged' = FALSE
    /\ Goes(c, "heal")
    /\ UNCHANGED <<path, counters, broken, reached>>

Heal(c) ==
    /\ phase[c] = "heal"
    /\ failures' = 0
    /\ Goes(c, "release")
    /\ UNCHANGED <<hosts, probing, broken, reached>>

Release(c) ==
    /\ phase[c] = "release"
    /\ probing' = FALSE
    /\ Goes(c, "idle")
    /\ UNCHANGED <<hosts, failures, broken, reached>>

CheckStep(c) ==
    \/ DescribeAnswers(c) \/ Reset(c) \/ DescribeFails(c) \/ Count(c) \/ Compete(c)
    \/ ProbeFails(c) \/ ProbeReaches(c) \/ Swap(c) \/ Heal(c) \/ Release(c)

\* A connection goes stale under the resident client and, for all a check
\* knows, under the clients taken out before.
Wedge ==
    /\ wedged' = TRUE
    /\ broken' = [c \in Checkers |-> broken[c] \/ phase[c] = "describe"]
    /\ UNCHANGED <<path, counters, phase, reached>>

PathChanges ==
    /\ path' = ~path
    /\ reached' = [c \in Checkers |-> reached[c] \/ path']
    /\ UNCHANGED <<wedged, counters, phase, broken>>

HealNext ==
    \/ \E c \in Checkers : Check(c) \/ CheckStep(c)
    \/ Wedge
    \/ PathChanges

\* Every broker call ends by its timeout, and an open page polls the health of
\* every cluster: somebody checks again.
HealFairness ==
    /\ \A c \in Checkers : WF_healVars(CheckStep(c))
    /\ WF_healVars(\E c \in Checkers : Check(c))

HealSpec == HealInit /\ [][HealNext]_healVars /\ HealFairness

-----------------------------------------------------------------------------
HealTypeOK ==
    /\ path \in BOOLEAN /\ wedged \in BOOLEAN /\ probing \in BOOLEAN
    /\ failures \in 0 .. MaxCount
    /\ phase \in [Checkers -> ProbePlaces \cup CheckPlaces]
    /\ broken \in [Checkers -> BOOLEAN]
    /\ reached \in [Checkers -> BOOLEAN]

\* Fresh clients are built and swapped in by one check at a time, and the flag
\* that says so is up exactly while there is one.
ProbeIsExclusive ==
    /\ \A c, d \in Checkers : phase[c] \in ProbePlaces /\ phase[d] \in ProbePlaces => c = d
    /\ probing <=> \E c \in Checkers : phase[c] \in ProbePlaces

\* "recovery can never mask a real outage": nobody is about to answer healthy,
\* nor is a client about to be swapped in, unless the brokers could be reached
\* while that very check ran.
OutageNotMasked ==
    \A c \in Checkers :
        phase[c] \in {"answered", "swap", "heal", "release"} => reached[c]

\* A wedged client over a path that stays healthy is got rid of, however its
\* failures interleave with late answers of older clients, and however often
\* it wedges again.
WedgeHeals == <>[]path => []<>~wedged

=============================================================================
